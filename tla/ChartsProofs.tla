----------------------------- MODULE ChartsProofs -----------------------------
(****************************************************************************)
(* Proofs about the plots, for every zone, every answer however long and with *)
(* whatever outages, restarts and rows without a stamp.                      *)
(****************************************************************************)
EXTENDS Charts, SeriesProofs

-----------------------------------------------------------------------------
(* Runs.                                                                    *)

(* A run of rows: of 1..m, all of them on and none but the first a cut.       *)
RunOf(run, m, on, cut) ==
  /\ run \in Nat \X Nat /\ 1 <= run[1] /\ run[1] <= run[2] /\ run[2] <= m
  /\ \A i \in run[1] .. run[2] : i \in on /\ (i # run[1] => i \notin cut)

(* Runs in their order that together are everything that is on, each as long   *)
(* as it can be.                                                             *)
RunsOf(runs, m, on, cut) ==
  /\ runs \in Seq(Nat \X Nat)
  /\ \A k \in 1 .. Len(runs) : RunOf(runs[k], m, on, cut)
  /\ \A k, l \in 1 .. Len(runs) : k < l => runs[k][2] < runs[l][1]
  /\ \A i \in 1 .. m : i \in on => \E k \in 1 .. Len(runs) : runs[k][1] <= i /\ i <= runs[k][2]
  /\ \A k \in 1 .. Len(runs) :
       runs[k][2] < m => runs[k][2] + 1 \notin on \/ runs[k][2] + 1 \in cut

(* One more row keeps them so.                                              *)
Grown(runs, k, on, cut) ==
  IF k \notin on THEN runs
  ELSE IF runs # << >> /\ Last(runs)[2] = k - 1 /\ k \notin cut
  THEN Append(Front(runs), <<Last(runs)[1], k>>)
  ELSE Append(runs, <<k, k>>)

LEMMA RowGrows ==
  ASSUME NEW on, NEW cut, NEW k \in Nat, NEW runs, RunsOf(runs, k, on, cut)
  PROVE  RunsOf(Grown(runs, k + 1, on, cut), k + 1, on, cut)
<1> DEFINE L == Len(runs)
           next == Grown(runs, k + 1, on, cut)
<1>1. L \in Nat /\ DOMAIN runs = 1 .. L /\ runs \in Seq(Nat \X Nat)
      /\ \A i \in 1 .. L : runs[i] \in Nat \X Nat /\ runs[i][1] \in Nat /\ runs[i][2] \in Nat
  BY ElementOfSeq, LenProperties DEF RunsOf
<1>2. \A i \in 1 .. L : RunOf(runs[i], k, on, cut)
  BY DEF RunsOf
<1>3. \A i \in 1 .. L :
        /\ 1 <= runs[i][1] /\ runs[i][1] <= runs[i][2] /\ runs[i][2] <= k
        /\ \A x \in runs[i][1] .. runs[i][2] : x \in on /\ (x # runs[i][1] => x \notin cut)
  BY <1>2 DEF RunOf
<1>4. \A i, j \in 1 .. L : i < j => runs[i][2] < runs[j][1]
  BY DEF RunsOf
<1>5. \A i \in 1 .. k : i \in on => \E j \in 1 .. L : runs[j][1] <= i /\ i <= runs[j][2]
  BY DEF RunsOf
<1>6. \A i \in 1 .. L : runs[i][2] < k => runs[i][2] + 1 \notin on \/ runs[i][2] + 1 \in cut
  BY DEF RunsOf
<1>7. L # 0 => Last(runs) = runs[L]
  BY DEF Last
<1>8. runs # << >> <=> L # 0
  BY EmptySeq, <1>1
<1> HIDE DEF L
<1>9. CASE k + 1 \notin on
  <2>1. next = runs
    BY <1>9 DEF Grown
  <2>2. \A i \in 1 .. L : RunOf(runs[i], k + 1, on, cut)
    BY <1>1, <1>2 DEF RunOf
  <2>3. \A i \in 1 .. (k + 1) : i \in on => \E j \in 1 .. L : runs[j][1] <= i /\ i <= runs[j][2]
    <3>1. \A i \in 1 .. (k + 1) : i = k + 1 \/ i \in 1 .. k
      OBVIOUS
    <3> QED
      BY <1>5, <1>9, <3>1
  <2>4. \A i \in 1 .. L : runs[i][2] < k + 1 => runs[i][2] + 1 \notin on \/ runs[i][2] + 1 \in cut
    <3>1. \A i \in 1 .. L : runs[i][2] < k \/ runs[i][2] = k
      BY <1>1, <1>3
    <3> QED
      BY <1>6, <1>9, <3>1
  <2> QED
    BY <1>1, <1>4, <2>1, <2>2, <2>3, <2>4 DEF RunsOf, L
<1>10. CASE k + 1 \in on /\ L # 0 /\ runs[L][2] = k /\ k + 1 \notin cut
  <2>1. L \in 1 .. L /\ L - 1 \in Nat
    BY <1>1, <1>10
  <2>2. next = Append(Front(runs), <<runs[L][1], k + 1>>)
    BY <1>7, <1>8, <1>10 DEF Grown
  <2>3. /\ Front(runs) \in Seq(Nat \X Nat) /\ Len(Front(runs)) = L - 1
        /\ \A i \in 1 .. (L - 1) : Front(runs)[i] = runs[i]
    <3>1. 1 \in Int /\ L - 1 \in Int /\ \A i \in 1 .. (L - 1) : runs[i] \in Nat \X Nat
      BY <1>1, <2>1
    <3>2. /\ SubSeq(runs, 1, L - 1) \in Seq(Nat \X Nat)
          /\ Len(SubSeq(runs, 1, L - 1)) = IF 1 <= L - 1 THEN L - 1 - 1 + 1 ELSE 0
          /\ \A i \in 1 .. (L - 1 - 1 + 1) : SubSeq(runs, 1, L - 1)[i] = runs[1 + i - 1]
      BY <3>1, SubSeqProperties
    <3>3. Front(runs) = SubSeq(runs, 1, L - 1)
      BY DEF Front, L
    <3>4. (IF 1 <= L - 1 THEN L - 1 - 1 + 1 ELSE 0) = L - 1 /\ L - 1 - 1 + 1 = L - 1
      BY <2>1
    <3>5. \A i \in 1 .. (L - 1) : 1 + i - 1 = i
      BY <2>1
    <3> QED
      BY <3>2, <3>3, <3>4, <3>5
  <2>4. /\ next \in Seq(Nat \X Nat) /\ Len(next) = L
        /\ \A i \in 1 .. (L - 1) : next[i] = runs[i]
        /\ next[L] = <<runs[L][1], k + 1>>
    <3>1. <<runs[L][1], k + 1>> \in Nat \X Nat
      BY <1>1, <2>1
    <3>2. L - 1 + 1 = L
      BY <2>1
    <3> HIDE DEF next
    <3> QED
      BY <2>2, <2>3, <3>1, <3>2, AppendProperties, SMTT(30)
  <2> HIDE DEF next
  <2>5. \A i \in 1 .. L : i \in 1 .. (L - 1) \/ i = L
    BY <1>1
  <2>6. \A i \in 1 .. L : /\ next[i][1] = runs[i][1]
                          /\ next[i][2] = IF i = L THEN k + 1 ELSE runs[i][2]
    <3>1. \A i \in 1 .. (L - 1) : i # L
      BY <2>1
    <3> QED
      BY <2>4, <2>5, <3>1, SMTT(30)
  <2>7. \A i \in 1 .. L : RunOf(next[i], k + 1, on, cut)
    <3>1. TAKE i \in 1 .. L
    <3>2. CASE i = L
      <4>1. /\ next[L] \in Nat \X Nat /\ next[L][1] = runs[L][1] /\ next[L][2] = k + 1
            /\ 1 <= runs[L][1] /\ runs[L][1] <= k + 1 /\ runs[L][1] \in Nat
        BY <1>1, <1>3, <1>10, <2>1, <2>4
      <4>2. \A x \in runs[L][1] .. (k + 1) : x \in on /\ (x # runs[L][1] => x \notin cut)
        <5>1. \A x \in runs[L][1] .. (k + 1) : x = k + 1 \/ x \in runs[L][1] .. runs[L][2]
          BY <1>10, <4>1
        <5> QED
          BY <1>3, <1>10, <2>1, <5>1
      <4> QED
        BY <3>2, <4>1, <4>2 DEF RunOf
    <3>3. CASE i # L
      <4>1. next[i] = runs[i]
        BY <2>4, <2>5, <3>3
      <4> QED
        BY <1>1, <1>2, <4>1 DEF RunOf
    <3> QED
      BY <3>2, <3>3
  <2>8. \A i, j \in 1 .. L : i < j => next[i][2] < next[j][1]
    <3>1. \A i, j \in 1 .. L : i < j => i # L
      BY <1>1
    <3> QED
      BY <1>4, <2>6, <3>1
  <2>9. \A i \in 1 .. (k + 1) : i \in on => \E j \in 1 .. L : next[j][1] <= i /\ i <= next[j][2]
    <3>1. TAKE i \in 1 .. (k + 1)
    <3>2. CASE i = k + 1
      <4>1. next[L][1] <= k + 1 /\ k + 1 <= next[L][2]
        BY <1>1, <1>3, <1>10, <2>1, <2>6
      <4> QED
        BY <2>1, <3>2, <4>1
    <3>3. CASE i # k + 1 /\ i \in on
      <4>1. i \in 1 .. k
        BY <3>3
      <4>2. PICK j \in 1 .. L : runs[j][1] <= i /\ i <= runs[j][2]
        BY <1>5, <3>3, <4>1
      <4>3. i <= next[j][2]
        <5>1. next[j][2] = k + 1 \/ next[j][2] = runs[j][2]
          BY <2>6
        <5> QED
          BY <4>1, <4>2, <5>1
      <4> QED
        BY <2>6, <4>2, <4>3
    <3> QED
      BY <3>2, <3>3
  <2>10. \A i \in 1 .. L : next[i][2] < k + 1 => next[i][2] + 1 \notin on \/ next[i][2] + 1 \in cut
    <3>1. TAKE i \in 1 .. L
    <3>2. CASE i = L
      BY <2>6, <3>2
    <3>3. CASE i # L
      <4>1. i < L
        BY <1>1, <3>3
      <4>2. runs[i][2] < runs[L][1] /\ runs[L][1] <= k
        BY <1>1, <1>3, <1>4, <2>1, <4>1, SMTT(30)
      <4>3. runs[i][2] < k
        BY <1>1, <2>1, <4>2
      <4> QED
        BY <1>6, <2>6, <3>3, <4>3
    <3> QED
      BY <3>2, <3>3
  <2> QED
    BY <2>4, <2>7, <2>8, <2>9, <2>10 DEF RunsOf, next
<1>11. CASE k + 1 \in on /\ ~ (L # 0 /\ runs[L][2] = k /\ k + 1 \notin cut)
  <2>1. next = Append(runs, <<k + 1, k + 1>>)
    BY <1>7, <1>8, <1>11 DEF Grown
  <2>2. /\ next \in Seq(Nat \X Nat) /\ Len(next) = L + 1
        /\ \A i \in 1 .. L : next[i] = runs[i]
        /\ next[L + 1] = <<k + 1, k + 1>>
    <3>1. <<k + 1, k + 1>> \in Nat \X Nat
      OBVIOUS
    <3> HIDE DEF next
    <3> QED
      BY <1>1, <2>1, <3>1, AppendProperties DEF L
  <2> HIDE DEF next
  <2>3. \A i \in 1 .. (L + 1) : i \in 1 .. L \/ i = L + 1
    BY <1>1
  <2>4. L + 1 \in 1 .. (L + 1) /\ \A i \in 1 .. L : i \in 1 .. (L + 1)
    BY <1>1
  <2>5. \A i \in 1 .. (L + 1) : RunOf(next[i], k + 1, on, cut)
    <3>1. RunOf(<<k + 1, k + 1>>, k + 1, on, cut)
      BY <1>11 DEF RunOf
    <3>2. \A i \in 1 .. L : RunOf(runs[i], k + 1, on, cut)
      BY <1>1, <1>2 DEF RunOf
    <3> QED
      BY <2>2, <2>3, <3>1, <3>2
  <2>6. \A i, j \in 1 .. (L + 1) : i < j => next[i][2] < next[j][1]
    <3>1. TAKE i, j \in 1 .. (L + 1)
    <3>2. CASE j = L + 1 /\ i < j
      <4>1. i \in 1 .. L
        BY <1>1, <3>2
      <4>2. next[i][2] <= k /\ next[i][2] \in Nat /\ next[j][1] = k + 1
        BY <1>1, <1>3, <2>2, <3>2, <4>1
      <4> QED
        BY <4>2
    <3>3. CASE j # L + 1 /\ i < j
      <4>1. i \in 1 .. L /\ j \in 1 .. L
        BY <1>1, <2>3, <3>3
      <4> QED
        BY <1>4, <2>2, <3>3, <4>1
    <3> QED
      BY <3>2, <3>3
  <2>7. \A i \in 1 .. (k + 1) : i \in on => \E j \in 1 .. (L + 1) : next[j][1] <= i /\ i <= next[j][2]
    <3>1. TAKE i \in 1 .. (k + 1)
    <3>2. CASE i = k + 1
      BY <2>2, <2>4, <3>2
    <3>3. CASE i # k + 1 /\ i \in on
      <4>1. i \in 1 .. k
        BY <3>3
      <4>2. PICK j \in 1 .. L : runs[j][1] <= i /\ i <= runs[j][2]
        BY <1>5, <3>3, <4>1
      <4> QED
        BY <2>2, <2>4, <4>2
    <3> QED
      BY <3>2, <3>3
  <2>8. \A i \in 1 .. (L + 1) : next[i][2] < k + 1 => next[i][2] + 1 \notin on \/ next[i][2] + 1 \in cut
    <3>1. TAKE i \in 1 .. (L + 1)
    <3>2. CASE i = L + 1
      BY <2>2, <3>2
    <3>3. CASE i \in 1 .. L
      <4>1. next[i] = runs[i] /\ runs[i][2] \in Nat /\ runs[i][2] <= k
        BY <1>1, <1>3, <2>2, <3>3
      <4>2. CASE runs[i][2] < k
        BY <1>6, <3>3, <4>1, <4>2
      <4>3. CASE runs[i][2] = k
        <5>1. L \in 1 .. L /\ L # 0 /\ (i # L => i < L)
          BY <1>1, <3>3
        <5>2. ASSUME i < L PROVE FALSE
          <6>1. runs[i][2] < runs[L][1] /\ runs[L][1] <= runs[L][2] /\ runs[L][2] <= k
            BY <1>3, <1>4, <3>3, <5>1, <5>2
          <6>2. runs[L][1] \in Nat /\ runs[L][2] \in Nat
            BY <1>1, <5>1
          <6> QED
            BY <4>3, <6>1, <6>2
        <5>3. k + 1 \in cut
          BY <1>11, <4>3, <5>1, <5>2
        <5> QED
          BY <4>1, <4>3, <5>3
      <4> QED
        BY <4>1, <4>2, <4>3
    <3> QED
      BY <2>3, <3>2, <3>3
  <2> QED
    BY <2>2, <2>5, <2>6, <2>7, <2>8 DEF RunsOf, next
<1> QED
  BY <1>9, <1>10, <1>11

(* The runs are those.                                                      *)
LEMMA RunsAre ==
  ASSUME NEW m \in Int, NEW on, NEW cut
  PROVE  RunsOf(Runs(m, on, cut), m, on, cut)
<1>1. RunsOf(<< >>, 0, on, cut)
  BY EmptySeq DEF RunsOf
<1>2. CASE m < 1
  <2>1. Runs(m, on, cut) = << >>
    BY <1>2 DEF Runs
  <2> QED
    BY <1>2, <2>1, EmptySeq DEF RunsOf
<1>3. CASE m >= 1
  <2> DEFINE S == Seq(Nat \X Nat)
             P == {k \in Nat : \E f \in [0 .. k -> S] :
                      /\ f[0] = << >> /\ \A i \in 1 .. k : f[i] = Grown(f[i - 1], i, on, cut)
                      /\ \A i \in 0 .. k : RunsOf(f[i], i, on, cut)}
             sweep == CHOOSE f : f = [k \in 0 .. m |-> IF k = 0 THEN << >>
                                                       ELSE Grown(f[k - 1], k, on, cut)]
  <2>1. m \in Nat
    BY <1>3
  <2>2. Runs(m, on, cut) = sweep[m]
    BY <1>3 DEF Runs, Grown
  <2>3. 0 \in P
    <3> DEFINE f == [k \in 0 .. 0 |-> << >>]
    <3>1. f \in [0 .. 0 -> S] /\ f[0] = << >>
      BY EmptySeq
    <3> HIDE DEF f, S
    <3> QED
      BY <1>1, <3>1
  <2>4. ASSUME NEW k \in Nat, k \in P PROVE k + 1 \in P
    <3>1. PICK f \in [0 .. k -> S] :
             /\ f[0] = << >> /\ \A i \in 1 .. k : f[i] = Grown(f[i - 1], i, on, cut)
             /\ \A i \in 0 .. k : RunsOf(f[i], i, on, cut)
      BY <2>4
    <3> DEFINE next == Grown(f[k], k + 1, on, cut)
               h    == [i \in 0 .. (k + 1) |-> IF i <= k THEN f[i] ELSE next]
    <3>2. RunsOf(next, k + 1, on, cut)
      BY <3>1, RowGrows
    <3>3. next \in S
      BY <3>2 DEF RunsOf
    <3> HIDE DEF next
    <3>4. h \in [0 .. (k + 1) -> S] /\ h[k + 1] = next /\ \A i \in 0 .. k : h[i] = f[i]
      BY <3>3
    <3> HIDE DEF h
    <3>5. \A i \in 0 .. (k + 1) : i \in 0 .. k \/ i = k + 1
      OBVIOUS
    <3>6. \A i \in 0 .. (k + 1) : RunsOf(h[i], i, on, cut)
      BY <3>1, <3>2, <3>4, <3>5
    <3>7. ASSUME NEW i \in 1 .. (k + 1) PROVE h[i] = Grown(h[i - 1], i, on, cut)
      <4>1. CASE i = k + 1
        <5>1. i - 1 = k /\ k \in 0 .. k
          BY <4>1
        <5> QED
          BY <3>4, <4>1, <5>1 DEF next
      <4>2. CASE i # k + 1
        <5>1. i \in 1 .. k /\ i \in 0 .. k /\ i - 1 \in 0 .. k
          BY <3>7, <4>2
        <5> QED
          BY <3>1, <3>4, <5>1
      <4> QED
        BY <4>1, <4>2
    <3>8. h[0] = << >>
      BY <3>1, <3>4
    <3> HIDE DEF S
    <3> QED
      BY <3>4, <3>6, <3>7, <3>8
  <2>5. m \in P
    <3> HIDE DEF P
    <3> QED
      BY <2>1, <2>3, <2>4, Climbs
  <2>6. PICK f \in [0 .. m -> S] :
           /\ f[0] = << >> /\ \A i \in 1 .. m : f[i] = Grown(f[i - 1], i, on, cut)
           /\ \A i \in 0 .. m : RunsOf(f[i], i, on, cut)
    BY <2>5
  <2>7. f = [k \in 0 .. m |-> IF k = 0 THEN << >> ELSE Grown(f[k - 1], k, on, cut)]
    <3>1. \A k \in 0 .. m : k = 0 \/ k \in 1 .. m
      BY <2>1
    <3> QED
      BY <2>6, <3>1
  <2>8. sweep = [k \in 0 .. m |-> IF k = 0 THEN << >> ELSE Grown(sweep[k - 1], k, on, cut)]
    BY <2>7
  <2> HIDE DEF sweep
  <2>9. sweep[0] = << >> /\ \A k \in 1 .. m : sweep[k] = Grown(sweep[k - 1], k, on, cut)
    <3> DEFINE step(k) == IF k = 0 THEN << >> ELSE Grown(sweep[k - 1], k, on, cut)
    <3>1. \A k \in 0 .. m : sweep[k] = step(k)
      BY <2>8, Zenon
    <3>2. 0 \in 0 .. m /\ \A k \in 1 .. m : k \in 0 .. m /\ k # 0
      BY <2>1
    <3> QED
      BY <3>1, <3>2
  <2> DEFINE Q == {k \in Nat : k <= m => RunsOf(sweep[k], k, on, cut)}
  <2>10. 0 \in Q
    BY <1>1, <2>9
  <2>11. ASSUME NEW k \in Nat, k \in Q PROVE k + 1 \in Q
    <3>1. CASE k + 1 <= m
      <4>1. k <= m /\ k + 1 \in 1 .. m /\ (k + 1) - 1 = k
        BY <2>1, <3>1
      <4>2. RunsOf(sweep[k], k, on, cut) /\ sweep[k + 1] = Grown(sweep[k], k + 1, on, cut)
        BY <2>9, <2>11, <4>1
      <4> QED
        BY <4>2, RowGrows
    <3>2. CASE ~ (k + 1 <= m)
      BY <3>2
    <3> QED
      BY <3>1, <3>2
  <2>12. m \in Q
    <3> HIDE DEF Q
    <3> QED
      BY <2>1, <2>10, <2>11, Climbs
  <2> QED
    BY <2>1, <2>2, <2>12
<1> QED
  BY <1>2, <1>3

(* What is drawn in runs, row by row: what is on is in one run, what is not in *)
(* none, no run goes over a cut, and two rows side by side, on and not cut,     *)
(* are in the same.                                                          *)
In(i, runs) == {k \in DOMAIN runs : runs[k][1] <= i /\ i <= runs[k][2]}

LEMMA RowsInRuns ==
  ASSUME NEW m \in Int, NEW on, NEW cut
  PROVE  LET runs == Runs(m, on, cut)
         IN  /\ DOMAIN runs \subseteq Nat \ {0}
             /\ \A k \in DOMAIN runs : /\ runs[k][1] \in 1 .. m /\ runs[k][2] \in runs[k][1] .. m
                                      /\ runs[k][1] .. runs[k][2] \subseteq on
                                      /\ (runs[k][1] + 1) .. runs[k][2] \cap cut = {}
             /\ \A i \in 1 .. m : i \in on => \E k \in DOMAIN runs : In(i, runs) = {k}
             /\ \A i \in 1 .. m : i \notin on => In(i, runs) = {}
             /\ \A i \in 2 .. m : i - 1 \in on /\ i \in on /\ i \notin cut =>
                  In(i - 1, runs) = In(i, runs)
             /\ \A i \in 2 .. m : i \in cut => In(i - 1, runs) \cap In(i, runs) = {}
<1> DEFINE runs == Runs(m, on, cut)
           L    == Len(runs)
<1>1. RunsOf(runs, m, on, cut)
  BY RunsAre
<1> HIDE DEF runs
<1>2. L \in Nat /\ DOMAIN runs = 1 .. L
      /\ \A i \in 1 .. L : runs[i] \in Nat \X Nat /\ runs[i][1] \in Nat /\ runs[i][2] \in Nat
  BY <1>1, ElementOfSeq, LenProperties DEF RunsOf
<1>3. \A i \in 1 .. L :
        /\ 1 <= runs[i][1] /\ runs[i][1] <= runs[i][2] /\ runs[i][2] <= m
        /\ \A x \in runs[i][1] .. runs[i][2] : x \in on /\ (x # runs[i][1] => x \notin cut)
  BY <1>1 DEF RunsOf, RunOf
<1>4. \A i, j \in 1 .. L : i < j => runs[i][2] < runs[j][1]
  BY <1>1 DEF RunsOf
<1>5. \A i \in 1 .. m : i \in on => \E j \in 1 .. L : runs[j][1] <= i /\ i <= runs[j][2]
  BY <1>1 DEF RunsOf
<1>6. \A i \in 1 .. L : runs[i][2] < m => runs[i][2] + 1 \notin on \/ runs[i][2] + 1 \in cut
  BY <1>1 DEF RunsOf
<1> HIDE DEF L
<1>7. \A k \in 1 .. L : /\ runs[k][1] \in 1 .. m /\ runs[k][2] \in runs[k][1] .. m
                        /\ runs[k][1] .. runs[k][2] \subseteq on
                        /\ (runs[k][1] + 1) .. runs[k][2] \cap cut = {}
  <2>1. TAKE k \in 1 .. L
  <2>2. runs[k][1] \in 1 .. m /\ runs[k][2] \in runs[k][1] .. m
    BY <1>2, <1>3
  <2>3. \A x \in (runs[k][1] + 1) .. runs[k][2] : x \in runs[k][1] .. runs[k][2] /\ x # runs[k][1]
    BY <1>2
  <2> QED
    BY <1>3, <2>2, <2>3
<1>8. \A i \in Int, k, l \in 1 .. L : k \in In(i, runs) /\ l \in In(i, runs) => k = l
  <2>1. TAKE i \in Int, k, l \in 1 .. L
  <2>2. ASSUME k < l, k \in In(i, runs), l \in In(i, runs) PROVE FALSE
    BY <1>2, <1>4, <2>2 DEF In
  <2>3. ASSUME l < k, k \in In(i, runs), l \in In(i, runs) PROVE FALSE
    BY <1>2, <1>4, <2>3 DEF In
  <2>4. k < l \/ l < k \/ k = l
    OBVIOUS
  <2> QED
    BY <2>2, <2>3, <2>4
<1>9. \A i \in Int : In(i, runs) \subseteq 1 .. L
  BY <1>2 DEF In
<1>10. \A i \in 1 .. m : i \in on => \E k \in 1 .. L : In(i, runs) = {k}
  <2>1. TAKE i \in 1 .. m
  <2>2. ASSUME i \in on PROVE \E k \in 1 .. L : k \in In(i, runs)
    BY <1>2, <1>5, <2>2 DEF In
  <2> QED
    BY <1>8, <1>9, <2>2
<1>11. \A i \in 1 .. m, k \in 1 .. L : k \in In(i, runs) => i \in on
  <2>1. TAKE i \in 1 .. m, k \in 1 .. L
  <2>2. k \in In(i, runs) => i \in runs[k][1] .. runs[k][2]
    BY <1>2 DEF In
  <2> QED
    BY <1>3, <2>2
<1>12. \A i \in 1 .. m : i \notin on => In(i, runs) = {}
  BY <1>9, <1>11
<1>13. ASSUME NEW i \in 2 .. m, i - 1 \in on, i \in on, i \notin cut
       PROVE  In(i - 1, runs) = In(i, runs)
  <2>1. i - 1 \in 1 .. m /\ i \in 1 .. m
    BY <1>13
  <2>2. PICK k \in 1 .. L : In(i - 1, runs) = {k}
    BY <1>10, <1>13, <2>1
  <2>3. runs[k][1] <= i - 1 /\ i - 1 <= runs[k][2] /\ runs[k][1] \in Nat /\ runs[k][2] \in Nat
    BY <1>2, <2>2 DEF In
  <2>4. i <= runs[k][2]
    <3>1. ASSUME runs[k][2] = i - 1 PROVE FALSE
      <4>1. runs[k][2] < m /\ runs[k][2] + 1 = i
        BY <1>13, <3>1
      <4> QED
        BY <1>6, <1>13, <4>1
    <3> QED
      BY <1>13, <2>3, <3>1
  <2>5. k \in In(i, runs)
    BY <1>2, <2>1, <2>3, <2>4 DEF In
  <2> QED
    <3>1. i \in Int
      BY <2>1
    <3>2. \A l \in In(i, runs) : l = k
      BY <1>8, <1>9, <2>5, <3>1
    <3> QED
      BY <2>2, <2>5, <3>2
<1>14. ASSUME NEW i \in 2 .. m, i \in cut
       PROVE  In(i - 1, runs) \cap In(i, runs) = {}
  <2>1. ASSUME NEW k \in 1 .. L, k \in In(i - 1, runs), k \in In(i, runs) PROVE FALSE
    <3>1. i \in runs[k][1] .. runs[k][2] /\ i # runs[k][1]
      BY <1>2, <1>14, <2>1 DEF In
    <3> QED
      BY <1>3, <1>14, <3>1
  <2> QED
    BY <1>9, <1>14, <2>1
<1>15. DOMAIN runs \subseteq Nat \ {0}
  BY <1>2
<1> QED
  BY <1>2, <1>7, <1>10, <1>12, <1>13, <1>14, <1>15 DEF runs

-----------------------------------------------------------------------------
(* What is drawn of the rows.                                               *)

LEMMA GapsAre ==
  ASSUME stamps \in Seq(Nat)
  PROVE  n \in Nat /\ Gaps \subseteq 2 .. n
BY LenProperties DEF n, Gaps, gap

(* Over the dark there is nothing.                                          *)
LEMMA UnbridgedStops ==
  ASSUME stamps \in Seq(Nat), NEW on, NEW i \in Gaps, NEW k \in DOMAIN Unbridged(on)
  PROVE  ~ (Unbridged(on)[k][1] < i /\ i <= Unbridged(on)[k][2])
<1> DEFINE runs == Runs(n, on, Gaps)
<1>1. n \in Nat /\ Gaps \subseteq 2 .. n
  BY GapsAre
<1>2. /\ runs[k][1] \in 1 .. n /\ runs[k][2] \in runs[k][1] .. n
      /\ (runs[k][1] + 1) .. runs[k][2] \cap Gaps = {}
  BY <1>1, RowsInRuns DEF Unbridged
<1> HIDE DEF runs
<1>3. runs[k][1] < i /\ i <= runs[k][2] => i \in (runs[k][1] + 1) .. runs[k][2]
  BY <1>1, <1>2
<1>4. Unbridged(on) = runs
  BY DEF Unbridged, runs
<1> QED
  BY <1>2, <1>3, <1>4

(* The differential's polygons, run by run.                                 *)
LEMMA PolygonsAre ==
  ASSUME stamps \in Seq(Nat)
  PROVE  LET on   == {i \in 1 .. (n - 1) : segmentWarm(i) # None}
             cut  == {i \in 2 .. (n - 1) : segmentWarm(i) # segmentWarm(i - 1)}
             runs == Runs(n - 1, on, cut)
             warm == fillDifferential
         IN  /\ DOMAIN warm = DOMAIN runs
             /\ \A k \in DOMAIN warm :
                  /\ warm[k][1] = runs[k][1] /\ warm[k][2] = runs[k][2] + 1
                  /\ runs[k][1] \in 1 .. (n - 1) /\ runs[k][2] \in runs[k][1] .. (n - 1)
                  /\ \A i \in runs[k][1] .. runs[k][2] :
                       /\ segmentWarm(i) # None
                       /\ segmentWarm(i) = segmentWarm(runs[k][1])
             /\ \A i \in on : \E k \in DOMAIN warm : runs[k][1] <= i /\ i <= runs[k][2]
<1> DEFINE on   == {i \in 1 .. (n - 1) : segmentWarm(i) # None}
           cut  == {i \in 2 .. (n - 1) : segmentWarm(i) # segmentWarm(i - 1)}
           runs == Runs(n - 1, on, cut)
           warm == fillDifferential
<1>1. n \in Nat /\ n - 1 \in Int
  BY GapsAre
<1>2. warm = [k \in DOMAIN runs |-> <<runs[k][1], runs[k][2] + 1>>]
  BY DEF fillDifferential
<1>3. /\ \A k \in DOMAIN runs : /\ runs[k][1] \in 1 .. (n - 1) /\ runs[k][2] \in runs[k][1] .. (n - 1)
                               /\ runs[k][1] .. runs[k][2] \subseteq on
                               /\ (runs[k][1] + 1) .. runs[k][2] \cap cut = {}
      /\ \A i \in 1 .. (n - 1) : i \in on => \E k \in DOMAIN runs : In(i, runs) = {k}
  <2> HIDE DEF on, cut
  <2> QED
    BY <1>1, RowsInRuns
<1>4. \A i \in on : i \in 1 .. (n - 1) /\ segmentWarm(i) # None
  OBVIOUS
<1>5. \A i \in 2 .. (n - 1) : i \notin cut => segmentWarm(i) = segmentWarm(i - 1)
  OBVIOUS
<1> HIDE DEF on, cut, runs, warm
<1>6. ASSUME NEW k \in DOMAIN runs
      PROVE  \A i \in runs[k][1] .. runs[k][2] : segmentWarm(i) = segmentWarm(runs[k][1])
  <2> DEFINE a == runs[k][1]
             b == runs[k][2]
             P == {d \in Nat : a + d <= b => segmentWarm(a + d) = segmentWarm(a)}
  <2>1. a \in 1 .. (n - 1) /\ b \in a .. (n - 1) /\ a .. b \subseteq on /\ (a + 1) .. b \cap cut = {}
    BY <1>3
  <2> HIDE DEF a, b
  <2>2. 0 \in P
    <3>1. a + 0 = a
      BY <1>1, <2>1
    <3> QED
      BY <3>1
  <2>3. ASSUME NEW d \in Nat, d \in P PROVE d + 1 \in P
    <3>1. CASE a + (d + 1) <= b
      <4>1. /\ a + d <= b /\ a + (d + 1) \in (a + 1) .. b /\ a + (d + 1) \in 2 .. (n - 1)
            /\ (a + (d + 1)) - 1 = a + d
        BY <1>1, <2>1, <3>1
      <4>2. a + (d + 1) \notin cut
        BY <2>1, <4>1
      <4>3. segmentWarm(a + (d + 1)) = segmentWarm(a + d)
        BY <1>5, <4>1, <4>2
      <4> QED
        BY <2>3, <4>1, <4>3
    <3>2. CASE ~ (a + (d + 1) <= b)
      BY <3>2
    <3> QED
      BY <3>1, <3>2
  <2>4. \A d \in Nat : d \in P
    <3> HIDE DEF P
    <3> QED
      BY <2>2, <2>3, Climbs
  <2>5. ASSUME NEW i \in a .. b PROVE segmentWarm(i) = segmentWarm(a)
    <3>1. i - a \in Nat /\ a + (i - a) = i /\ i <= b
      BY <1>1, <2>1, <2>5
    <3>2. i - a \in P
      BY <2>4, <3>1
    <3> QED
      BY <3>1, <3>2
  <2> QED
    BY <2>5 DEF a, b
<1>7. \A k \in DOMAIN runs : \A i \in runs[k][1] .. runs[k][2] : segmentWarm(i) # None
  BY <1>3, <1>4
<1>8. \A i \in on : \E k \in DOMAIN runs : runs[k][1] <= i /\ i <= runs[k][2]
  BY <1>3, <1>4 DEF In
<1>9. DOMAIN warm = DOMAIN runs
      /\ \A k \in DOMAIN runs : warm[k][1] = runs[k][1] /\ warm[k][2] = runs[k][2] + 1
  BY <1>2
<1> QED
  BY <1>3, <1>6, <1>7, <1>8, <1>9 DEF on, cut, runs, warm

LEMMA NothingCrosses == stamps \in Seq(Nat) => NothingAcrossOutage
<1> SUFFICES ASSUME stamps \in Seq(Nat), NEW i \in Gaps, NEW runs \in Drawn, NEW k \in DOMAIN runs
             PROVE  ~ (runs[k][1] < i /\ i <= runs[k][2])
  BY DEF NothingAcrossOutage
<1>1. n \in Nat /\ i \in 2 .. n
  BY GapsAre
<1>2. CASE runs # fillDifferential
  <2>1. PICK on : runs = Unbridged(on)
    BY <1>2 DEF Drawn, line, drawFanSpeed, fillMeterBand, tintCycling, drawBattery
  <2> QED
    BY <2>1, UnbridgedStops
<1>3. CASE runs = fillDifferential
  <2> DEFINE drawn == Runs(n - 1, {j \in 1 .. (n - 1) : segmentWarm(j) # None},
                                  {j \in 2 .. (n - 1) : segmentWarm(j) # segmentWarm(j - 1)})
  <2>1. /\ runs[k][1] = drawn[k][1] /\ runs[k][2] = drawn[k][2] + 1
        /\ drawn[k][1] \in 1 .. (n - 1) /\ drawn[k][2] \in drawn[k][1] .. (n - 1)
        /\ \A j \in drawn[k][1] .. drawn[k][2] : segmentWarm(j) # None
    BY <1>3, PolygonsAre
  <2> HIDE DEF drawn
  <2>2. segmentWarm(i - 1) = None
    <3>1. (i - 1) + 1 = i
      BY <1>1
    <3> QED
      BY <3>1 DEF segmentWarm
  <2>3. i - 1 \notin drawn[k][1] .. drawn[k][2]
    BY <2>1, <2>2
  <2> QED
    BY <1>1, <2>1, <2>3
<1> QED
  BY <1>2, <1>3

(* Of each row on there is one run, of the others none.                     *)
LEMMA OneRunEach ==
  ASSUME NEW m \in Int, NEW on, NEW cut, NEW i \in 1 .. m
  PROVE  Cardinality(In(i, Runs(m, on, cut))) = IF i \in on THEN 1 ELSE 0
<1> DEFINE runs == Runs(m, on, cut)
<1>1. /\ i \in on => \E k \in DOMAIN runs : In(i, runs) = {k}
      /\ i \notin on => In(i, runs) = {}
  BY RowsInRuns
<1> HIDE DEF runs
<1>2. \A k : Cardinality({k}) = 1
  BY FS_Singleton
<1>3. Cardinality({}) = 0
  BY FS_EmptySet
<1>4. Cardinality(In(i, runs)) = IF i \in on THEN 1 ELSE 0
  BY <1>1, <1>2, <1>3
<1> QED
  BY <1>4 DEF runs

LEMMA AllIsDrawn == stamps \in Seq(Nat) => NothingLeftOut
<1> SUFFICES ASSUME stamps \in Seq(Nat) PROVE NothingLeftOut
  OBVIOUS
<1> DEFINE pairs(run) == run[1] .. (run[2] - 1)
           warm  == fillDifferential
           joined(on) == \A i \in (2 .. n) \ Gaps : i - 1 \in on /\ i \in on =>
                           In(i - 1, Unbridged(on)) = In(i, Unbridged(on))
<1>1. n \in Nat /\ n \in Int /\ Gaps \subseteq 2 .. n
  BY GapsAre
<1>2. \A on : \A i \in 1 .. n : Cardinality(In(i, Unbridged(on))) = IF i \in on THEN 1 ELSE 0
  <2> TAKE on
  <2> QED
    BY <1>1, OneRunEach DEF Unbridged
<1>3. \A on : joined(on)
  <2> TAKE on
  <2> DEFINE runs == Runs(n, on, Gaps)
  <2>1. \A i \in 2 .. n : i - 1 \in on /\ i \in on /\ i \notin Gaps => In(i - 1, runs) = In(i, runs)
    <3> HIDE DEF In
    <3> QED
      BY <1>1, RowsInRuns, SMTT(60)
  <2>2. Unbridged(on) = runs
    BY DEF Unbridged
  <2> HIDE DEF runs
  <2> QED
    BY <2>1, <2>2
<1>4. \A column \in {"tf", "of"} : \A i \in 1 .. n :
        Cardinality(In(i, line(column))) = IF cols[i][column] = None THEN 0 ELSE 1
  <2> TAKE column \in {"tf", "of"}
  <2> TAKE i \in 1 .. n
  <2> DEFINE on == {j \in 1 .. n : cols[j][column] # None}
  <2>1. i \in on <=> cols[i][column] # None
    OBVIOUS
  <2>2. line(column) = Unbridged(on)
    BY DEF line
  <2> HIDE DEF on
  <2> QED
    BY <1>2, <2>1, <2>2
<1>5. \A i \in 1 .. n : Cardinality(In(i, drawFanSpeed)) = 1
  BY <1>2 DEF drawFanSpeed
<1>6. \A i \in 2 .. n : In(i - 1, drawFanSpeed) = In(i, drawFanSpeed) <=> <<i - 1, i>> \notin shadeOutages
  <2> TAKE i \in 2 .. n
  <2>1. i \in 1 .. n /\ i - 1 \in 1 .. n
    BY <1>1
  <2>2. <<i - 1, i>> \in shadeOutages <=> i \in Gaps
    BY <1>1 DEF shadeOutages
  <2>3. i \notin Gaps => In(i - 1, drawFanSpeed) = In(i, drawFanSpeed)
    BY <1>3, <2>1 DEF drawFanSpeed
  <2>4. ASSUME i \in Gaps PROVE In(i - 1, drawFanSpeed) # In(i, drawFanSpeed)
    <3>1. In(i - 1, drawFanSpeed) \cap In(i, drawFanSpeed) = {}
      BY <1>1, <2>4, RowsInRuns DEF drawFanSpeed, Unbridged
    <3>2. \E k : In(i, drawFanSpeed) = {k}
      <4>1. \A on : \A j \in 1 .. n : j \in on => \E k : In(j, Runs(n, on, Gaps)) = {k}
        <5> TAKE on
        <5> DEFINE runs == Runs(n, on, Gaps)
        <5>1. \A j \in 1 .. n : j \in on => \E k \in DOMAIN runs : In(j, runs) = {k}
          BY <1>1, RowsInRuns
        <5> HIDE DEF runs
        <5>2. \A j \in 1 .. n : j \in on => \E k : In(j, runs) = {k}
          BY <5>1
        <5> QED
          BY <5>2 DEF runs
      <4>2. i \in 1 .. n => \E k : In(i, Runs(n, 1 .. n, Gaps)) = {k}
        BY <4>1
      <4> QED
        BY <2>1, <4>2 DEF drawFanSpeed, Unbridged
    <3> QED
      BY <3>1, <3>2
  <2> QED
    BY <2>2, <2>3, <2>4
<1>7. shadesNights => \A i \in 1 .. n : Cardinality(In(i, shadeNights)) = IF i \in nights THEN 1 ELSE 0
  BY <1>1, OneRunEach DEF shadeNights
<1>8. \A i \in (2 .. n) \ Gaps :
        /\ cols[i - 1].band /\ cols[i].band => In(i - 1, fillMeterBand) = In(i, fillMeterBand)
        /\ cols[i - 1].flips /\ cols[i].flips => In(i - 1, tintCycling) = In(i, tintCycling)
  <2> TAKE i \in (2 .. n) \ Gaps
  <2>1. i \in 1 .. n /\ i - 1 \in 1 .. n
    BY <1>1
  <2>2. cols[i - 1].band /\ cols[i].band => In(i - 1, fillMeterBand) = In(i, fillMeterBand)
    <3> DEFINE on == {j \in 1 .. n : cols[j].band}
    <3>1. cols[i - 1].band /\ cols[i].band => i - 1 \in on /\ i \in on
      BY <2>1
    <3>2. fillMeterBand = Unbridged(on)
      BY DEF fillMeterBand
    <3> HIDE DEF on
    <3> QED
      BY <1>3, <3>1, <3>2
  <2>3. cols[i - 1].flips /\ cols[i].flips => In(i - 1, tintCycling) = In(i, tintCycling)
    <3> DEFINE on == {j \in 1 .. n : cols[j].flips}
    <3>1. cols[i - 1].flips /\ cols[i].flips => i - 1 \in on /\ i \in on
      BY <2>1
    <3>2. tintCycling = Unbridged(on)
      BY DEF tintCycling
    <3> HIDE DEF on
    <3> QED
      BY <1>3, <3>1, <3>2
  <2> QED
    BY <2>2, <2>3
<1> DEFINE segs  == {i \in 1 .. (n - 1) : segmentWarm(i) # None}
           drawn == Runs(n - 1, segs, {i \in 2 .. (n - 1) : segmentWarm(i) # segmentWarm(i - 1)})
<1>9. /\ DOMAIN warm = DOMAIN drawn
      /\ \A k \in DOMAIN warm :
           /\ warm[k][1] = drawn[k][1] /\ warm[k][2] = drawn[k][2] + 1
           /\ drawn[k][1] \in 1 .. (n - 1) /\ drawn[k][2] \in drawn[k][1] .. (n - 1)
           /\ \A i \in drawn[k][1] .. drawn[k][2] :
                /\ segmentWarm(i) # None
                /\ segmentWarm(i) = segmentWarm(drawn[k][1])
      /\ \A i \in segs : \E k \in DOMAIN warm : drawn[k][1] <= i /\ i <= drawn[k][2]
  BY PolygonsAre
<1>10. \A i : i \in segs <=> i \in 1 .. (n - 1) /\ segmentWarm(i) # None
  OBVIOUS
<1> HIDE DEF segs, drawn, warm
<1>11. \A k \in DOMAIN warm : pairs(warm[k]) = drawn[k][1] .. drawn[k][2]
  <2> TAKE k \in DOMAIN warm
  <2>1. (drawn[k][2] + 1) - 1 = drawn[k][2]
    BY <1>1, <1>9
  <2> QED
    BY <1>9, <2>1
<1>12. UNION {pairs(warm[k]) : k \in DOMAIN warm} = segs
  <2>1. \A k \in DOMAIN warm : \A i \in pairs(warm[k]) : i \in segs
    <3> TAKE k \in DOMAIN warm
    <3> TAKE i \in pairs(warm[k])
    <3>1. i \in drawn[k][1] .. drawn[k][2]
      BY <1>11
    <3>2. i \in 1 .. (n - 1)
      BY <1>1, <1>9, <3>1
    <3> QED
      BY <1>9, <1>10, <3>1, <3>2
  <2>2. \A i \in segs : \E k \in DOMAIN warm : i \in pairs(warm[k])
    <3> TAKE i \in segs
    <3>1. PICK k \in DOMAIN warm : drawn[k][1] <= i /\ i <= drawn[k][2]
      BY <1>9
    <3>2. i \in drawn[k][1] .. drawn[k][2]
      BY <1>1, <1>9, <1>10, <3>1
    <3> QED
      BY <1>11, <3>2
  <2> HIDE DEF pairs
  <2> QED
    BY <2>1, <2>2
<1>13. \A k \in DOMAIN warm : Cardinality({segmentWarm(i) : i \in pairs(warm[k])}) = 1
  <2> TAKE k \in DOMAIN warm
  <2>1. drawn[k][1] \in drawn[k][1] .. drawn[k][2]
    BY <1>1, <1>9
  <2>2. {segmentWarm(i) : i \in drawn[k][1] .. drawn[k][2]} = {segmentWarm(drawn[k][1])}
    BY <1>9, <2>1
  <2> QED
    BY <1>11, <2>2, FS_Singleton
<1> QED
  BY <1>4, <1>5, <1>6, <1>7, <1>8, <1>12, <1>13 DEF NothingLeftOut, In, segs, warm

-----------------------------------------------------------------------------
(* The answer.                                                              *)

Stamped == \A i \in 1..n : Synced(stamps, i)

(* A row to a stamp; the stamps there are rise and none is in the future, and   *)
(* with a clock there is one on every row: the rows an answer can have.       *)
ChartsInv ==
  /\ now \in Nat \ {0} /\ clock \in BOOLEAN
  /\ stamps \in Seq(Nat) /\ Ordered(stamps) /\ \A i \in DOMAIN stamps : stamps[i] <= now
  /\ cols \in Seq(Samples) /\ Len(cols) = Len(stamps)
  /\ boots \in Seq(Nat)
  /\ clock => Stamped

LEMMA ChartsInit == Init => ChartsInv
<1> SUFFICES ASSUME Init PROVE ChartsInv
  OBVIOUS
<1>1. now \in Nat \ {0}
  BY ChartsAssumption DEF Init
<1> QED
  BY <1>1, EmptySeq DEF Init, ChartsInv, Ordered, Stamped, n

LEMMA ChartsStep == ChartsInv /\ [Next]_vars => ChartsInv'
<1> SUFFICES ASSUME ChartsInv, [Next]_vars PROVE ChartsInv'
  OBVIOUS
<1>1. /\ n \in Nat /\ DOMAIN stamps = 1 .. n
      /\ \A i \in 1 .. n : stamps[i] \in Nat /\ stamps[i] <= now
  BY ElementOfSeq, LenProperties DEF ChartsInv, n
<1>2. ASSUME NEW r \in Samples, Sample(r) PROVE ChartsInv'
  <2> DEFINE t == IF clock THEN now' ELSE 0
  <2>1. r.wait \in Nat \ {0}
    BY ChartsAssumption
  <2>2. now' \in Nat \ {0} /\ now < now'
    BY <1>2, <2>1 DEF Sample, ChartsInv
  <2>3. t \in Nat /\ t <= now' /\ (t > 0 => t = now')
    BY <2>2
  <2>4. stamps' = Append(stamps, t) /\ cols' = Append(cols, r) /\ clock' = clock /\ boots' = boots
    BY <1>2 DEF Sample
  <2> HIDE DEF t
  <2>5. /\ stamps' \in Seq(Nat) /\ Len(stamps') = n + 1
        /\ \A i \in 1 .. n : stamps'[i] = stamps[i]
        /\ stamps'[n + 1] = t
    BY <2>3, <2>4, AppendProperties DEF ChartsInv, n
  <2>6. cols' \in Seq(Samples) /\ Len(cols') = n + 1
    BY <2>4, AppendProperties DEF ChartsInv, n
  <2>7. DOMAIN stamps' = 1 .. (n + 1)
    BY <2>5, LenProperties
  <2>8. \A i \in 1 .. (n + 1) : i \in 1 .. n \/ i = n + 1
    BY <1>1
  <2>9. \A i \in DOMAIN stamps' : stamps'[i] <= now'
    <3> TAKE i \in DOMAIN stamps'
    <3>1. CASE i \in 1 .. n
      BY <1>1, <2>2, <2>5, <3>1 DEF ChartsInv
    <3>2. CASE i = n + 1
      BY <2>3, <2>5, <3>2
    <3> QED
      BY <2>7, <2>8, <3>1, <3>2
  <2>10. Ordered(stamps')
    <3> SUFFICES ASSUME NEW i \in DOMAIN stamps', NEW j \in DOMAIN stamps',
                        i < j, stamps'[i] > 0, stamps'[j] > 0
                 PROVE  stamps'[i] < stamps'[j]
      BY DEF Ordered, Synced
    <3>1. i \in 1 .. n
      BY <1>1, <2>7
    <3>2. CASE j \in 1 .. n
      BY <1>1, <2>5, <3>1, <3>2 DEF ChartsInv, Ordered, Synced
    <3>3. CASE j = n + 1
      <4>1. stamps'[j] = now'
        BY <2>3, <2>5, <3>3
      <4>2. stamps'[i] <= now /\ stamps'[i] \in Nat
        BY <1>1, <2>5, <3>1
      <4> QED
        BY <2>2, <4>1, <4>2 DEF ChartsInv
    <3> QED
      BY <2>7, <2>8, <3>2, <3>3
  <2>11. clock' => Stamped'
    <3> SUFFICES ASSUME clock' PROVE \A i \in 1 .. (n + 1) : stamps'[i] > 0
      BY <2>5 DEF Stamped, Synced, n
    <3>1. \A i \in 1 .. n : stamps[i] > 0
      BY <2>4 DEF ChartsInv, Stamped, Synced
    <3>2. t > 0
      BY <2>2, <2>4 DEF t
    <3> QED
      BY <2>5, <2>8, <3>1, <3>2
  <2> QED
    BY <2>2, <2>4, <2>5, <2>6, <2>9, <2>10, <2>11 DEF ChartsInv
<1>3. CASE Restart
  <2>1. PICK k \in {1, Loops} : boots' = [i \in 1 .. k |-> now + i] /\ now' = now + k
    BY <1>3 DEF Restart
  <2>2. k \in Nat \ {0}
    BY ChartsAssumption
  <2>3. now' \in Nat \ {0} /\ now <= now'
    BY <2>1, <2>2 DEF ChartsInv
  <2>4. boots' \in Seq(Nat)
    <3>1. \A i \in 1 .. k : now + i \in Nat
      BY <2>2 DEF ChartsInv
    <3> QED
      BY <2>1, <2>2, <3>1, SeqDef
  <2>5. UNCHANGED <<clock, stamps, cols>>
    BY <1>3 DEF Restart
  <2>6. \A i \in DOMAIN stamps : stamps[i] <= now'
    BY <1>1, <2>3 DEF ChartsInv
  <2> QED
    BY <2>3, <2>4, <2>5, <2>6 DEF ChartsInv, Ordered, Synced, Stamped, n
<1>4. CASE UNCHANGED vars
  BY <1>4 DEF vars, ChartsInv, Ordered, Synced, Stamped, n
<1> QED
  BY <1>2, <1>3, <1>4 DEF Next

(* The rows are always ones an answer can have: what the proofs below rest on. *)
THEOREM ChartsHolds == Spec => []ChartsInv
<1>1. Init => ChartsInv
  BY ChartsInit
<1>2. ChartsInv /\ [Next]_vars => ChartsInv'
  BY ChartsStep
<1> QED
  BY <1>1, <1>2, PTL DEF Spec

(* All that was measured is drawn, and nothing is drawn over the dark, by every  *)
(* layer of every plot (charts.ts), of any answer.                           *)
THEOREM DrawnAlwaysAsMeasured == Spec => []DrawnAsMeasured
<1>1. ChartsInv => DrawnAsMeasured
  BY NothingCrosses, AllIsDrawn DEF ChartsInv, DrawnAsMeasured
<1> QED
  BY <1>1, ChartsHolds, PTL

-----------------------------------------------------------------------------
(* Restart marks and their labels.                                          *)

(* The first k marks, in order, in groups that are a label apart and no wider. *)
Clustered(groups, xs, k, room) ==
  /\ groups \in Seq(Seq(Nat)) /\ \A i \in 1 .. Len(groups) : groups[i] # << >>
  /\ FlattenSeq(groups) = SubSeq(xs, 1, k)
  /\ \A i \in 2 .. Len(groups) : Head(groups[i]) - Head(groups[i - 1]) >= room
  /\ \A i \in 1 .. Len(groups) : Last(groups[i]) - Head(groups[i]) < Max({1, room})

Joined(groups, x, room) ==
  IF groups # << >> /\ x - Head(Last(groups)) < room
  THEN Append(Front(groups), Append(Last(groups), x)) ELSE Append(groups, <<x>>)

(* One more mark keeps them so.                                             *)
LEMMA MarkJoins ==
  ASSUME NEW xs \in Seq(Nat), NEW room \in Int, NEW k \in Nat, k + 1 <= Len(xs),
         NEW groups, Clustered(groups, xs, k, room)
  PROVE  Clustered(Joined(groups, xs[k + 1], room), xs, k + 1, room)
<1> DEFINE L == Len(groups)
           x == xs[k + 1]
           wide == Max({1, room})
<1>1. /\ Len(xs) \in Nat /\ k + 1 \in 1 .. Len(xs) /\ x \in Nat /\ <<x>> \in Seq(Nat)
      /\ <<x>> # << >> /\ Head(<<x>>) = x /\ Last(<<x>>) = x
  <2>1. Len(xs) \in Nat /\ k + 1 \in 1 .. Len(xs)
    BY LenProperties
  <2>2. x \in Nat
    BY <2>1, ElementOfSeq
  <2> HIDE DEF x
  <2>3. <<x>> \in Seq(Nat) /\ <<x>> # << >> /\ Head(<<x>>) = x /\ Len(<<x>>) = 1 /\ <<x>>[1] = x
    BY <2>2
  <2> QED
    BY <2>1, <2>2, <2>3 DEF Last
<1>2. /\ groups \in Seq(Seq(Nat)) /\ L \in Nat
      /\ \A i \in 1 .. L : groups[i] \in Seq(Nat) /\ groups[i] # << >>
  BY ElementOfSeq, LenProperties DEF Clustered
<1>3. SubSeq(xs, 1, k + 1) = SubSeq(xs, 1, k) \o <<x>>
  <2>1. 1 \in 1 .. Len(xs) /\ k + 1 \in 1 .. Len(xs) /\ (k + 1) - 1 = k
    BY <1>1
  <2> QED
    BY <2>1, SubSeqRecursiveSecond
<1>4. wide \in Int /\ 0 < wide /\ room <= wide
  <2> DEFINE a == 1
  <2>1. a \in Int
    OBVIOUS
  <2> HIDE DEF a
  <2>2. Max({a, room}) \in {a, room} /\ a <= Max({a, room}) /\ room <= Max({a, room})
    BY <2>1, MaxOf, Zenon
  <2>3. Max({1, room}) \in {1, room} /\ 1 <= Max({1, room}) /\ room <= Max({1, room})
    BY <2>2 DEF a
  <2> QED
    BY <2>3
<1>5. \A i \in 2 .. L : Head(groups[i]) - Head(groups[i - 1]) >= room
  BY DEF Clustered
<1>6. \A i \in 1 .. L : Last(groups[i]) - Head(groups[i]) < wide
  BY DEF Clustered
<1>7. FlattenSeq(groups) = SubSeq(xs, 1, k)
  BY DEF Clustered
<1>8. \A g \in Seq(Nat) : g # << >> => Head(g) \in Nat
  BY HeadTailProperties
<1> HIDE DEF x, wide
<1>9. CASE groups # << >> /\ x - Head(Last(groups)) < room
  <2> DEFINE f == Front(groups)
             l == Last(groups)
             g == Append(l, x)
             next == Append(f, g)
  <2>1. /\ f \in Seq(Seq(Nat)) /\ l \in Seq(Nat) /\ groups = Append(f, l)
        /\ L \in Nat \ {0} /\ Len(f) = L - 1 /\ \A i \in 1 .. (L - 1) : f[i] = groups[i]
    BY <1>2, <1>9, FrontLast
  <2>2. l = groups[L] /\ l # << >> /\ L \in 1 .. L
    <3>1. L \in 1 .. L
      BY <2>1
    <3> QED
      BY <1>2, <3>1 DEF Last
  <2>3. g \in Seq(Nat) /\ g # << >> /\ Head(g) = Head(l) /\ Last(g) = x
    <3>1. g \in Seq(Nat) /\ g # << >> /\ Len(g) = Len(l) + 1 /\ g[Len(l) + 1] = x
      <4> DEFINE N == Nat
      <4>1. l \in Seq(N) /\ x \in N
        BY <1>1, <2>1
      <4> HIDE DEF l, N
      <4>2. g \in Seq(N) /\ g # << >> /\ Len(g) = Len(l) + 1 /\ g[Len(l) + 1] = x
        BY <4>1, AppendProperties
      <4> QED
        BY <4>2 DEF N
    <3>2. Head(g) = Head(l)
      BY <2>1, <2>2, HeadTailAppend
    <3> HIDE DEF g
    <3> QED
      BY <3>1, <3>2 DEF Last
  <2> HIDE DEF f, l, g
  <2>4. /\ next \in Seq(Seq(Nat)) /\ Len(next) = L /\ next[L] = g
        /\ \A i \in 1 .. (L - 1) : next[i] = groups[i]
    <3>1. /\ next \in Seq(Seq(Nat)) /\ Len(next) = Len(f) + 1 /\ next[Len(f) + 1] = g
          /\ \A i \in 1 .. Len(f) : next[i] = f[i]
      BY <2>1, <2>3, AppendProperties
    <3>2. L - 1 + 1 = L
      BY <2>1
    <3> HIDE DEF next, L
    <3> QED
      BY <2>1, <3>1, <3>2
  <2>5. FlattenSeq(next) = SubSeq(xs, 1, k + 1)
    <3>1. FlattenSeq(f) \in Seq(Nat) /\ FlattenSeq(groups) = FlattenSeq(f) \o l
      BY <2>1, FlattenAppend
    <3>2. FlattenSeq(next) = FlattenSeq(f) \o g
      BY <2>1, <2>3, FlattenAppend
    <3>3. g = l \o <<x>>
      BY <1>1, <2>1, AppendIsConcat DEF g
    <3>4. (FlattenSeq(f) \o l) \o <<x>> = FlattenSeq(f) \o (l \o <<x>>)
      <4> DEFINE a == FlattenSeq(f)
                 b == <<x>>
                 N == Nat
      <4>1. a \in Seq(N) /\ b \in Seq(N) /\ l \in Seq(N)
        BY <1>1, <2>1, <3>1
      <4> HIDE DEF a, b, N
      <4>2. (a \o l) \o b = a \o (l \o b)
        BY <4>1, ConcatAssociative, SMTT(60)
      <4> QED
        BY <4>2 DEF a, b
    <3> QED
      BY <1>3, <1>7, <3>1, <3>2, <3>3, <3>4
  <2> HIDE DEF next, L
  <2>6. \A i \in 1 .. L : i \in 1 .. (L - 1) \/ i = L
    BY <2>1
  <2>7. \A i \in 1 .. L : next[i] # << >> /\ Head(next[i]) = Head(groups[i])
    BY <1>2, <2>2, <2>3, <2>4, <2>6
  <2>8. \A i \in 1 .. L : Last(next[i]) - Head(next[i]) < wide
    <3> TAKE i \in 1 .. L
    <3>1. CASE i = L
      <4>1. x - Head(l) < room /\ Head(l) \in Nat
        BY <1>8, <1>9, <2>1, <2>2 DEF l
      <4> QED
        BY <1>1, <1>4, <2>3, <2>4, <3>1, <4>1, SMTT(30)
    <3>2. CASE i \in 1 .. (L - 1)
      BY <1>6, <2>4, <2>6, <3>2
    <3> QED
      BY <2>6, <3>1, <3>2
  <2>9. \A i \in 2 .. L : i \in 1 .. L /\ i - 1 \in 1 .. L
    BY <2>1
  <2>10. \A i \in 2 .. L : Head(next[i]) - Head(next[i - 1]) >= room
    BY <1>5, <2>7, <2>9
  <2>11. Joined(groups, x, room) = next
    BY <1>9 DEF Joined, next, f, g, l
  <2>12. Clustered(next, xs, k + 1, room)
    BY <2>4, <2>5, <2>7, <2>8, <2>10 DEF Clustered, wide
  <2> QED
    BY <2>11, <2>12 DEF x
<1>10. CASE ~ (groups # << >> /\ x - Head(Last(groups)) < room)
  <2> DEFINE next == Append(groups, <<x>>)
  <2>1. /\ next \in Seq(Seq(Nat)) /\ Len(next) = L + 1 /\ next[L + 1] = <<x>>
        /\ \A i \in 1 .. L : next[i] = groups[i]
    BY <1>1, <1>2, AppendProperties
  <2>2. FlattenSeq(next) = SubSeq(xs, 1, k + 1)
    BY <1>1, <1>2, <1>3, <1>7, FlattenAppend
  <2>3. groups # << >> <=> L # 0
    BY <1>2, EmptySeq
  <2>4. L # 0 => Last(groups) = groups[L]
    BY DEF Last
  <2>5. Joined(groups, x, room) = next
    BY <1>10 DEF Joined
  <2> HIDE DEF next, L
  <2>6. \A i \in 1 .. (L + 1) : i \in 1 .. L \/ i = L + 1
    BY <1>2
  <2>7. \A i \in 1 .. (L + 1) : next[i] # << >>
    BY <1>1, <1>2, <2>1, <2>6
  <2>8. \A i \in 1 .. (L + 1) : Last(next[i]) - Head(next[i]) < wide
    <3> TAKE i \in 1 .. (L + 1)
    <3>1. CASE i = L + 1
      <4>1. Last(next[i]) = x /\ Head(next[i]) = x
        BY <1>1, <2>1, <3>1
      <4> QED
        BY <1>1, <1>4, <4>1
    <3>2. CASE i \in 1 .. L
      BY <1>6, <2>1, <3>2
    <3> QED
      BY <2>6, <3>1, <3>2
  <2>9. \A i \in 2 .. (L + 1) : Head(next[i]) - Head(next[i - 1]) >= room
    <3> TAKE i \in 2 .. (L + 1)
    <3>1. CASE i = L + 1
      <4>1. i - 1 = L /\ L \in 1 .. L /\ L # 0
        BY <1>2, <3>1
      <4>2. x - Head(groups[L]) >= room
        <5>1. ~ (x - Head(groups[L]) < room)
          BY <1>10, <2>3, <2>4, <4>1
        <5>2. Head(groups[L]) \in Nat
          BY <1>2, <1>8, <4>1
        <5> QED
          BY <1>1, <5>1, <5>2
      <4>3. next[i] = <<x>> /\ next[i - 1] = groups[L]
        BY <2>1, <3>1, <4>1
      <4> QED
        BY <1>1, <4>2, <4>3
    <3>2. CASE i # L + 1
      <4>1. i \in 2 .. L /\ i \in 1 .. L /\ i - 1 \in 1 .. L
        BY <1>2, <3>2
      <4> QED
        BY <1>5, <2>1, <4>1
    <3> QED
      BY <3>1, <3>2
  <2>10. Clustered(next, xs, k + 1, room)
    BY <2>1, <2>2, <2>7, <2>8, <2>9 DEF Clustered, wide
  <2> QED
    BY <2>5, <2>10 DEF x
<1> QED
  BY <1>9, <1>10

(* The groups are those.                                                    *)
LEMMA ClustersAre ==
  ASSUME NEW xs \in Seq(Nat), NEW room \in Int
  PROVE  Clustered(clusterMarks(xs, room), xs, Len(xs), room)
<1> DEFINE m == Len(xs)
           S == Seq(Seq(Nat))
           Good(f, k) == /\ f \in [0 .. k -> S] /\ f[0] = << >>
                         /\ \A i \in 1 .. k : f[i] = Joined(f[i - 1], xs[i], room)
                         /\ \A i \in 0 .. k : Clustered(f[i], xs, i, room)
           P == {k \in Nat : k <= m => \E f : Good(f, k)}
           sweep == CHOOSE f : f = [k \in 0 .. m |-> IF k = 0 THEN << >>
                                                     ELSE Joined(f[k - 1], xs[k], room)]
<1>1. m \in Nat /\ clusterMarks(xs, room) = sweep[m]
  BY LenProperties DEF clusterMarks, Joined
<1>2. Clustered(<< >>, xs, 0, room)
  <2>1. SubSeq(xs, 1, 0) = << >>
    BY SubSeqEmpty
  <2>2. FlattenSeq(<< >>) = << >>
    BY EmptySeq DEF FlattenSeq
  <2>3. << >> \in Seq(Seq(Nat)) /\ Len(<< >>) = 0
    BY EmptySeq
  <2> DEFINE e == << >>
  <2>4. e \in Seq(Seq(Nat)) /\ Len(e) = 0 /\ FlattenSeq(e) = SubSeq(xs, 1, 0)
    BY <2>1, <2>2, <2>3
  <2> HIDE DEF e
  <2>5. \A i \in 1 .. Len(e) : FALSE
    BY <2>4
  <2>6. \A i \in 2 .. Len(e) : FALSE
    BY <2>4
  <2>7. Clustered(e, xs, 0, room)
    BY <2>4, <2>5, <2>6 DEF Clustered
  <2> QED
    BY <2>7 DEF e
<1> HIDE DEF m
<1>3. 0 \in P
  <2> DEFINE f == [k \in 0 .. 0 |-> << >>]
  <2>1. f \in [0 .. 0 -> S] /\ f[0] = << >>
    BY EmptySeq
  <2> HIDE DEF f, S
  <2>2. Good(f, 0)
    BY <1>2, <2>1
  <2> HIDE DEF Good
  <2> QED
    BY <2>2
<1>4. ASSUME NEW k \in Nat, k \in P PROVE k + 1 \in P
  <2>1. CASE ~ (k + 1 <= m)
    BY <2>1
  <2>2. CASE k + 1 <= m
    <3>1. PICK f : Good(f, k)
      <4>1. k <= m
        BY <1>1, <2>2
      <4> HIDE DEF Good
      <4> QED
        BY <1>4, <4>1
    <3> DEFINE next == Joined(f[k], xs[k + 1], room)
               h    == [i \in 0 .. (k + 1) |-> IF i <= k THEN f[i] ELSE next]
    <3>2. Clustered(next, xs, k + 1, room)
      <4>1. Clustered(f[k], xs, k, room) /\ k + 1 <= Len(xs)
        BY <2>2, <3>1 DEF m
      <4> QED
        BY <4>1, MarkJoins
    <3>3. next \in S
      BY <3>2 DEF Clustered
    <3> HIDE DEF next
    <3>4. h \in [0 .. (k + 1) -> S] /\ h[k + 1] = next /\ \A i \in 0 .. k : h[i] = f[i]
      BY <3>1, <3>3
    <3> HIDE DEF h
    <3>5. \A i \in 0 .. (k + 1) : i \in 0 .. k \/ i = k + 1
      OBVIOUS
    <3>6. \A i \in 0 .. (k + 1) : Clustered(h[i], xs, i, room)
      BY <3>1, <3>2, <3>4, <3>5
    <3>7. ASSUME NEW i \in 1 .. (k + 1) PROVE h[i] = Joined(h[i - 1], xs[i], room)
      <4>1. CASE i = k + 1
        <5>1. i - 1 = k /\ k \in 0 .. k
          BY <4>1
        <5> QED
          BY <3>4, <4>1, <5>1 DEF next
      <4>2. CASE i # k + 1
        <5>1. i \in 1 .. k /\ i \in 0 .. k /\ i - 1 \in 0 .. k
          BY <3>7, <4>2
        <5> QED
          BY <3>1, <3>4, <5>1
      <4> QED
        BY <4>1, <4>2
    <3>8. h[0] = << >>
      BY <3>1, <3>4
    <3>9. Good(h, k + 1)
      BY <3>4, <3>6, <3>7, <3>8
    <3> HIDE DEF Good
    <3> QED
      BY <3>9
  <2> QED
    BY <2>1, <2>2
<1>5. m \in P
  <2> HIDE DEF P
  <2> QED
    BY <1>1, <1>3, <1>4, Climbs
<1>6. PICK f : Good(f, m)
  <2> HIDE DEF Good
  <2> QED
    BY <1>1, <1>5
<1>7. f = [k \in 0 .. m |-> IF k = 0 THEN << >> ELSE Joined(f[k - 1], xs[k], room)]
  <2>1. \A k \in 0 .. m : k = 0 \/ k \in 1 .. m
    BY <1>1
  <2> QED
    BY <1>6, <2>1
<1>8. sweep = [k \in 0 .. m |-> IF k = 0 THEN << >> ELSE Joined(sweep[k - 1], xs[k], room)]
  BY <1>7
<1> HIDE DEF sweep
<1>9. sweep[0] = << >> /\ \A k \in 1 .. m : sweep[k] = Joined(sweep[k - 1], xs[k], room)
  <2> DEFINE step(k) == IF k = 0 THEN << >> ELSE Joined(sweep[k - 1], xs[k], room)
  <2>1. \A k \in 0 .. m : sweep[k] = step(k)
    BY <1>8, Zenon
  <2>2. 0 \in 0 .. m /\ \A k \in 1 .. m : k \in 0 .. m /\ k # 0
    BY <1>1
  <2> QED
    BY <2>1, <2>2
<1> DEFINE Q == {k \in Nat : k <= m => Clustered(sweep[k], xs, k, room)}
<1>10. 0 \in Q
  BY <1>2, <1>9
<1>11. ASSUME NEW k \in Nat, k \in Q PROVE k + 1 \in Q
  <2>1. CASE k + 1 <= m
    <3>1. k <= m /\ k + 1 \in 1 .. m /\ (k + 1) - 1 = k
      BY <1>1, <2>1
    <3>2. Clustered(sweep[k], xs, k, room) /\ sweep[k + 1] = Joined(sweep[k], xs[k + 1], room)
      BY <1>9, <1>11, <3>1
    <3>3. k + 1 <= Len(xs)
      BY <2>1 DEF m
    <3> QED
      BY <3>2, <3>3, MarkJoins
  <2>2. CASE ~ (k + 1 <= m)
    BY <2>2
  <2> QED
    BY <2>1, <2>2
<1>12. m \in Q
  <2> HIDE DEF Q
  <2> QED
    BY <1>1, <1>10, <1>11, Climbs
<1> QED
  BY <1>1, <1>12 DEF m

-----------------------------------------------------------------------------
(* The time line.                                                           *)

LEMMA ScaledLess ==
  ASSUME NEW x \in Int, NEW y \in Int, NEW c \in Nat \ {0}, x < y
  PROVE  x * c < y * c
<1>1. (y - x) * c >= c
  <2>1. y - x >= 1 /\ y - x \in Int
    OBVIOUS
  <2> DEFINE d == y - x
  <2> HIDE DEF d
  <2>2. d >= 1 /\ d \in Int => d * c >= c
    OBVIOUS
  <2> QED
    BY <2>1, <2>2 DEF d
<1>2. (y - x) * c = y * c - x * c
  OBVIOUS
<1>3. y * c \in Int /\ x * c \in Int
  OBVIOUS
<1> QED
  BY <1>1, <1>2, <1>3

LEMMA ScaledBetween ==
  ASSUME NEW x \in Int, NEW y \in Int, NEW c \in Nat \ {0}
  PROVE  /\ x * c \in Int /\ y * c \in Int
         /\ (x < y <=> x * c < y * c) /\ (x = y <=> x * c = y * c)
<1>1. x * c \in Int /\ y * c \in Int
  OBVIOUS
<1>2. x < y => x * c < y * c
  BY ScaledLess
<1>3. y < x => y * c < x * c
  BY ScaledLess
<1> DEFINE a == x * c
           b == y * c
<1>4. x = y => a = b
  OBVIOUS
<1> HIDE DEF a, b
<1>5. a \in Int /\ b \in Int /\ (x < y => a < b) /\ (y < x => b < a)
  BY <1>1, <1>2, <1>3 DEF a, b
<1>6. (x < y <=> a < b) /\ (x = y <=> a = b)
  BY <1>4, <1>5
<1> QED
  BY <1>5, <1>6 DEF a, b

(* The window is the time between the first row and the last.                *)
LEMMA WindowIs ==
  ASSUME ChartsInv
  PROVE  /\ n \in Nat /\ DOMAIN stamps = 1 .. n /\ \A i \in 1 .. n : stamps[i] \in Nat
         /\ Span \in Nat /\ Width \in Int
         /\ Span > 0 => /\ n > 1 /\ stamps[1] > 0 /\ Span = stamps[n] - stamps[1]
                        /\ stamps[n] > stamps[1] /\ stamps[1] \in Nat /\ stamps[n] \in Nat
         /\ \A k \in DOMAIN boots : boots[k] \in Nat
<1>1. n \in Nat /\ DOMAIN stamps = 1 .. n /\ \A i \in 1 .. n : stamps[i] \in Nat
  BY ElementOfSeq, LenProperties DEF ChartsInv, n
<1>2. \A k \in DOMAIN boots : boots[k] \in Nat
  BY ElementOfSeq, LenProperties DEF ChartsInv
<1> HIDE DEF n
<1>3. n > 0 => 1 \in 1 .. n /\ n \in 1 .. n
  BY <1>1
<1>4. Span \in Nat
  BY <1>1, <1>3 DEF Span
<1>5. Span > 0 => n > 0 /\ stamps[1] > 0 /\ stamps[n] > stamps[1] /\ Span = stamps[n] - stamps[1]
  BY DEF Span, Synced
<1>6. Span > 0 => n # 1
  BY <1>1, <1>3, <1>5
<1>7. Width \in Int
  <2>1. \A a, b \in Int : a * b \in Int
    OBVIOUS
  <2>2. n - 1 \in Int /\ Span \in Int
    BY <1>1, <1>4
  <2>3. Span * (n - 1) \in Int
    BY <2>1, <2>2
  <2> QED
    BY <2>2, <2>3 DEF Width
<1> QED
  BY <1>1, <1>2, <1>3, <1>4, <1>5, <1>6, <1>7

(* The marks placed are the restarts in the window, in order.                *)
LEMMA MarksArePlaced ==
  ASSUME ChartsInv
  PROVE  placedMarks \in Seq(Nat)
<1> DEFINE xs == {xAtTime(boots[k]) : k \in DOMAIN boots} \ {None}
<1>1. xs \subseteq Nat
  <2>1. ASSUME NEW k \in DOMAIN boots, xAtTime(boots[k]) # None
        PROVE  xAtTime(boots[k]) \in Nat
    <3>1. /\ Span > 0 /\ stamps[1] <= boots[k]
          /\ xAtTime(boots[k]) = (boots[k] - stamps[1]) * (n - 1)
      BY <2>1 DEF xAtTime
    <3>2. /\ boots[k] - stamps[1] \in Nat /\ n - 1 \in Nat
      BY <3>1, WindowIs
    <3>3. \A a, b \in Nat : a * b \in Nat
      OBVIOUS
    <3> QED
      BY <3>1, <3>2, <3>3
  <2> QED
    BY <2>1
<1>2. IsFiniteSet(xs)
  <2> DEFINE all == {xAtTime(boots[k]) : k \in DOMAIN boots}
  <2>1. IsFiniteSet(DOMAIN boots)
    <3>1. Len(boots) \in Nat /\ DOMAIN boots = 1 .. Len(boots)
      BY LenProperties DEF ChartsInv
    <3>2. 1 \in Int /\ Len(boots) \in Int
      BY <3>1
    <3> QED
      BY <3>1, <3>2, FS_Interval
  <2> DEFINE f == [k \in DOMAIN boots |-> xAtTime(boots[k])]
  <2>2. f \in Surjection(DOMAIN boots, all)
    BY DEF Surjection
  <2> HIDE DEF all, f
  <2>3. IsFiniteSet(all)
    BY <2>1, <2>2, FS_Surjection
  <2>4. xs \subseteq all
    BY DEF all
  <2> QED
    BY <2>3, <2>4, FS_Subset
<1>3. placedMarks = [k \in 1 .. Cardinality(xs) |-> nth(xs, k)]
  BY DEF placedMarks
<1> HIDE DEF xs
<1>4. Cardinality(xs) \in Nat /\ \A k \in 1 .. Cardinality(xs) : nth(xs, k) \in xs
  BY <1>1, <1>2, NthIs
<1>5. placedMarks \in [1 .. Cardinality(xs) -> Nat]
  BY <1>1, <1>3, <1>4
<1> QED
  BY <1>4, <1>5, SeqDef

LEMMA LabelsStandApart ==
  ASSUME ChartsInv, NEW room \in Int
  PROVE  Apart(room)
<1> DEFINE groups == clusterMarks(placedMarks, room)
<1>2. placedMarks \in Seq(Nat)
  BY MarksArePlaced
<1>3. Clustered(groups, placedMarks, Len(placedMarks), room)
  BY <1>2, ClustersAre
<1>4. SubSeq(placedMarks, 1, Len(placedMarks)) = placedMarks
  BY <1>2, SubSeqFull
<1> HIDE DEF groups
<1>5. groups \in Seq(Seq(Nat)) => DOMAIN groups = 1 .. Len(groups)
  BY LenProperties
<1>6. /\ FlattenSeq(groups) = placedMarks
      /\ \A k \in 2 .. Len(groups) : Head(groups[k]) - Head(groups[k - 1]) >= room
      /\ \A k \in DOMAIN groups : Last(groups[k]) - Head(groups[k]) < Max({1, room})
  BY <1>3, <1>4, <1>5 DEF Clustered
<1> QED
  BY <1>6 DEF groups, Apart

(* With a stamp on every row, the rows stand in their order from edge to edge. *)
LEMMA RowsStand ==
  ASSUME ChartsInv, n > 1, Stamped
  PROVE  /\ n \in Nat /\ Span \in Nat \ {0} /\ Width \in Nat \ {0}
         /\ \A i \in 1 .. n : stamps[i] \in Nat \ {0} /\ xAt(i) \in Nat /\ xAt(i) <= Width
                              /\ xAt(i) = (stamps[i] - stamps[1]) * (n - 1)
         /\ \A i, j \in 1 .. n : i < j => stamps[i] < stamps[j] /\ xAt(i) < xAt(j)
         /\ xAt(1) = 0 /\ xAt(n) = Width
<1>1. n \in Nat /\ DOMAIN stamps = 1 .. n
  BY WindowIs
<1>2. \A i \in 1 .. n : stamps[i] \in Nat \ {0}
  <2>1. \A i \in 1 .. n : stamps[i] \in Nat /\ stamps[i] > 0
    BY WindowIs DEF Stamped, Synced
  <2> QED
    BY <2>1
<1>3. \A i, j \in 1 .. n : i < j => stamps[i] < stamps[j]
  BY <1>1 DEF ChartsInv, Ordered, Stamped
<1> HIDE DEF n
<1>4. 1 \in 1 .. n /\ n \in 1 .. n /\ 1 < n /\ n - 1 \in Nat \ {0}
  BY <1>1
<1>5. stamps[1] < stamps[n]
  BY <1>3, <1>4
<1>6. Span = stamps[n] - stamps[1] /\ Span \in Nat \ {0}
  <2>1. Synced(stamps, 1) /\ n > 0 /\ stamps[n] > stamps[1]
    BY <1>2, <1>4, <1>5 DEF Synced
  <2>2. Span = stamps[n] - stamps[1]
    BY <2>1 DEF Span
  <2> QED
    BY <1>2, <1>4, <1>5, <2>2
<1>7. \A i \in 1 .. n : xAt(i) = (stamps[i] - stamps[1]) * (n - 1)
  BY <1>6 DEF xAt, Stamped
<1>8. Width = (stamps[n] - stamps[1]) * (n - 1)
  BY <1>6 DEF Width
<1>9. \A i, j \in 1 .. n : i < j => xAt(i) < xAt(j)
  <2> SUFFICES ASSUME NEW i \in 1 .. n, NEW j \in 1 .. n, i < j PROVE xAt(i) < xAt(j)
    OBVIOUS
  <2> DEFINE a == stamps[i] - stamps[1]
             b == stamps[j] - stamps[1]
  <2>1. a \in Int /\ b \in Int /\ a < b
    BY <1>2, <1>3, <1>4
  <2>2. xAt(i) = a * (n - 1) /\ xAt(j) = b * (n - 1)
    BY <1>7
  <2> HIDE DEF a, b
  <2> QED
    BY <1>4, <2>1, <2>2, ScaledLess
<1>10. xAt(1) = 0
  <2>1. stamps[1] - stamps[1] = 0 /\ 0 * (n - 1) = 0
    BY <1>2, <1>4
  <2> QED
    BY <1>4, <1>7, <2>1
<1>11. xAt(n) = Width
  BY <1>4, <1>7, <1>8
<1>12. \A i \in 1 .. n : xAt(i) \in Int
  <2> TAKE i \in 1 .. n
  <2> DEFINE a == stamps[i] - stamps[1]
  <2>1. a \in Int
    BY <1>2, <1>4
  <2>2. xAt(i) = a * (n - 1)
    BY <1>7
  <2> HIDE DEF a
  <2> QED
    BY <1>4, <2>1, <2>2
<1>13. \A i \in 1 .. n : 0 <= xAt(i) /\ xAt(i) <= Width
  <2> TAKE i \in 1 .. n
  <2>1. i = 1 \/ xAt(1) < xAt(i)
    <3>1. i = 1 \/ 1 < i
      BY <1>1
    <3> QED
      BY <1>4, <1>9, <3>1
  <2>2. i = n \/ xAt(i) < xAt(n)
    <3>1. i = n \/ i < n
      BY <1>1
    <3> QED
      BY <1>4, <1>9, <3>1
  <2> QED
    BY <1>4, <1>10, <1>11, <1>12, <2>1, <2>2
<1>14. Width \in Nat \ {0}
  <2>1. xAt(1) < xAt(n)
    BY <1>4, <1>9
  <2> QED
    BY <1>4, <1>10, <1>11, <1>12, <2>1
<1>15. \A i \in 1 .. n : xAt(i) \in Nat
  BY <1>12, <1>13
<1> QED
  BY <1>1, <1>2, <1>3, <1>6, <1>7, <1>9, <1>10, <1>11, <1>13, <1>14, <1>15

(* A pointer on the plot has a nearest row.                                 *)
LEMMA NearestIs ==
  ASSUME ChartsInv, n > 1, Stamped, NEW x \in Nat, x <= Width
  PROVE  LET far(i) == IF xAt(i) > x THEN xAt(i) - x ELSE x - xAt(i)
         IN  indexAt(x) \in 1 .. n /\ \A k \in 1 .. n : far(indexAt(x)) <= far(k)
<1> DEFINE far(i) == IF xAt(i) > x THEN xAt(i) - x ELSE x - xAt(i)
           near == {i \in 1 .. n : \A k \in 1 .. n : far(i) <= far(k)}
           D == {far(i) : i \in 1 .. n}
<1>1. /\ n \in Nat /\ Width \in Nat \ {0} /\ \A i \in 1 .. n : xAt(i) \in Nat
  BY RowsStand
<1>2. \A i \in 1 .. n : far(i) \in Nat
  BY <1>1
<1>3. ~ (50 * x < -Width) /\ ~ (50 * x > 51 * Width) /\ ~ (n < 2)
  BY <1>1
<1>4. indexAt(x) = Min(near)
  BY <1>3 DEF indexAt
<1> HIDE DEF far, n
<1>5. D \in SUBSET Nat /\ D # {}
  <2>1. 1 \in 1 .. n
    BY <1>1
  <2>2. far(1) \in D
    BY <2>1
  <2> QED
    BY <1>2, <2>2
<1>6. Min(D) \in D /\ \A d \in D : Min(D) <= d
  <2> HIDE DEF D
  <2> QED
    BY <1>5, LeastOf
<1>7. PICK i \in 1 .. n : far(i) = Min(D)
  BY <1>6
<1>8. \A k \in 1 .. n : far(i) <= far(k)
  BY <1>6, <1>7
<1>9. near \in SUBSET Nat /\ near # {}
  BY <1>1, <1>8
<1>10. Min(near) \in near
  <2> HIDE DEF near
  <2> QED
    BY <1>9, LeastOf
<1>11. indexAt(x) \in 1 .. n /\ \A k \in 1 .. n : far(indexAt(x)) <= far(k)
  BY <1>4, <1>10
<1> QED
  BY <1>11 DEF far

(* Between two rows it is one of the two, and on a row it is that row.        *)
LEMMA PointerFinds ==
  ASSUME ChartsInv, n > 1, Stamped, NEW x \in Nat
  PROVE  /\ \A i \in 2 .. n : xAt(i - 1) < x /\ x <= xAt(i) => indexAt(x) \in {i - 1, i}
         /\ \A i \in 1 .. n : x = xAt(i) => indexAt(x) = i
<1> DEFINE far(i) == IF xAt(i) > x THEN xAt(i) - x ELSE x - xAt(i)
           j == indexAt(x)
<1>1. /\ n \in Nat /\ \A i \in 1 .. n : xAt(i) \in Nat /\ xAt(i) <= Width
      /\ \A i, k \in 1 .. n : i < k => xAt(i) < xAt(k)
      /\ Width \in Nat
  BY RowsStand
<1>2. x <= Width => j \in 1 .. n /\ \A k \in 1 .. n : far(j) <= far(k)
  BY NearestIs
<1> HIDE DEF j, n
<1>3. ASSUME NEW i \in 2 .. n, xAt(i - 1) < x, x <= xAt(i) PROVE j \in {i - 1, i}
  <2>1. i \in 1 .. n /\ i - 1 \in 1 .. n
    BY <1>1
  <2> DEFINE a == xAt(i - 1)
             b == xAt(i)
             c == xAt(j)
  <2>2. x <= Width
    BY <1>1, <1>3, <2>1
  <2>3. j \in 1 .. n /\ far(j) <= far(i - 1) /\ far(j) <= far(i)
    <3> HIDE DEF far
    <3> QED
      BY <1>2, <2>1, <2>2
  <2>4. (j < i - 1 => c < a) /\ (i < j => b < c)
    BY <1>1, <2>1, <2>3
  <2>5. a \in Nat /\ b \in Nat /\ c \in Nat /\ a < x /\ x <= b
    BY <1>1, <1>3, <2>1, <2>3
  <2>6. /\ (IF c > x THEN c - x ELSE x - c) <= (IF a > x THEN a - x ELSE x - a)
        /\ (IF c > x THEN c - x ELSE x - c) <= (IF b > x THEN b - x ELSE x - b)
    BY <2>3
  <2> HIDE DEF a, b, c
  <2>7. ~ (c < a) /\ ~ (b < c)
    BY <2>5, <2>6
  <2> QED
    BY <1>1, <2>3, <2>4, <2>7
<1>4. ASSUME NEW i \in 1 .. n, x = xAt(i) PROVE j = i
  <2>1. x <= Width
    BY <1>1, <1>4
  <2>2. far(i) = 0
    BY <1>1, <1>4
  <2>3. j \in 1 .. n /\ far(j) <= far(i)
    <3> HIDE DEF far
    <3> QED
      BY <1>2, <2>1
  <2>4. xAt(j) \in Nat /\ far(j) <= 0
    BY <1>1, <2>2, <2>3
  <2>5. xAt(j) = x
    BY <2>4
  <2>6. ~ (j < i) /\ ~ (i < j)
    BY <1>1, <1>4, <2>3, <2>4, <2>5
  <2> QED
    BY <1>1, <2>3, <2>6
<1> QED
  BY <1>3, <1>4 DEF j

LEMMA TimelineIsOne == ChartsInv => OneTimeline
<1> SUFFICES ASSUME ChartsInv, n > 1, clock, Stamped PROVE
       /\ xAt(1) = 0 /\ xAt(n) = Width /\ \A i \in 2 .. n : xAt(i - 1) < xAt(i)
       /\ \A k \in DOMAIN boots : \A i \in 2 .. n :
            stamps[i - 1] < boots[k] /\ boots[k] <= stamps[i] =>
              /\ xAtTime(boots[k]) \in (xAt(i - 1) + 1) .. xAt(i)
              /\ indexAt(xAtTime(boots[k])) \in {i - 1, i}
       /\ \A i \in 1 .. n : indexAt(xAt(i)) = i
  BY DEF OneTimeline, ChartsInv
<1>1. /\ n \in Nat /\ Span \in Nat \ {0}
      /\ \A i \in 1 .. n : stamps[i] \in Nat /\ xAt(i) \in Nat
                           /\ xAt(i) = (stamps[i] - stamps[1]) * (n - 1)
      /\ \A i, j \in 1 .. n : i < j => stamps[i] < stamps[j] /\ xAt(i) < xAt(j)
      /\ xAt(1) = 0 /\ xAt(n) = Width
  BY RowsStand
<1>2. \A i \in 1 .. n : indexAt(xAt(i)) = i
  BY <1>1, PointerFinds
<1>3. \A i \in 2 .. n : i \in 1 .. n /\ i - 1 \in 1 .. n /\ i - 1 < i
  BY <1>1
<1>4. ASSUME NEW k \in DOMAIN boots, NEW i \in 2 .. n,
             stamps[i - 1] < boots[k], boots[k] <= stamps[i]
      PROVE  /\ xAtTime(boots[k]) \in (xAt(i - 1) + 1) .. xAt(i)
             /\ indexAt(xAtTime(boots[k])) \in {i - 1, i}
  <2> DEFINE c == n - 1
             a == stamps[i - 1] - stamps[1]
             b == boots[k] - stamps[1]
             d == stamps[i] - stamps[1]
             x == xAtTime(boots[k])
  <2>1. /\ i \in 1 .. n /\ i - 1 \in 1 .. n /\ 1 \in 1 .. n /\ n \in 1 .. n
        /\ boots[k] \in Nat
    BY <1>1, <1>3, WindowIs
  <2>2. a \in Int /\ b \in Int /\ d \in Int /\ a < b /\ b <= d /\ c \in Nat \ {0}
    BY <1>1, <1>4, <2>1
  <2>3. stamps[1] <= stamps[i - 1] /\ stamps[i] <= stamps[n]
    <3>1. i - 1 = 1 \/ 1 < i - 1
      BY <1>1, <2>1
    <3>2. i = n \/ i < n
      BY <1>1, <2>1
    <3>3. i - 1 = 1 \/ stamps[1] < stamps[i - 1]
      BY <1>1, <2>1, <3>1
    <3>4. i = n \/ stamps[i] < stamps[n]
      BY <1>1, <2>1, <3>2
    <3> QED
      BY <1>1, <2>1, <3>3, <3>4
  <2>4. x = b * c
    <3>1. stamps[1] <= boots[k] /\ boots[k] <= stamps[n]
      BY <1>1, <1>4, <2>1, <2>3
    <3> QED
      BY <1>1, <3>1 DEF xAtTime
  <2>5. xAt(i - 1) = a * c /\ xAt(i) = d * c
    BY <1>1, <2>1
  <2> HIDE DEF a, b, c, d, x
  <2>6. a * c < b * c /\ b * c \in Int
    BY <2>2, ScaledBetween
  <2>7. b * c <= d * c
    <3>1. b = d \/ b < d
      BY <2>2
    <3>2. b < d => b * c < d * c
      BY <2>2, ScaledLess
    <3>3. d * c \in Int
      BY <2>2
    <3> QED
      BY <2>6, <3>1, <3>2, <3>3
  <2>8. /\ xAt(i - 1) \in Nat /\ xAt(i) \in Nat /\ x \in Int
        /\ xAt(i - 1) < x /\ x <= xAt(i)
    BY <1>1, <2>1, <2>4, <2>5, <2>6, <2>7
  <2>9. x \in Nat /\ x \in (xAt(i - 1) + 1) .. xAt(i)
    BY <2>8
  <2>10. indexAt(x) \in {i - 1, i}
    BY <2>8, <2>9, PointerFinds
  <2> QED
    BY <2>9, <2>10 DEF x
<1> QED
  BY <1>1, <1>2, <1>3, <1>4

(* In an answer with a clock rows, restarts and pointer are on one time line,    *)
(* and in any answer the restarts' labels, whatever room they take, miss none   *)
(* and stand apart (charts.ts, scrub.ts indexAt).                             *)
THEOREM MarksAlwaysInPlace == Spec => [](MarksInPlace /\ \A room \in Int : Apart(room))
<1>1. ASSUME ChartsInv PROVE \A room \in Int : Apart(room)
  BY <1>1, LabelsStandApart
<1>2. ASSUME ChartsInv PROVE LabelsApart
  <2>1. Width \div 10 \in Int /\ Width \div 3 \in Int
    BY <1>2, WindowIs
  <2> QED
    BY <1>1, <1>2, <2>1 DEF LabelsApart
<1>3. ChartsInv => MarksInPlace /\ \A room \in Int : Apart(room)
  BY <1>1, <1>2, TimelineIsOne DEF MarksInPlace
<1> QED
  BY <1>3, ChartsHolds, PTL

-----------------------------------------------------------------------------
(* The value axis.                                                          *)

LEMMA RoundStepsAre ==
  /\ RoundSteps = {40, 80, 200, 400, 800, 2000, 4000, 8000, 20000, 40000, 80000, 200000}
  /\ resolution(MIN_SPAN) = 40
<1>1. Decades = {40, 400, 4000, 40000}
  BY DEF Decades, Unit
<1>2. RoundSteps = {m * p : m \in {1, 2, 5}, p \in {40, 400, 4000, 40000}}
  BY <1>1 DEF RoundSteps
<1>3. RoundSteps = {40, 80, 200, 400, 800, 2000, 4000, 8000, 20000, 40000, 80000, 200000}
  BY <1>2
<1>4. {s \in RoundSteps : 2 * s <= MIN_SPAN} = {40}
  BY <1>3 DEF MIN_SPAN, Unit
<1>5. Max({40}) = 40
  BY DEF Max
<1> QED
  BY <1>3, <1>4, <1>5 DEF resolution

(* The lines around a value.                                                *)
LEMMA LinesAround ==
  ASSUME NEW s \in RoundSteps, NEW v \in Int
  PROVE  /\ floored(v, s) \in Int /\ ceiled(v, s) \in Int
         /\ floored(v, s) * s \in Int /\ ceiled(v, s) * s \in Int
         /\ floored(v, s) * s <= v /\ v < floored(v, s) * s + s
         /\ v <= ceiled(v, s) * s /\ ceiled(v, s) * s < v + s
         /\ \A k \in Int : floored(k * s, s) = k /\ ceiled(k * s, s) = k
<1>1. CASE s = 40     BY <1>1 DEF floored, ceiled
<1>2. CASE s = 80     BY <1>2 DEF floored, ceiled
<1>3. CASE s = 200    BY <1>3 DEF floored, ceiled
<1>4. CASE s = 400    BY <1>4 DEF floored, ceiled
<1>5. CASE s = 800    BY <1>5 DEF floored, ceiled
<1>6. CASE s = 2000   BY <1>6 DEF floored, ceiled
<1>7. CASE s = 4000   BY <1>7 DEF floored, ceiled
<1>8. CASE s = 8000   BY <1>8 DEF floored, ceiled
<1>9. CASE s = 20000  BY <1>9 DEF floored, ceiled
<1>10. CASE s = 40000 BY <1>10 DEF floored, ceiled
<1>11. CASE s = 80000 BY <1>11 DEF floored, ceiled
<1>12. CASE s = 200000 BY <1>12 DEF floored, ceiled
<1> QED
  BY <1>1, <1>2, <1>3, <1>4, <1>5, <1>6, <1>7, <1>8, <1>9, <1>10, <1>11, <1>12, RoundStepsAre

(* The lines inside a range of a step, `in`, and those of the range with both   *)
(* ends moved out to a line.                                                 *)
LinesOut(lo, hi, s) == ceiled(hi, s) - floored(lo, s) + 1

CountsAgree(lo, hi, s) ==
  LET in  == count(lo, hi, s)
      out == LinesOut(lo, hi, s)
      R   == hi - lo
  IN  /\ in \in Nat /\ out \in Nat /\ in <= out /\ out <= in + 2
      /\ (in <= 2 => R < 3 * s) /\ (in <= 5 => R < 6 * s) /\ (in >= 6 => R >= 5 * s)
      /\ (out <= 2 => R <= s) /\ (2 * R < 5 * s => out <= 5)

LEMMA CountsDoAgree ==
  ASSUME NEW s \in RoundSteps, NEW lo \in Int, NEW hi \in Int, lo <= hi
  PROVE  CountsAgree(lo, hi, s)
<1> DEFINE f == floored(hi, s)
           c == ceiled(lo, s)
           g == floored(lo, s)
           d == ceiled(hi, s)
<1>1. /\ f \in Int /\ c \in Int /\ g \in Int /\ d \in Int
      /\ f * s <= hi /\ hi < f * s + s /\ lo <= c * s /\ c * s < lo + s
      /\ g * s <= lo /\ lo < g * s + s /\ hi <= d * s /\ d * s < hi + s
  BY LinesAround
<1>2. /\ s \in {40, 80, 200, 400, 800, 2000, 4000, 8000, 20000, 40000, 80000, 200000}
  BY RoundStepsAre
<1> DEFINE Agree(in, out, R) ==
             /\ in \in Nat /\ out \in Nat /\ in <= out /\ out <= in + 2
             /\ (in <= 2 => R < 3 * s) /\ (in <= 5 => R < 6 * s) /\ (in >= 6 => R >= 5 * s)
             /\ (out <= 2 => R <= s) /\ (2 * R < 5 * s => out <= 5)
<1>3. count(lo, hi, s) = f - c + 1 /\ LinesOut(lo, hi, s) = d - g + 1
  BY DEF count, LinesOut
<1> HIDE DEF f, c, g, d
<1>4. Agree(f - c + 1, d - g + 1, hi - lo)
  <2>1. CASE s = 40     BY <1>1, <2>1
  <2>2. CASE s = 80     BY <1>1, <2>2
  <2>3. CASE s = 200    BY <1>1, <2>3
  <2>4. CASE s = 400    BY <1>1, <2>4
  <2>5. CASE s = 800    BY <1>1, <2>5
  <2>6. CASE s = 2000   BY <1>1, <2>6
  <2>7. CASE s = 4000   BY <1>1, <2>7
  <2>8. CASE s = 8000   BY <1>1, <2>8
  <2>9. CASE s = 20000  BY <1>1, <2>9
  <2>10. CASE s = 40000 BY <1>1, <2>10
  <2>11. CASE s = 80000 BY <1>1, <2>11
  <2>12. CASE s = 200000 BY <1>1, <2>12
  <2> HIDE DEF Agree
  <2> QED
    BY <1>2, <2>1, <2>2, <2>3, <2>4, <2>5, <2>6, <2>7, <2>8, <2>9, <2>10, <2>11, <2>12
<1> QED
  BY <1>3, <1>4 DEF CountsAgree

(* The gridlines of a range are in it, and as many as counted.               *)
LEMMA GridIs ==
  ASSUME NEW s \in RoundSteps, NEW lo \in Int, NEW hi \in Int, lo <= hi
  PROVE  /\ Cardinality(grid(lo, hi, s)) = count(lo, hi, s) /\ count(lo, hi, s) \in Nat
         /\ \A t \in grid(lo, hi, s) : t \in Int /\ lo <= t /\ t <= hi
<1> DEFINE f == floored(hi, s)
           c == ceiled(lo, s)
<1>1. /\ f \in Int /\ c \in Int /\ s \in Nat \ {0}
      /\ f * s \in Int /\ c * s \in Int /\ f * s <= hi /\ lo <= c * s
  <2>1. s \in Nat \ {0}
    BY RoundStepsAre
  <2> QED
    BY <2>1, LinesAround
<1>2. count(lo, hi, s) = f - c + 1 /\ count(lo, hi, s) \in Nat
  BY CountsDoAgree DEF CountsAgree, count
<1>3. grid(lo, hi, s) = {k * s : k \in c .. f}
  BY DEF grid
<1> HIDE DEF f, c
<1> DEFINE G == {k * s : k \in c .. f}
           h == [k \in c .. f |-> k * s]
<1>4. h \in Bijection(c .. f, G)
  <2>1. \A k, l \in c .. f : k * s = l * s => k = l
    BY <1>1, ScaledBetween
  <2> QED
    BY <2>1 DEF Bijection, Injection, Surjection, IsInjective
<1>5. IsFiniteSet(c .. f) /\ Cardinality(c .. f) = IF c > f THEN 0 ELSE f - c + 1
  BY <1>1, FS_Interval
<1>6. Cardinality(G) = Cardinality(c .. f)
  <2>1. ExistsBijection(c .. f, G)
    BY <1>4, Zenon DEF ExistsBijection
  <2> DEFINE D == c .. f
  <2>2. IsFiniteSet(D) /\ ExistsBijection(D, G)
    BY <1>5, <2>1
  <2> HIDE DEF G, h, D
  <2>3. Cardinality(G) = Cardinality(D)
    BY <2>2, FS_Bijection
  <2> QED
    BY <2>3 DEF D
<1>7. Cardinality(c .. f) = f - c + 1
  BY <1>1, <1>2, <1>5
<1>8. ASSUME NEW k \in c .. f PROVE k * s \in Int /\ lo <= k * s /\ k * s <= hi
  <2>1. k \in Int /\ c <= k /\ k <= f
    BY <1>1
  <2>2. k * s \in Int /\ (c = k \/ c * s < k * s) /\ (k = f \/ k * s < f * s)
    <3>1. (c = k \/ c < k) /\ (k = f \/ k < f)
      BY <1>1, <2>1
    <3> QED
      BY <1>1, <2>1, <3>1, ScaledBetween
  <2> DEFINE v == k * s
             x == c * s
             y == f * s
  <2>3. v \in Int /\ x \in Int /\ y \in Int /\ x <= v /\ v <= y /\ lo <= x /\ y <= hi
    <3> HIDE DEF v, x, y
    <3>1. v \in Int /\ (v = x \/ x < v) /\ (v = y \/ v < y)
      BY <2>2 DEF v, x, y
    <3>2. x \in Int /\ y \in Int /\ lo <= x /\ y <= hi
      BY <1>1 DEF x, y
    <3> QED
      BY <3>1, <3>2
  <2> HIDE DEF v, x, y
  <2>4. v \in Int /\ lo <= v /\ v <= hi
    BY <2>3
  <2> QED
    BY <2>4 DEF v
<1> QED
  BY <1>2, <1>3, <1>6, <1>7, <1>8

(* A range the plots can have: of degrees, no less than the least span with its *)
(* headroom, on a plot high enough for five lines.                           *)
FitOf(fit) ==
  /\ fit.lo \in Int /\ fit.hi \in Int /\ fit.lowest \in Int /\ fit.plotPx \in Nat
  /\ fit.maxTicks = 5 /\ fit.plotPx >= 204 /\ fit.lowest + 200000 <= fit.lo
  /\ 88 <= fit.hi - fit.lo /\ fit.hi - fit.lo < 20000

(* What a scale of a range holds: all of it, and half as much again at most,    *)
(* on three lines or more that do not touch.                                 *)
ScaleOf(sc, fit) ==
  /\ sc.min \in Int /\ sc.max \in Int /\ sc.min <= fit.lo /\ fit.hi <= sc.max
  /\ Cardinality(sc.ticks) >= 3 /\ \A t \in sc.ticks : sc.min <= t /\ t <= sc.max
  /\ sc.step * fit.plotPx >= TIGHT_PX * (sc.max - sc.min)
  /\ 2 * (sc.max - sc.min) <= 3 * (fit.hi - fit.lo)

LEMMA MadeIs ==
  ASSUME NEW fit, FitOf(fit), NEW s \in RoundSteps, NEW a \in Int, NEW b \in Int,
         a <= fit.lo, fit.hi <= b
  PROVE  LET sc == make(fit, a, b, s)
         IN  /\ sc # None <=> count(a, b, s) <= 5
             /\ sc # None =>
                  /\ sc.min = a /\ sc.max = b /\ sc.step = s /\ sc.ticks = grid(a, b, s)
                  /\ Cardinality(sc.ticks) = count(a, b, s) /\ count(a, b, s) \in Nat
                  /\ \A t \in sc.ticks : a <= t /\ t <= b
<1> DEFINE sc == [min |-> a, max |-> b, ticks |-> grid(a, b, s), step |-> s]
<1>1. a <= b
  BY DEF FitOf
<1>2. /\ Cardinality(grid(a, b, s)) = count(a, b, s) /\ count(a, b, s) \in Nat
      /\ \A t \in grid(a, b, s) : t \in Int /\ a <= t /\ t <= b
  BY <1>1, GridIs
<1>3. s \in Int
  BY RoundStepsAre
<1>4. sc \in [min : Int, max : Int, ticks : SUBSET Int, step : Int]
  BY <1>2, <1>3
<1>5. sc # None
  BY <1>4, TicksAssumption
<1>6. make(fit, a, b, s) = IF count(a, b, s) > 5 THEN None ELSE sc
  BY DEF make, FitOf
<1>7. count(a, b, s) > 5 <=> ~ (count(a, b, s) <= 5)
  BY <1>2
<1> QED
  BY <1>2, <1>5, <1>6, <1>7

(* What fits is a scale when it is no wider than half as much again.          *)
LEMMA FittedIs ==
  ASSUME NEW fit, FitOf(fit), NEW s \in RoundSteps, NEW a \in Int, NEW b \in Int,
         a <= fit.lo, fit.hi <= b, NEW px \in {COMFY_PX, TIGHT_PX},
         fits(fit, make(fit, a, b, s), s, px), 2 * (b - a) <= 3 * (fit.hi - fit.lo)
  PROVE  ScaleOf(make(fit, a, b, s), fit)
<1> DEFINE sc == make(fit, a, b, s)
<1>1. sc # None /\ Cardinality(sc.ticks) >= 3 /\ s * fit.plotPx >= px * (sc.max - sc.min)
  BY DEF fits
<1>2. /\ sc.min = a /\ sc.max = b /\ sc.step = s
      /\ \A t \in sc.ticks : a <= t /\ t <= b
  BY <1>1, MadeIs
<1> HIDE DEF sc
<1>3. b - a \in Nat /\ s \in Nat
  BY RoundStepsAre DEF FitOf
<1>4. s * fit.plotPx >= 12 * (b - a)
  <2>1. s * fit.plotPx >= px * (b - a)
    BY <1>1, <1>2
  <2>2. s * fit.plotPx \in Int
    BY <1>3 DEF FitOf
  <2> DEFINE w == s * fit.plotPx
             d == b - a
  <2>3. w \in Int /\ d \in Nat /\ (w >= 16 * d \/ w >= 12 * d)
    BY <1>3, <2>1, <2>2 DEF COMFY_PX, TIGHT_PX
  <2> HIDE DEF w, d
  <2>4. w >= 12 * d
    BY <2>3
  <2> QED
    BY <2>4 DEF w, d
<1>5. ScaleOf(sc, fit)
  BY <1>1, <1>2, <1>4 DEF ScaleOf, TIGHT_PX
<1> QED
  BY <1>5 DEF sc

(* The lines outside of the range.                                          *)
LEMMA LinesBeyond ==
  ASSUME NEW fit, FitOf(fit), NEW s \in RoundSteps
  PROVE  /\ below(fit, s) = floored(fit.lo, s) * s /\ above(fit, s) = ceiled(fit.hi, s) * s
         /\ below(fit, s) \in Int /\ above(fit, s) \in Int
         /\ below(fit, s) <= fit.lo /\ fit.hi <= above(fit, s)
         /\ count(below(fit, s), above(fit, s), s) = LinesOut(fit.lo, fit.hi, s)
         /\ above(fit, s) - below(fit, s) = (LinesOut(fit.lo, fit.hi, s) - 1) * s
<1> DEFINE g == floored(fit.lo, s)
           d == ceiled(fit.hi, s)
<1>1. /\ fit.lo \in Int /\ fit.hi \in Int /\ fit.lowest \in Int
      /\ fit.lowest + 200000 <= fit.lo
  BY DEF FitOf
<1>2. /\ g \in Int /\ d \in Int /\ g * s \in Int /\ d * s \in Int
      /\ g * s <= fit.lo /\ fit.lo < g * s + s /\ fit.hi <= d * s
      /\ ceiled(g * s, s) = g /\ floored(d * s, s) = d
  BY <1>1, LinesAround
<1>3. s \in Nat /\ s <= 200000
  BY RoundStepsAre
<1>4. below(fit, s) = Max({g * s, fit.lowest}) /\ above(fit, s) = d * s
  BY DEF below, above
<1>5. LinesOut(fit.lo, fit.hi, s) = d - g + 1 /\ count(g * s, d * s, s) = d - g + 1
  BY <1>2 DEF LinesOut, count
<1> DEFINE x == g * s
           y == fit.lowest
<1> HIDE DEF g, d
<1>6. Max({x, y}) = x
  <2>1. x \in Int /\ y \in Int /\ y < x
    BY <1>1, <1>2, <1>3
  <2> HIDE DEF x, y
  <2>2. Max({x, y}) \in {x, y} /\ x <= Max({x, y})
    BY <2>1, MaxOf
  <2> QED
    BY <2>1, <2>2
<1>7. d * s - g * s = ((d - g + 1) - 1) * s
  <2>1. (d - g + 1) - 1 = d - g
    BY <1>2
  <2>2. (d - g) * s = d * s - g * s
    BY <1>2, <1>3
  <2> QED
    BY <2>1, <2>2
<1>8. below(fit, s) = g * s
  BY <1>4, <1>6
<1> QED
  BY <1>2, <1>4, <1>5, <1>7, <1>8 DEF g, d

(* The bounds as given fit a step that has three to five lines in them, the      *)
(* bounds moved out one that has as many there.                              *)
LEMMA FitsInside ==
  ASSUME NEW fit, FitOf(fit), NEW s \in RoundSteps, count(fit.lo, fit.hi, s) \in 3 .. 5
  PROVE  insideOrNear(fit, s, TIGHT_PX) # None
<1> DEFINE sc == make(fit, fit.lo, fit.hi, s)
           R == fit.hi - fit.lo
<1>1. /\ fit.lo \in Int /\ fit.hi \in Int /\ fit.plotPx \in Nat /\ fit.plotPx >= 204
      /\ R \in Nat /\ fit.lo <= fit.hi
  BY DEF FitOf
<1>2. /\ sc # None /\ sc.min = fit.lo /\ sc.max = fit.hi
      /\ Cardinality(sc.ticks) = count(fit.lo, fit.hi, s)
  BY <1>1, MadeIs
<1>3. R < 6 * s
  BY <1>1, CountsDoAgree DEF CountsAgree
<1>4. s * fit.plotPx >= 12 * R
  <2> DEFINE p == fit.plotPx
  <2>1. s \in Nat \ {0} /\ p \in Nat /\ p >= 204
    BY <1>1, RoundStepsAre
  <2> HIDE DEF p, R
  <2>2. s * p >= 204 * s
    <3>1. p = 204 \/ 204 < p
      BY <2>1
    <3>2. 204 < p => 204 * s < p * s
      BY <2>1, ScaledLess
    <3>3. p * s = s * p /\ p * s \in Int /\ 204 * s \in Int
      BY <2>1
    <3> QED
      BY <3>1, <3>2, <3>3
  <2>3. s * p \in Int
    BY <2>1
  <2> DEFINE w == s * p
  <2>4. w \in Int /\ w >= 204 * s
    BY <2>2, <2>3
  <2> HIDE DEF w
  <2>5. w >= 12 * R
    BY <1>1, <1>3, <2>1, <2>4
  <2> QED
    BY <2>5 DEF w, p
<1>5. fits(fit, sc, s, TIGHT_PX)
  <2>1. Cardinality(sc.ticks) >= 3
    BY <1>2
  <2>2. s * fit.plotPx >= TIGHT_PX * (sc.max - sc.min)
    BY <1>2, <1>4 DEF TIGHT_PX
  <2> HIDE DEF sc
  <2> QED
    BY <1>2, <2>1, <2>2 DEF fits
<1> QED
  BY <1>2, <1>5 DEF insideOrNear

LEMMA FitsOutside ==
  ASSUME NEW fit, FitOf(fit), NEW s \in RoundSteps
  PROVE  fits(fit, make(fit, below(fit, s), above(fit, s), s), s, TIGHT_PX)
           <=> LinesOut(fit.lo, fit.hi, s) \in 3 .. 5
<1> DEFINE a == below(fit, s)
           b == above(fit, s)
           out == LinesOut(fit.lo, fit.hi, s)
           sc == make(fit, a, b, s)
<1>1. fit.lo \in Int /\ fit.hi \in Int /\ fit.plotPx \in Nat /\ fit.plotPx >= 204
  BY DEF FitOf
<1>2. /\ a \in Int /\ b \in Int /\ a <= fit.lo /\ fit.hi <= b /\ count(a, b, s) = out
      /\ b - a = (out - 1) * s
  BY LinesBeyond
<1>3. s \in Nat \ {0}
  BY RoundStepsAre
<1>4. /\ sc # None <=> count(a, b, s) <= 5
      /\ sc # None => /\ sc.min = a /\ sc.max = b /\ count(a, b, s) \in Nat
                      /\ Cardinality(sc.ticks) = count(a, b, s)
  <2> HIDE DEF a, b, out
  <2> QED
    BY <1>2, MadeIs
<1> HIDE DEF a, b, out, sc
<1>5. ASSUME out \in 3 .. 5 PROVE s * fit.plotPx >= 12 * (b - a)
  <2> DEFINE p == fit.plotPx
  <2>1. p \in Nat /\ p >= 204
    BY <1>1
  <2> HIDE DEF p
  <2>2. s * p >= 204 * s /\ s * p \in Int
    <3>1. p = 204 \/ 204 < p
      BY <2>1
    <3>2. 204 < p => 204 * s < p * s
      BY <1>3, <2>1, ScaledLess
    <3>3. p * s = s * p /\ p * s \in Int /\ 204 * s \in Int
      BY <1>3, <2>1
    <3> QED
      BY <3>1, <3>2, <3>3
  <2>3. (out - 1) * s <= 4 * s /\ (out - 1) * s \in Int
    <3>1. out = 3 \/ out = 4 \/ out = 5
      BY <1>5
    <3> QED
      BY <1>3, <3>1
  <2> DEFINE w == s * p
             d == (out - 1) * s
  <2>4. w \in Int /\ d \in Int /\ w >= 204 * s /\ d <= 4 * s
    BY <2>2, <2>3
  <2> HIDE DEF w, d
  <2>5. w >= 12 * d
    BY <1>3, <2>4
  <2> QED
    BY <1>2, <2>5 DEF w, d, p
<1>6. ASSUME out \in 3 .. 5 PROVE fits(fit, sc, s, TIGHT_PX)
  <2>1. sc # None /\ Cardinality(sc.ticks) >= 3
    BY <1>2, <1>4, <1>6
  <2>2. s * fit.plotPx >= TIGHT_PX * (sc.max - sc.min)
    BY <1>4, <1>5, <1>6, <2>1 DEF TIGHT_PX
  <2> QED
    BY <2>1, <2>2 DEF fits
<1>7. ASSUME fits(fit, sc, s, TIGHT_PX) PROVE out \in 3 .. 5
  <2>1. sc # None /\ Cardinality(sc.ticks) >= 3
    BY <1>7 DEF fits
  <2> QED
    BY <1>2, <1>4, <2>1
<1> QED
  BY <1>6, <1>7 DEF sc, a, b, out

(* Where a step is found, the scale is one.                                  *)
LEMMA PlacedIs ==
  ASSUME NEW fit, FitOf(fit), NEW s \in RoundSteps, NEW px \in {COMFY_PX, TIGHT_PX},
         insideOrNear(fit, s, px) # None
  PROVE  ScaleOf(insideOrNear(fit, s, px), fit)
<1> DEFINE reach(d) == 10 * d <= fit.hi - fit.lo
           a == IF reach(fit.lo - below(fit, s)) THEN below(fit, s) ELSE fit.lo
           b == IF reach(above(fit, s) - fit.hi) THEN above(fit, s) ELSE fit.hi
           inside == make(fit, fit.lo, fit.hi, s)
           near == make(fit, a, b, s)
<1>1. fit.lo \in Int /\ fit.hi \in Int /\ fit.lo <= fit.hi
  BY DEF FitOf
<1>2. /\ below(fit, s) \in Int /\ above(fit, s) \in Int
      /\ below(fit, s) <= fit.lo /\ fit.hi <= above(fit, s)
  BY LinesBeyond
<1>3. /\ a \in Int /\ b \in Int /\ a <= fit.lo /\ fit.hi <= b
      /\ 10 * (fit.lo - a) <= fit.hi - fit.lo /\ 10 * (b - fit.hi) <= fit.hi - fit.lo
  BY <1>1, <1>2
<1>4. insideOrNear(fit, s, px) =
        IF fits(fit, inside, s, px) THEN inside ELSE IF fits(fit, near, s, px) THEN near ELSE None
  BY DEF insideOrNear
<1> HIDE DEF a, b
<1>5. fits(fit, inside, s, px) => ScaleOf(inside, fit)
  BY <1>1, FittedIs
<1>6. 2 * (b - a) <= 3 * (fit.hi - fit.lo)
  BY <1>1, <1>3
<1>7. fits(fit, near, s, px) => ScaleOf(near, fit)
  BY <1>3, <1>6, FittedIs
<1> HIDE DEF inside, near
<1> QED
  BY <1>4, <1>5, <1>7

(* A step with three to five lines inside or outside is always searched.      *)
LEMMA SomeStep ==
  ASSUME NEW fit, FitOf(fit)
  PROVE  \E s \in Steps(40, fit.hi - fit.lo) :
           \/ count(fit.lo, fit.hi, s) \in 3 .. 5
           \/ LinesOut(fit.lo, fit.hi, s) \in 3 .. 5
<1> DEFINE lo == fit.lo
           hi == fit.hi
           R == hi - lo
           found(s) == count(lo, hi, s) \in 3 .. 5 \/ LinesOut(lo, hi, s) \in 3 .. 5
<1>1. lo \in Int /\ hi \in Int /\ 88 <= R /\ R < 20000
  BY DEF FitOf
<1>2. \A s \in RoundSteps : s > 40 /\ s <= R => s \in Steps(40, R)
  BY DEF Steps
<1> HIDE DEF lo, hi
<1>3. ASSUME NEW s \in RoundSteps, s < R, 2 * R < 5 * s PROVE found(s)
  <2>1. s \in Nat /\ R \in Nat /\ lo <= hi
    BY <1>1, RoundStepsAre
  <2>2. CountsAgree(lo, hi, s)
    <3>1. lo \in Int /\ hi \in Int /\ lo <= hi
      BY <1>1, <2>1
    <3> HIDE DEF found
    <3> QED
      BY <3>1, CountsDoAgree
  <2>3. /\ LinesOut(lo, hi, s) \in Nat /\ LinesOut(lo, hi, s) <= 5
        /\ ~ (LinesOut(lo, hi, s) <= 2)
    BY <1>3, <2>1, <2>2 DEF CountsAgree
  <2> QED
    BY <2>3
<1>4. CASE R < 200
  <2>1. 80 \in RoundSteps
    BY RoundStepsAre
  <2>2. found(80)
    BY <1>1, <1>3, <1>4, <2>1
  <2> HIDE DEF found
  <2> QED
    BY <1>1, <1>2, <2>1, <2>2 DEF found, lo, hi
<1>5. CASE \E p \in {<<200, 80, 400>>, <<400, 200, 800>>, <<800, 400, 2000>>, <<2000, 800, 4000>>,
                     <<4000, 2000, 8000>>, <<8000, 4000, 20000>>} : p[1] <= R /\ R < p[3]
  <2>1. PICK s, t, u \in Nat :
           /\ \/ s = 200 /\ t = 80 /\ u = 400
              \/ s = 400 /\ t = 200 /\ u = 800
              \/ s = 800 /\ t = 400 /\ u = 2000
              \/ s = 2000 /\ t = 800 /\ u = 4000
              \/ s = 4000 /\ t = 2000 /\ u = 8000
              \/ s = 8000 /\ t = 4000 /\ u = 20000
           /\ s <= R /\ R < u
    BY <1>5
  <2>2. s \in RoundSteps /\ t \in RoundSteps /\ t > 40 /\ s > t /\ 2 * u <= 5 * s
    BY <2>1, RoundStepsAre
  <2>3. CASE s < R
    <3>1. found(s)
      <4>1. 2 * R < 5 * s
        BY <1>1, <2>1, <2>2
      <4> QED
        BY <1>3, <2>2, <2>3, <4>1
    <3>2. s \in Steps(40, R)
      BY <1>2, <2>1, <2>2
    <3> HIDE DEF found
    <3> QED
      BY <3>1, <3>2 DEF found, lo, hi
  <2>4. CASE s = R
    <3>1. LinesOut(lo, hi, s) \in 3 .. 5 \/ count(lo, hi, t) \in 3 .. 5
      <4>1. hi = lo + s
        BY <1>1, <2>4
      <4>2. \/ ceiled(lo + s, s) - floored(lo, s) + 1 \in 3 .. 5
            \/ floored(lo + s, t) - ceiled(lo, t) + 1 \in 3 .. 5
        <5>1. CASE s = 200 /\ t = 80
          <6> DEFINE j == lo \div 400
                     e == lo % 400
          <6>1. j \in Int /\ e \in 0 .. 399 /\ lo = 400 * j + e
            BY <1>1
          <6> HIDE DEF j, e
          <6>2. CASE e = 0
            <7>1. (lo + 200) \div 80 = 5 * j + 2 /\ (-lo) \div 80 = -5 * j
              BY <6>1, <6>2
            <7> QED
              BY <5>1, <6>1, <7>1 DEF floored, ceiled
          <6>3. CASE e = 200
            <7>1. (lo + 200) \div 80 = 5 * j + 5 /\ (-lo) \div 80 = -5 * j - 3
              BY <6>1, <6>3
            <7> QED
              BY <5>1, <6>1, <7>1 DEF floored, ceiled
          <6>4. CASE e \in 1 .. 199
            <7>1. lo \div 200 = 2 * j /\ (-(lo + 200)) \div 200 = -2 * j - 2
              BY <6>1, <6>4
            <7> QED
              BY <5>1, <6>1, <7>1 DEF floored, ceiled
          <6>5. CASE e \in 201 .. 399
            <7>1. lo \div 200 = 2 * j + 1 /\ (-(lo + 200)) \div 200 = -2 * j - 3
              BY <6>1, <6>5
            <7> QED
              BY <5>1, <6>1, <7>1 DEF floored, ceiled
          <6> QED
            BY <6>1, <6>2, <6>3, <6>4, <6>5
        <5>2. CASE s = 400 /\ t = 200    BY <1>1, <5>2 DEF floored, ceiled
        <5>3. CASE s = 800 /\ t = 400    BY <1>1, <5>3 DEF floored, ceiled
        <5>4. CASE s = 2000 /\ t = 800
          <6> DEFINE j == lo \div 4000
                     e == lo % 4000
          <6>1. j \in Int /\ e \in 0 .. 3999 /\ lo = 4000 * j + e
            BY <1>1
          <6> HIDE DEF j, e
          <6>2. CASE e = 0
            <7>1. (lo + 2000) \div 800 = 5 * j + 2 /\ (-lo) \div 800 = -5 * j
              BY <6>1, <6>2
            <7> QED
              BY <5>4, <6>1, <7>1 DEF floored, ceiled
          <6>3. CASE e = 2000
            <7>1. (lo + 2000) \div 800 = 5 * j + 5 /\ (-lo) \div 800 = -5 * j - 3
              BY <6>1, <6>3
            <7> QED
              BY <5>4, <6>1, <7>1 DEF floored, ceiled
          <6>4. CASE e \in 1 .. 1999
            <7>1. lo \div 2000 = 2 * j /\ (-(lo + 2000)) \div 2000 = -2 * j - 2
              BY <6>1, <6>4
            <7> QED
              BY <5>4, <6>1, <7>1 DEF floored, ceiled
          <6>5. CASE e \in 2001 .. 3999
            <7>1. lo \div 2000 = 2 * j + 1 /\ (-(lo + 2000)) \div 2000 = -2 * j - 3
              BY <6>1, <6>5
            <7> QED
              BY <5>4, <6>1, <7>1 DEF floored, ceiled
          <6> QED
            BY <6>1, <6>2, <6>3, <6>4, <6>5
        <5>5. CASE s = 4000 /\ t = 2000  BY <1>1, <5>5 DEF floored, ceiled
        <5>6. CASE s = 8000 /\ t = 4000  BY <1>1, <5>6 DEF floored, ceiled
        <5> QED
          BY <2>1, <5>1, <5>2, <5>3, <5>4, <5>5, <5>6
      <4> QED
        BY <4>1, <4>2 DEF count, LinesOut
    <3>2. s \in Steps(40, R) /\ t \in Steps(40, R)
      BY <1>1, <1>2, <2>1, <2>2
    <3> QED
      BY <3>1, <3>2 DEF lo, hi
  <2> QED
    BY <1>1, <2>1, <2>3, <2>4
<1> QED
  <2>1. \/ R < 200 \/ (200 <= R /\ R < 400) \/ (400 <= R /\ R < 800) \/ (800 <= R /\ R < 2000)
        \/ (2000 <= R /\ R < 4000) \/ (4000 <= R /\ R < 8000) \/ (8000 <= R /\ R < 20000)
    BY <1>1
  <2> DEFINE r == R
  <2>2. \/ r < 200 \/ \E p \in {<<200, 80, 400>>, <<400, 200, 800>>, <<800, 400, 2000>>,
                     <<2000, 800, 4000>>, <<4000, 2000, 8000>>, <<8000, 4000, 20000>>} :
                        p[1] <= r /\ r < p[3]
    <3> HIDE DEF r
    <3>1. \/ r < 200 \/ (200 <= r /\ r < 400) \/ (400 <= r /\ r < 800) \/ (800 <= r /\ r < 2000)
          \/ (2000 <= r /\ r < 4000) \/ (4000 <= r /\ r < 8000) \/ (8000 <= r /\ r < 20000)
      BY <2>1 DEF r
    <3> QED
      BY <3>1
  <2> QED
    BY <1>4, <1>5, <2>2

LEMMA FinestOf ==
  ASSUME NEW S \in SUBSET Nat
  PROVE  /\ S = {} => Finest(S, None) = None
         /\ S # {} => Finest(S, None) \in S /\ Finest(S, None) # None
                      /\ \A x \in S : Finest(S, None) <= x
<1>1. S # {} => Min(S) \in S /\ \A x \in S : Min(S) <= x
  BY LeastOf
<1>2. \A x \in S : x # None
  BY TicksAssumption
<1> QED
  BY <1>1, <1>2 DEF Finest

(* The finest step whose ends moved outward fit is at most half the range: the  *)
(* step before it had six lines inside.                                      *)
LEMMA WideIsClose ==
  ASSUME NEW fit, FitOf(fit), NEW w \in Steps(40, fit.hi - fit.lo),
         LinesOut(fit.lo, fit.hi, w) \in 3 .. 5,
         \A s \in Steps(40, fit.hi - fit.lo) : count(fit.lo, fit.hi, s) \notin 3 .. 5,
         \A s \in Steps(40, fit.hi - fit.lo) : s < w => LinesOut(fit.lo, fit.hi, s) \notin 3 .. 5
  PROVE  2 * (above(fit, w) - below(fit, w)) <= 3 * (fit.hi - fit.lo)
<1> DEFINE lo == fit.lo
           hi == fit.hi
           R == hi - lo
<1>1. lo \in Int /\ hi \in Int /\ 88 <= R /\ R \in Nat
  BY DEF FitOf
<1>2. w \in RoundSteps /\ (w = 40 \/ (40 < w /\ w <= R))
  BY DEF Steps
<1>3. \A s \in RoundSteps : s \in Nat /\ CountsAgree(lo, hi, s)
  <2>1. lo <= hi
    BY <1>1
  <2> HIDE DEF lo, hi
  <2> QED
    BY <1>1, <2>1, CountsDoAgree, RoundStepsAre
<1>4. LinesOut(lo, hi, w) <= 4 /\ LinesOut(lo, hi, w) \in 3 .. 5
  <2>1. count(lo, hi, w) \in Nat /\ count(lo, hi, w) <= LinesOut(lo, hi, w)
        /\ LinesOut(lo, hi, w) <= count(lo, hi, w) + 2
    BY <1>2, <1>3 DEF CountsAgree
  <2>2. count(lo, hi, w) \notin 3 .. 5
    OBVIOUS
  <2> HIDE DEF lo, hi
  <2> QED
    BY <2>1, <2>2 DEF lo, hi
<1>5. R >= 2 * w
  <2>1. CASE w = 40
    BY <1>1, <2>1
  <2>2. CASE w # 40
    <3>1. PICK t \in RoundSteps : t >= 40 /\ t < w /\ 5 * t >= 2 * w
      <4>1. w \in {80, 200, 400, 800, 2000, 4000, 8000, 20000, 40000, 80000, 200000}
        BY <1>2, <2>2, RoundStepsAre
      <4>2. \A t \in {40, 80, 200, 400, 800, 2000, 4000, 8000, 20000, 40000, 80000} : t \in RoundSteps
        BY RoundStepsAre
      <4>3. CASE w = 80
        <5>1. 40 \in RoundSteps /\ 40 >= 40 /\ 40 < w /\ 5 * 40 >= 2 * w
          BY <4>2, <4>3
        <5> QED
          BY <5>1
      <4>4. CASE w = 200
        <5>1. 80 \in RoundSteps /\ 80 >= 40 /\ 80 < w /\ 5 * 80 >= 2 * w
          BY <4>2, <4>4
        <5> QED
          BY <5>1
      <4>5. CASE w = 400
        <5>1. 200 \in RoundSteps /\ 200 >= 40 /\ 200 < w /\ 5 * 200 >= 2 * w
          BY <4>2, <4>5
        <5> QED
          BY <5>1
      <4>6. CASE w = 800
        <5>1. 400 \in RoundSteps /\ 400 >= 40 /\ 400 < w /\ 5 * 400 >= 2 * w
          BY <4>2, <4>6
        <5> QED
          BY <5>1
      <4>7. CASE w = 2000
        <5>1. 800 \in RoundSteps /\ 800 >= 40 /\ 800 < w /\ 5 * 800 >= 2 * w
          BY <4>2, <4>7
        <5> QED
          BY <5>1
      <4>8. CASE w = 4000
        <5>1. 2000 \in RoundSteps /\ 2000 >= 40 /\ 2000 < w /\ 5 * 2000 >= 2 * w
          BY <4>2, <4>8
        <5> QED
          BY <5>1
      <4>9. CASE w = 8000
        <5>1. 4000 \in RoundSteps /\ 4000 >= 40 /\ 4000 < w /\ 5 * 4000 >= 2 * w
          BY <4>2, <4>9
        <5> QED
          BY <5>1
      <4>10. CASE w = 20000
        <5>1. 8000 \in RoundSteps /\ 8000 >= 40 /\ 8000 < w /\ 5 * 8000 >= 2 * w
          BY <4>2, <4>10
        <5> QED
          BY <5>1
      <4>11. CASE w = 40000
        <5>1. 20000 \in RoundSteps /\ 20000 >= 40 /\ 20000 < w /\ 5 * 20000 >= 2 * w
          BY <4>2, <4>11
        <5> QED
          BY <5>1
      <4>12. CASE w = 80000
        <5>1. 40000 \in RoundSteps /\ 40000 >= 40 /\ 40000 < w /\ 5 * 40000 >= 2 * w
          BY <4>2, <4>12
        <5> QED
          BY <5>1
      <4>13. CASE w = 200000
        <5>1. 80000 \in RoundSteps /\ 80000 >= 40 /\ 80000 < w /\ 5 * 80000 >= 2 * w
          BY <4>2, <4>13
        <5> QED
          BY <5>1
      <4> QED
        BY <4>1, <4>3, <4>4, <4>5, <4>6, <4>7, <4>8, <4>9, <4>10, <4>11, <4>12, <4>13
    <3>2. t \in Steps(40, R) /\ w <= R
      BY <1>1, <1>2, <1>3, <2>2, <3>1 DEF Steps
    <3>3. count(lo, hi, t) \notin 3 .. 5 /\ LinesOut(lo, hi, t) \notin 3 .. 5
      BY <3>1, <3>2
    <3>4. CountsAgree(lo, hi, t) /\ t \in Nat /\ w \in Nat
      BY <1>2, <1>3
    <3> DEFINE in == count(lo, hi, t)
               out == LinesOut(lo, hi, t)
               r == R
    <3>5. /\ in \in Nat /\ out \in Nat /\ in <= out /\ out <= in + 2
          /\ (in >= 6 => r >= 5 * t) /\ (out <= 2 => r <= t)
      BY <3>4 DEF CountsAgree
    <3>6. in \notin 3 .. 5 /\ out \notin 3 .. 5 /\ r \in Nat /\ w <= r
      BY <1>1, <3>2, <3>3
    <3> HIDE DEF in, out, r
    <3>7. r >= 5 * t
      BY <3>1, <3>4, <3>5, <3>6
    <3>8. r >= 2 * w
      BY <3>1, <3>4, <3>6, <3>7
    <3> QED
      BY <3>8 DEF r
  <2> QED
    BY <2>1, <2>2
<1>6. above(fit, w) - below(fit, w) = (LinesOut(lo, hi, w) - 1) * w
  BY <1>2, LinesBeyond
<1> DEFINE out == LinesOut(lo, hi, w)
           d == above(fit, w) - below(fit, w)
           r == R
<1>7. (out = 3 \/ out = 4) /\ w \in Nat /\ r \in Nat /\ r >= 2 * w /\ d = (out - 1) * w
  <2>1. out = 3 \/ out = 4
    <3>1. out \in 3 .. 5 /\ out <= 4
      BY <1>4
    <3> HIDE DEF out
    <3> QED
      BY <3>1
  <2> QED
    BY <1>1, <1>2, <1>3, <1>5, <1>6, <2>1
<1> HIDE DEF out, d, r
<1>8. 2 * d <= 3 * r
  BY <1>7
<1> QED
  BY <1>8 DEF d, r

(* The search finds a scale.                                                *)
LEMMA SearchFinds ==
  ASSUME NEW fit, FitOf(fit)
  PROVE  LET sc == search(fit, Steps(40, fit.hi - fit.lo))
         IN  sc # None /\ ScaleOf(sc, fit)
<1> DEFINE steps == Steps(40, fit.hi - fit.lo)
           can(px) == {s \in steps : insideOrNear(fit, s, px) # None}
           pass(px) == Finest(can(px), None)
           comfy == pass(COMFY_PX)
           tight == pass(TIGHT_PX)
           outward(s) == make(fit, below(fit, s), above(fit, s), s)
           spread == {s \in steps : fits(fit, outward(s), s, TIGHT_PX)}
           wide == Finest(spread, None)
<1>1. steps \subseteq RoundSteps /\ RoundSteps \subseteq Nat
  BY RoundStepsAre DEF Steps
<1>2. search(fit, steps) =
        IF comfy # None THEN insideOrNear(fit, comfy, COMFY_PX)
        ELSE IF tight # None THEN insideOrNear(fit, tight, TIGHT_PX)
        ELSE IF wide # None THEN outward(wide) ELSE None
  BY DEF search
<1> HIDE DEF steps
<1>3. ASSUME NEW px \in {COMFY_PX, TIGHT_PX}, pass(px) # None
      PROVE  /\ insideOrNear(fit, pass(px), px) # None
             /\ ScaleOf(insideOrNear(fit, pass(px), px), fit)
  <2>1. can(px) \in SUBSET Nat
    BY <1>1
  <2>2. pass(px) \in can(px)
    <3> HIDE DEF can
    <3> QED
      BY <1>3, <2>1, FinestOf
  <2>3. pass(px) \in RoundSteps /\ insideOrNear(fit, pass(px), px) # None
    <3> HIDE DEF pass
    <3> QED
      BY <1>1, <2>2
  <2> HIDE DEF pass
  <2> QED
    BY <2>3, PlacedIs
<1>4. ASSUME tight = None
      PROVE  wide # None /\ outward(wide) # None /\ ScaleOf(outward(wide), fit)
  <2>1. can(TIGHT_PX) \in SUBSET Nat /\ spread \in SUBSET Nat
    BY <1>1
  <2>2. can(TIGHT_PX) = {}
    <3> HIDE DEF can
    <3> QED
      BY <1>4, <2>1, FinestOf
  <2>3. \A s \in steps : count(fit.lo, fit.hi, s) \notin 3 .. 5
    <3>1. \A s \in steps : insideOrNear(fit, s, TIGHT_PX) = None
      BY <2>2
    <3> QED
      BY <1>1, <3>1, FitsInside
  <2>4. \A s \in steps : s \in spread <=> LinesOut(fit.lo, fit.hi, s) \in 3 .. 5
    BY <1>1, FitsOutside
  <2>5. spread # {}
    <3>1. PICK s \in steps : \/ count(fit.lo, fit.hi, s) \in 3 .. 5
                             \/ LinesOut(fit.lo, fit.hi, s) \in 3 .. 5
      BY SomeStep DEF steps
    <3> HIDE DEF spread
    <3> QED
      BY <2>3, <2>4, <3>1
  <2>6. wide \in spread /\ wide # None /\ \A x \in spread : wide <= x
    <3> HIDE DEF spread
    <3> QED
      BY <2>1, <2>5, FinestOf
  <2>7. wide \in steps /\ wide \in RoundSteps /\ fits(fit, outward(wide), wide, TIGHT_PX)
    <3> HIDE DEF wide
    <3> QED
      BY <1>1, <2>6
  <2>8. LinesOut(fit.lo, fit.hi, wide) \in 3 .. 5
    <3> HIDE DEF wide, spread
    <3> QED
      BY <2>4, <2>6, <2>7
  <2>9. \A s \in steps : s < wide => LinesOut(fit.lo, fit.hi, s) \notin 3 .. 5
    <3>1. \A s \in steps : s \in Nat
      BY <1>1
    <3>2. wide \in Nat
      BY <1>1, <2>7
    <3> HIDE DEF wide, spread
    <3>3. \A s \in steps : s < wide => ~ (wide <= s)
      BY <3>1, <3>2
    <3> QED
      BY <2>4, <2>6, <3>3
  <2> HIDE DEF wide, spread
  <2>10. 2 * (above(fit, wide) - below(fit, wide)) <= 3 * (fit.hi - fit.lo)
    BY <2>3, <2>7, <2>8, <2>9, WideIsClose DEF steps
  <2>11. /\ below(fit, wide) \in Int /\ above(fit, wide) \in Int
         /\ below(fit, wide) <= fit.lo /\ fit.hi <= above(fit, wide)
    BY <2>7, LinesBeyond
  <2>12. ScaleOf(outward(wide), fit)
    BY <2>7, <2>10, <2>11, FittedIs
  <2>13. outward(wide) # None
    <3> HIDE DEF outward
    <3> QED
      BY <2>7 DEF fits
  <2> QED
    BY <2>6, <2>12, <2>13
<1> HIDE DEF pass, can, outward, spread, wide
<1>5. comfy # None => insideOrNear(fit, comfy, COMFY_PX) # None
                      /\ ScaleOf(insideOrNear(fit, comfy, COMFY_PX), fit)
  BY <1>3
<1>6. tight # None => insideOrNear(fit, tight, TIGHT_PX) # None
                      /\ ScaleOf(insideOrNear(fit, tight, TIGHT_PX), fit)
  BY <1>3
<1> HIDE DEF comfy, tight
<1>7. LET sc == search(fit, steps) IN sc # None /\ ScaleOf(sc, fit)
  BY <1>2, <1>4, <1>5, <1>6
<1> QED
  BY <1>7 DEF steps

(* A set of temperatures has a least and a greatest.                        *)
LEMMA ExtremesOf ==
  ASSUME NEW V \in SUBSET Temperature, V # {}
  PROVE  /\ Min(V) \in V /\ Max(V) \in V /\ -4000 <= Min(V) /\ Max(V) <= 12000
         /\ \A v \in V : v \in Int /\ Min(V) <= v /\ v <= Max(V)
<1> DEFINE up == {v + 4000 : v \in V}
           down == {12000 - v : v \in V}
<1>1. \A v \in V : v \in Int /\ -4000 <= v /\ v <= 12000
  <2> DEFINE a == -100 * Unit
             b == 300 * Unit
  <2>1. a = -4000 /\ b = 12000
    BY DEF Unit
  <2>2. a \in Int /\ b \in Int
    BY DEF Unit
  <2> HIDE DEF a, b
  <2>3. \A v \in V : v \in a .. b
    BY DEF Temperature, a, b
  <2>4. \A v \in V : v \in Int /\ a <= v /\ v <= b
    BY <2>2, <2>3
  <2> QED
    BY <2>1, <2>4
<1>2. up \in SUBSET Nat /\ down \in SUBSET Nat /\ up # {} /\ down # {}
  <2>1. \A v \in V : v + 4000 \in Nat /\ 12000 - v \in Nat
    BY <1>1
  <2>2. up \in SUBSET Nat /\ down \in SUBSET Nat
    BY <2>1
  <2>3. PICK v : v \in V
    OBVIOUS
  <2>4. v + 4000 \in up /\ 12000 - v \in down
    BY <2>3
  <2> QED
    BY <2>2, <2>4
<1>3. /\ Min(up) \in up /\ \A m \in up : Min(up) <= m
      /\ Min(down) \in down /\ \A m \in down : Min(down) <= m
  <2> HIDE DEF up, down
  <2> QED
    BY <1>2, LeastOf
<1>4. PICK a \in V, b \in V : Min(up) = a + 4000 /\ Min(down) = 12000 - b
  <2> DEFINE x == Min(up)
             y == Min(down)
  <2>1. x \in up /\ y \in down
    <3> HIDE DEF up, down
    <3> QED
      BY <1>3
  <2> HIDE DEF x, y
  <2>2. \E a \in V, b \in V : x = a + 4000 /\ y = 12000 - b
    BY <2>1
  <2> QED
    <3> HIDE DEF up, down
    <3> QED
      BY <2>2 DEF x, y
<1>5. \A v \in V : a <= v /\ v <= b
  <2> TAKE v \in V
  <2>1. v + 4000 \in up /\ 12000 - v \in down
    OBVIOUS
  <2>2. Min(up) <= v + 4000 /\ Min(down) <= 12000 - v
    <3> HIDE DEF up, down
    <3> QED
      BY <1>3, <2>1
  <2>3. a + 4000 <= v + 4000 /\ 12000 - b <= 12000 - v
    BY <1>4, <2>2
  <2>4. a \in Int /\ b \in Int /\ v \in Int
    BY <1>1
  <2> QED
    BY <2>3, <2>4
<1>6. Min(V) \in V /\ \A v \in V : Min(V) <= v
  BY <1>1, <1>5 DEF Min
<1>7. Max(V) \in V /\ \A v \in V : Max(V) >= v
  <2>1. \E x \in V : \A y \in V : x >= y
    BY <1>1, <1>5
  <2> QED
    BY <2>1 DEF Max
<1>8. \A v \in V : Min(V) <= v /\ v <= Max(V) /\ v \in Int
  <2> TAKE v \in V
  <2>1. v \in Int /\ Max(V) \in Int /\ Min(V) <= v /\ Max(V) >= v
    BY <1>1, <1>6, <1>7
  <2> DEFINE x == Max(V)
  <2> HIDE DEF x
  <2>2. v \in Int /\ x \in Int /\ x >= v => v <= x
    OBVIOUS
  <2> QED
    BY <2>1, <2>2 DEF x
<1> QED
  BY <1>1, <1>6, <1>7, <1>8

(* The axis of some temperatures.                                           *)
LEMMA LimitsAre ==
  ASSUME NEW V \in SUBSET Temperature, V # {}, NEW P \in Nat, P >= 204
  PROVE  LET sc == limits(V, MIN_SPAN, NoLowest, P)
             D  == Max(V) - Min(V)
         IN  /\ sc.min \in Int /\ sc.max \in Int
             /\ \A v \in V : sc.min <= v /\ v <= sc.max
             /\ Cardinality(sc.ticks) >= 3 /\ \A t \in sc.ticks : sc.min <= t /\ t <= sc.max
             /\ sc.step * P >= TIGHT_PX * (sc.max - sc.min)
             /\ D >= 80 => 20 * (sc.max - sc.min) <= 33 * D
<1> DEFINE low  == Min(V)
           high == Max(V)
           flat == high - low < 80
           mn   == IF flat THEN (low + high) \div 2 - 40 ELSE low
           mx   == IF flat THEN (low + high) \div 2 + 40 ELSE high
           pad  == (mx - mn) \div 20
           lo   == mn - pad
           hi   == mx + pad
           D    == high - low
           fit  == [lo |-> lo, hi |-> hi, plotPx |-> P, maxTicks |-> 5, lowest |-> NoLowest]
           sc   == limits(V, MIN_SPAN, NoLowest, P)
<1>1. /\ low \in Int /\ high \in Int /\ -4000 <= low /\ high <= 12000 /\ low <= high
      /\ \A v \in V : v \in Int /\ low <= v /\ v <= high
  <2>1. /\ Min(V) \in V /\ Max(V) \in V /\ -4000 <= Min(V) /\ Max(V) <= 12000
        /\ \A v \in V : v \in Int /\ Min(V) <= v /\ v <= Max(V)
    BY ExtremesOf
  <2>2. Min(V) <= Max(V)
    BY <2>1
  <2> QED
    BY <2>1, <2>2
<1> HIDE DEF low, high
<1>2. /\ mn \in Int /\ mx \in Int /\ mn <= low /\ high <= mx /\ mx - mn >= 80
      /\ -4100 <= mn /\ mx <= 12100 /\ (D >= 80 => mx - mn = D)
  <2>1. CASE flat
    BY <1>1, <2>1
  <2>2. CASE ~ flat
    BY <1>1, <2>2
  <2> QED
    BY <2>1, <2>2
<1> HIDE DEF mn, mx
<1>3. pad \in Nat /\ pad >= 4 /\ 20 * pad <= mx - mn
  BY <1>2
<1> HIDE DEF pad
<1>4. /\ lo \in Int /\ hi \in Int /\ lo <= low /\ high <= hi /\ 88 <= hi - lo
      /\ hi - lo < 20000 /\ -10000 <= lo /\ (D >= 80 => 10 * (hi - lo) <= 11 * D)
  <2>1. low \in Int /\ high \in Int
    BY <1>1
  <2>2. mx - mn <= 16200 /\ pad <= 810
    BY <1>2, <1>3
  <2>3. lo \in Int /\ hi \in Int /\ lo <= low /\ high <= hi
    BY <1>2, <1>3, <2>1
  <2>4. 88 <= hi - lo /\ hi - lo < 20000 /\ -10000 <= lo
    BY <1>2, <1>3, <2>2
  <2>5. D >= 80 => 10 * (hi - lo) <= 11 * D
    BY <1>2, <1>3, <2>1
  <2> QED
    BY <2>3, <2>4, <2>5
<1>5. NoLowest = -1000000
  BY DEF NoLowest
<1>6. Max({lo, NoLowest}) = lo
  <2> DEFINE x == lo
             y == NoLowest
  <2>1. x \in Int /\ y \in Int /\ y < x
    BY <1>4, <1>5
  <2> HIDE DEF x, y
  <2>2. Max({x, y}) \in {x, y} /\ x <= Max({x, y})
    BY <2>1, MaxOf
  <2>3. Max({x, y}) = x
    BY <2>1, <2>2
  <2> QED
    BY <2>3 DEF x, y
<1>7. sc = niceScale(Max({lo, NoLowest}), hi, resolution(MIN_SPAN), P, NoLowest)
  <2>1. MIN_SPAN = 80 /\ MIN_SPAN \div 2 = 40
    BY DEF MIN_SPAN, Unit
  <2>2. flat <=> high - low < MIN_SPAN
    BY <2>1
  <2> QED
    BY <2>1, <2>2 DEF limits, low, high, mn, mx, pad
<1>8. sc = niceScale(lo, hi, 40, P, NoLowest)
  BY <1>6, <1>7, RoundStepsAre
<1> HIDE DEF lo, hi
<1>9. FitOf(fit) /\ fit.lo = lo /\ fit.hi = hi /\ fit.plotPx = P
  BY <1>4, <1>5 DEF FitOf
<1>10. sc = search(fit, Steps(40, hi - lo))
  <2>1. search(fit, Steps(40, hi - lo)) # None
    <3> HIDE DEF fit
    <3> QED
      BY <1>9, SearchFinds
  <2>2. ~ (hi <= lo) /\ (IF P >= 120 THEN 5 ELSE 4) = 5
    BY <1>4
  <2> QED
    BY <1>8, <2>1, <2>2 DEF niceScale
<1> HIDE DEF fit, sc
<1>11. ScaleOf(sc, fit)
  BY <1>9, <1>10, SearchFinds
<1>12. /\ sc.min \in Int /\ sc.max \in Int /\ sc.min <= lo /\ hi <= sc.max
       /\ Cardinality(sc.ticks) >= 3 /\ \A t \in sc.ticks : sc.min <= t /\ t <= sc.max
       /\ sc.step * P >= TIGHT_PX * (sc.max - sc.min)
       /\ 2 * (sc.max - sc.min) <= 3 * (hi - lo)
  BY <1>9, <1>11 DEF ScaleOf
<1>13. \A v \in V : sc.min <= v /\ v <= sc.max
  BY <1>1, <1>4, <1>12
<1>14. D >= 80 => 20 * (sc.max - sc.min) <= 33 * D
  BY <1>1, <1>4, <1>12
<1> QED
  BY <1>12, <1>13, <1>14 DEF sc, low, high

(* The limits in reach of the readings.                                     *)
LEMMA OverlayIs ==
  ASSUME NEW lines \in SUBSET Temperature, plotted \in SUBSET Temperature, plotted # {}
  PROVE  LET mn == Min(plotted)
             mx == Max(plotted)
             reach == limitReach(mn, mx)
         IN  /\ reach \in Int /\ reach >= 3 * Unit
             /\ mx - mn >= 6 * Unit => reach = (mx - mn) \div 2
             /\ \A f \in lines :
                  f \in limitOverlay(lines) <=> mn - reach <= f /\ f <= mx + reach
<1> DEFINE mn == Min(plotted)
           mx == Max(plotted)
           reach == limitReach(mn, mx)
<1>1. mn \in Int /\ mx \in Int /\ mn <= mx
  BY ExtremesOf
<1>2. \A f \in lines : f \in Int
  <2>1. Temperature \subseteq Int
    BY DEF Temperature
  <2> QED
    BY <2>1, Zenon
<1> DEFINE x == 3 * Unit
           y == (mx - mn) \div 2
<1> HIDE DEF mn, mx
<1>3. x \in Int /\ y \in Int /\ x = 120 /\ (mx - mn >= 6 * Unit => y >= x)
  BY <1>1 DEF Unit
<1>4. reach = Max({x, y})
  BY DEF limitReach
<1> HIDE DEF x, y, reach
<1>5. reach \in {x, y} /\ x <= reach /\ y <= reach
  BY <1>3, <1>4, MaxOf
<1>6. reach \in Int /\ reach >= x /\ (mx - mn >= 6 * Unit => reach = y)
  BY <1>3, <1>5
<1>7. ASSUME NEW f \in lines
      PROVE  placeLimit(f, mn, mx) = "line" <=> mn - reach <= f /\ f <= mx + reach
  <2>1. placeLimit(f, mn, mx) =
          CASE f < mn - reach -> "below" [] f > mx + reach -> "above"
            [] f \in (mn - reach) .. (mx + reach) -> "line"
    BY DEF placeLimit, reach
  <2>2. f \in Int
    BY <1>2
  <2>3. CASE f < mn - reach
    <3>1. ~ (f > mx + reach) /\ f \notin (mn - reach) .. (mx + reach) /\ ~ (mn - reach <= f)
      <4>1. reach >= 0
        BY <1>3, <1>6
      <4> QED
        BY <1>1, <1>6, <2>2, <2>3, <4>1
    <3>2. placeLimit(f, mn, mx) = "below"
      BY <2>1, <2>3, <3>1
    <3> QED
      BY <3>1, <3>2
  <2>4. CASE f > mx + reach
    <3>1. ~ (f < mn - reach) /\ f \notin (mn - reach) .. (mx + reach) /\ ~ (f <= mx + reach)
      <4>1. reach >= 0
        BY <1>3, <1>6
      <4> QED
        BY <1>1, <1>6, <2>2, <2>4, <4>1
    <3>2. placeLimit(f, mn, mx) = "above"
      BY <2>1, <2>4, <3>1
    <3> QED
      BY <3>1, <3>2
  <2>5. CASE mn - reach <= f /\ f <= mx + reach
    <3>1. ~ (f < mn - reach) /\ ~ (f > mx + reach) /\ f \in (mn - reach) .. (mx + reach)
      BY <1>1, <1>6, <2>2, <2>5
    <3> QED
      BY <2>1, <2>5, <3>1
  <2> QED
    BY <1>1, <1>6, <2>2, <2>3, <2>4, <2>5
<1>8. \A f \in lines : f \in limitOverlay(lines) <=> mn - reach <= f /\ f <= mx + reach
  BY <1>7 DEF limitOverlay, mn, mx
<1> QED
  BY <1>6, <1>8 DEF x, y, reach, mn, mx

LEMMA AxisIs == ChartsInv => AxisHolds
<1> SUFFICES ASSUME ChartsInv, NEW plot \in Plots, NEW set \in Settings,
                    drawTemperature(plot, chartLimits(set)) # None
             PROVE
      LET lines == chartLimits(set)
          sc    == drawTemperature(plot, lines)
      IN  /\ \A v \in plotted \cup limitOverlay(lines) : sc.min <= v /\ v <= sc.max
          /\ Cardinality(sc.ticks) >= 3 /\ \A t \in sc.ticks : sc.min <= t /\ t <= sc.max
          /\ sc.step * plotH(plot) >= TIGHT_PX * (sc.max - sc.min)
          /\ \A f \in lines \ limitOverlay(lines) :
               f < Min(plotted) - 3 * Unit \/ f > Max(plotted) + 3 * Unit
          /\ LET span == Max(plotted) - Min(plotted)
             IN  span >= 6 * Unit => 10 * span >= 3 * (sc.max - sc.min)
  BY DEF AxisHolds
<1> DEFINE lines == chartLimits(set)
           near == limitOverlay(lines)
           V == plotted \cup near
           sc == drawTemperature(plot, lines)
           mn == Min(plotted)
           mx == Max(plotted)
           reach == limitReach(mn, mx)
<1>1. plotted # {} /\ sc = limits(V, MIN_SPAN, NoLowest, plotH(plot))
  BY DEF drawTemperature
<1>2. plotted \in SUBSET Temperature
  <2>1. \A i \in 1 .. n : cols[i].tf \in Temperature \cup {None} /\ cols[i].of \in Temperature \cup {None}
    <3>1. \A i \in 1 .. n : cols[i] \in Samples
      BY ElementOfSeq DEF ChartsInv, n
    <3> QED
      BY <3>1, ChartsAssumption
  <2> QED
    BY <2>1 DEF plotted
<1>3. lines \in SUBSET Temperature
  <2>1. set.low \in Temperature \cup {None} /\ set.high \in Temperature \cup {None}
    BY ChartsAssumption
  <2> QED
    BY <2>1 DEF chartLimits
<1>4. plotH(plot) \in Nat /\ plotH(plot) >= 204
  <2>1. plot.h \in Nat /\ plot.h >= 220
    BY ChartsAssumption
  <2> QED
    BY <2>1 DEF plotH
<1>5. near \subseteq lines /\ V \in SUBSET Temperature /\ V # {}
  <2>1. near \subseteq lines
    BY DEF limitOverlay
  <2> QED
    BY <1>1, <1>2, <1>3, <2>1
<1>6. /\ reach \in Int /\ reach >= 120 /\ (mx - mn >= 240 => reach = (mx - mn) \div 2)
      /\ \A f \in lines : f \in near <=> mn - reach <= f /\ f <= mx + reach
  <2>1. 3 * Unit = 120 /\ 6 * Unit = 240
    BY DEF Unit
  <2> HIDE DEF lines
  <2> QED
    BY <1>1, <1>2, <1>3, <2>1, OverlayIs
<1>7. /\ mn \in Int /\ mx \in Int /\ mn \in plotted /\ mx \in plotted
      /\ \A v \in plotted : v \in Int /\ mn <= v /\ v <= mx
  BY <1>1, <1>2, ExtremesOf
<1>8. Min(V) \in V /\ Max(V) \in V /\ \A v \in V : v \in Int /\ Min(V) <= v /\ v <= Max(V)
  <2> HIDE DEF V
  <2> QED
    BY <1>5, ExtremesOf
<1>9. /\ sc.min \in Int /\ sc.max \in Int
      /\ \A v \in V : sc.min <= v /\ v <= sc.max
      /\ Cardinality(sc.ticks) >= 3 /\ \A t \in sc.ticks : sc.min <= t /\ t <= sc.max
      /\ sc.step * plotH(plot) >= TIGHT_PX * (sc.max - sc.min)
      /\ Max(V) - Min(V) >= 80 => 20 * (sc.max - sc.min) <= 33 * (Max(V) - Min(V))
  <2> HIDE DEF V, sc
  <2> QED
    BY <1>1, <1>4, <1>5, LimitsAre
<1> HIDE DEF near, lines, sc, mn, mx, reach
<1>10. ASSUME NEW f \in lines \ near PROVE f < mn - 120 \/ f > mx + 120
  <2>1. f \in Int /\ ~ (mn - reach <= f /\ f <= mx + reach)
    <3>1. f \in lines /\ f \notin near
      BY <1>10
    <3>2. f \in Int
      BY <1>3, <3>1 DEF Temperature, Unit
    <3> QED
      BY <1>6, <3>1, <3>2
  <2> QED
    BY <1>6, <1>7, <2>1
<1>11. ASSUME mx - mn >= 240 PROVE 10 * (mx - mn) >= 3 * (sc.max - sc.min)
  <2> DEFINE a == Min(V)
             b == Max(V)
  <2>1. \A v \in V : mn - reach <= v /\ v <= mx + reach
    <3>1. \A v \in plotted : mn - reach <= v /\ v <= mx + reach
      BY <1>6, <1>7
    <3>2. \A v \in near : mn - reach <= v /\ v <= mx + reach
      BY <1>5, <1>6
    <3> QED
      BY <3>1, <3>2
  <2>2. a \in Int /\ b \in Int /\ mn - reach <= a /\ b <= mx + reach /\ a <= mn /\ mx <= b
    <3>1. mn \in V /\ mx \in V
      BY <1>7
    <3> HIDE DEF V
    <3> QED
      BY <1>8, <2>1, <3>1
  <2> HIDE DEF a, b
  <2>3. b - a >= 80 => 20 * (sc.max - sc.min) <= 33 * (b - a)
    BY <1>9 DEF a, b
  <2>4. reach = (mx - mn) \div 2
    BY <1>6, <1>11
  <2>5. b - a >= 80 /\ b - a <= 2 * (mx - mn)
    BY <1>7, <1>11, <2>2, <2>4
  <2> QED
    BY <1>7, <1>9, <2>2, <2>3, <2>5
<1>12. 3 * Unit = 120 /\ 6 * Unit = 240
  BY DEF Unit
<1>13. /\ \A v \in plotted \cup near : sc.min <= v /\ v <= sc.max
       /\ Cardinality(sc.ticks) >= 3 /\ \A t \in sc.ticks : sc.min <= t /\ t <= sc.max
       /\ sc.step * plotH(plot) >= TIGHT_PX * (sc.max - sc.min)
       /\ \A f \in lines \ near : f < mn - 3 * Unit \/ f > mx + 3 * Unit
       /\ mx - mn >= 6 * Unit => 10 * (mx - mn) >= 3 * (sc.max - sc.min)
  BY <1>9, <1>10, <1>11, <1>12
<1> QED
  BY <1>13 DEF lines, near, sc, mn, mx

(* The temperature axis holds what is plotted on it, on three to five lines, and *)
(* leaves the readings their height (limit_lines.ts, ticks.ts niceScale), for   *)
(* every reading and limit the sensors and the settings can give.             *)
THEOREM AxisAlwaysHolds == Spec => []AxisHolds
<1>1. ChartsInv => AxisHolds
  BY AxisIs
<1> QED
  BY <1>1, ChartsHolds, PTL

-----------------------------------------------------------------------------
(* The local calendar.                                                      *)

\* A wall time that no instant has.
Skipped(w) == Spring <= w - Std /\ w - Std < Spring + HOUR

(* An instant's wall time is not skipped, and its first instant is that one     *)
(* but in the hour that comes again.                                         *)
LEMMA WallIs ==
  ASSUME NEW t \in Int
  PROVE  /\ Wall(t) \in Int /\ ~ Skipped(Wall(t)) /\ Instant(Wall(t)) \in Int
         /\ Instant(Wall(t)) <= t
         /\ Instant(Wall(t)) = t <=> ~ (Fall <= t /\ t < Fall + HOUR)
<1>1. Std \in Int /\ Spring \in Int /\ Fall \in Int /\ HOUR = 12 /\ Spring + 12 < Fall
  BY TicksAssumption DEF HOUR
<1>2. CASE t < Spring
  BY <1>1, <1>2 DEF Wall, Instant, Skipped
<1>3. CASE Spring <= t /\ t < Fall
  BY <1>1, <1>3 DEF Wall, Instant, Skipped
<1>4. CASE Fall <= t /\ t < Fall + 12
  BY <1>1, <1>4 DEF Wall, Instant, Skipped
<1>5. CASE Fall + 12 <= t
  BY <1>1, <1>5 DEF Wall, Instant, Skipped
<1> QED
  BY <1>1, <1>2, <1>3, <1>4, <1>5

(* A wall time's instant has it, unless it is skipped, and comes later for a    *)
(* later one.                                                                *)
LEMMA InstantIs ==
  ASSUME NEW w \in Int
  PROVE  /\ Instant(w) \in Int /\ (~ Skipped(w) => Wall(Instant(w)) = w)
         /\ w - Std - HOUR <= Instant(w) /\ Instant(w) <= w - Std
<1>1. Std \in Int /\ Spring \in Int /\ Fall \in Int /\ HOUR = 12 /\ Spring + 12 < Fall
  BY TicksAssumption DEF HOUR
<1> QED
  BY <1>1 DEF Wall, Instant, Skipped

LEMMA InstantRises ==
  ASSUME NEW v \in Int, NEW w \in Int, v < w, ~ Skipped(v), ~ Skipped(w)
  PROVE  Instant(v) < Instant(w)
<1>1. Std \in Int /\ Spring \in Int /\ Fall \in Int /\ HOUR = 12 /\ Spring + 12 < Fall
  BY TicksAssumption DEF HOUR
<1> QED
  BY <1>1 DEF Instant, Skipped

(* A window that does not show the hour that is skipped, or the one after.      *)
Calm(t0, tn) == tn < Spring \/ Spring + HOUR <= t0

LEMMA CalmBetween ==
  ASSUME NEW t0 \in Int, NEW tn \in Int, Calm(t0, tn),
         NEW a \in t0 .. tn, NEW b \in t0 .. tn, NEW w \in Int, Wall(a) <= w, w <= Wall(b)
  PROVE  ~ Skipped(w)
<1>1. Std \in Int /\ Spring \in Int /\ Fall \in Int /\ HOUR = 12 /\ Spring + 12 < Fall
  BY TicksAssumption DEF HOUR
<1> QED
  BY <1>1 DEF Wall, Skipped, Calm

(* Later instants that are the first of their wall times have later ones.       *)
LEMMA WallRises ==
  ASSUME NEW a \in Int, NEW b \in Int, a < b, Instant(Wall(a)) = a, Instant(Wall(b)) = b
  PROVE  Wall(a) < Wall(b)
<1>1. /\ Wall(a) \in Int /\ Wall(b) \in Int /\ ~ Skipped(Wall(a)) /\ ~ Skipped(Wall(b))
  BY WallIs
<1>2. Wall(b) < Wall(a) => Instant(Wall(b)) < Instant(Wall(a))
  BY <1>1, InstantRises
<1>3. Wall(b) = Wall(a) => a = b
  OBVIOUS
<1> DEFINE v == Wall(a)
           w == Wall(b)
<1> HIDE DEF v, w
<1>4. v \in Int /\ w \in Int /\ (w < v => b < a) /\ (w = v => a = b)
  BY <1>1, <1>2, <1>3 DEF v, w
<1>5. v < w
  BY <1>4
<1> QED
  BY <1>5 DEF v, w

-----------------------------------------------------------------------------
(* Labels and marks: wall times a step apart, counted from a Monday.          *)

Aligned(w, step) == \E q \in Int : w = MONDAY * DAY + q * step

LEMMA TimeStepsAre ==
  TIME_STEPS = {1, 2, 3, 6, 12, 24, 36, 72, 144, 288, 576, 2016, 4032}
<1>1. HOUR = 12 /\ DAY = 288
  BY DEF HOUR, DAY
<1> QED
  BY <1>1 DEF TIME_STEPS

LEMMA AlignedApart ==
  ASSUME NEW step \in Nat \ {0}, NEW v \in Int, NEW w \in Int,
         Aligned(v, step), Aligned(w, step)
  PROVE  /\ \E j \in Int : w = v + j * step
         /\ v < w => v + step <= w
         /\ \A j \in Int : Aligned(v + j * step, step)
         /\ Aligned(v + step, step)
<1> DEFINE m == MONDAY * DAY
<1>1. m \in Int
  BY DEF MONDAY, DAY, HOUR
<1>2. PICK q \in Int, r \in Int : v = m + q * step /\ w = m + r * step
  BY DEF Aligned
<1> HIDE DEF m
<1>3. /\ q * step \in Int /\ r * step \in Int /\ (r - q) * step = r * step - q * step
      /\ r - q \in Int
  OBVIOUS
<1>4. w = v + (r - q) * step
  BY <1>1, <1>2, <1>3
<1>5. v < w => v + step <= w
  <2> SUFFICES ASSUME v < w PROVE v + step <= w
    OBVIOUS
  <2>1. q * step < r * step
    BY <1>1, <1>2, <1>3
  <2>2. q < r
    BY <2>1, ScaledBetween
  <2>3. (q + 1) * step <= r * step
    <3>1. q + 1 = r \/ q + 1 < r
      BY <2>2
    <3>2. q + 1 < r => (q + 1) * step < r * step
      BY ScaledLess
    <3>3. (q + 1) * step \in Int
      OBVIOUS
    <3> QED
      BY <1>3, <3>1, <3>2, <3>3
  <2>4. (q + 1) * step = q * step + step
    OBVIOUS
  <2> DEFINE x == q * step
             y == r * step
             z == (q + 1) * step
  <2>5. x \in Int /\ y \in Int /\ z = x + step /\ z <= y /\ v = m + x /\ w = m + y
    BY <1>2, <1>3, <2>3, <2>4
  <2> HIDE DEF x, y, z
  <2> QED
    BY <1>1, <2>5
<1>6. \A j \in Int : Aligned(v + j * step, step)
  <2> TAKE j \in Int
  <2>1. q + j \in Int /\ (q + j) * step = q * step + j * step /\ j * step \in Int
    OBVIOUS
  <2>2. v + j * step = m + (q + j) * step
    BY <1>1, <1>2, <1>3, <2>1
  <2> QED
    BY <2>1, <2>2 DEF Aligned, m
<1>7. Aligned(v + step, step)
  <2>1. 1 \in Int /\ 1 * step = step
    OBVIOUS
  <2> QED
    BY <1>6, <2>1
<1> QED
  BY <1>3, <1>4, <1>5, <1>6, <1>7

(* From any wall time on there is one within a step.                         *)
LEMMA AlignedSoon ==
  ASSUME NEW step \in TIME_STEPS, NEW v \in Int
  PROVE  \E w \in Int : v <= w /\ w < v + step /\ Aligned(w, step)
<1> DEFINE u == 1152 - v
           q == -(u \div step)
           w == 1152 + q * step
<1>1. u \in Int
  OBVIOUS
<1> HIDE DEF u
<1>2. u \div step \in Int /\ (u \div step) * step <= u /\ u < (u \div step) * step + step
      /\ (u \div step) * step \in Int
  <2>1. CASE step = 1     BY <1>1, <2>1
  <2>2. CASE step = 2     BY <1>1, <2>2
  <2>3. CASE step = 3     BY <1>1, <2>3
  <2>4. CASE step = 6     BY <1>1, <2>4
  <2>5. CASE step = 12    BY <1>1, <2>5
  <2>6. CASE step = 24    BY <1>1, <2>6
  <2>7. CASE step = 36    BY <1>1, <2>7
  <2>8. CASE step = 72    BY <1>1, <2>8
  <2>9. CASE step = 144   BY <1>1, <2>9
  <2>10. CASE step = 288  BY <1>1, <2>10
  <2>11. CASE step = 576  BY <1>1, <2>11
  <2>12. CASE step = 2016 BY <1>1, <2>12
  <2>13. CASE step = 4032 BY <1>1, <2>13
  <2> QED
    BY <2>1, <2>2, <2>3, <2>4, <2>5, <2>6, <2>7, <2>8, <2>9, <2>10, <2>11, <2>12, <2>13, TimeStepsAre
<1> DEFINE p == u \div step
<1> HIDE DEF p
<1>3. p \in Int /\ p * step <= u /\ u < p * step + step /\ p * step \in Int
  BY <1>2 DEF p
<1>4. step \in Nat \ {0}
  BY TimeStepsAre
<1>5. (-p) * step = -(p * step) /\ -p \in Int
  BY <1>3, <1>4
<1>6. w = 1152 - p * step /\ w \in Int
  <2>1. w = 1152 + (-p) * step
    BY DEF p
  <2> QED
    BY <1>3, <1>5, <2>1
<1>7. v <= w /\ w < v + step
  BY <1>3, <1>4, <1>6 DEF u
<1>8. Aligned(w, step)
  <2>1. MONDAY * DAY = 1152
    BY DEF MONDAY, DAY, HOUR
  <2>2. w = MONDAY * DAY + (-p) * step
    BY <1>3, <1>5, <1>6, <2>1
  <2> QED
    BY <1>5, <2>2 DEF Aligned
<1> QED
  BY <1>6, <1>7, <1>8

(* The instants of a window that a step marks.                              *)
Marked(t0, tn, step) == {t \in t0 .. tn : Aligned(Wall(t), step) /\ Instant(Wall(t)) = t}

(* A marked wall time in the window is marked there.                        *)
LEMMA MarkAt ==
  ASSUME NEW t0 \in Int, NEW tn \in Int, Calm(t0, tn), NEW step,
         NEW a \in t0 .. tn, NEW b \in t0 .. tn, Instant(Wall(a)) = a,
         NEW w \in Int, Wall(a) <= w, w <= Wall(b), Aligned(w, step)
  PROVE  /\ Instant(w) \in Marked(t0, tn, step) /\ Wall(Instant(w)) = w
         /\ a <= Instant(w) /\ Instant(w) <= b
         /\ Wall(a) < w => a < Instant(w)
         /\ Instant(Wall(b)) = b /\ w < Wall(b) => Instant(w) < b
<1> DEFINE c == Instant(w)
<1>1. ~ Skipped(w)
  BY CalmBetween
<1>2. c \in Int /\ Wall(c) = w
  BY <1>1, InstantIs
<1>3. /\ a \in Int /\ b \in Int /\ Wall(a) \in Int /\ Wall(b) \in Int
      /\ ~ Skipped(Wall(a)) /\ ~ Skipped(Wall(b))
      /\ Instant(Wall(b)) \in Int /\ Instant(Wall(b)) <= b
  BY WallIs
<1>4. Wall(a) < w => a < c
  BY <1>1, <1>3, InstantRises
<1>5. w < Wall(b) => c < Instant(Wall(b))
  BY <1>1, <1>3, InstantRises
<1>6. Wall(a) = w => a = c
  OBVIOUS
<1>7. w = Wall(b) => c = Instant(Wall(b))
  OBVIOUS
<1> HIDE DEF c
<1>8. a <= c
  <2>1. Wall(a) < w \/ Wall(a) = w
    BY <1>3
  <2> QED
    BY <1>2, <1>3, <1>4, <1>6, <2>1
<1>9. c <= b
  <2>1. w < Wall(b) \/ w = Wall(b)
    BY <1>3
  <2> QED
    BY <1>2, <1>3, <1>5, <1>7, <2>1
<1>10. c \in t0 .. tn
  BY <1>2, <1>8, <1>9
<1>11. Instant(Wall(c)) = c
  BY <1>2 DEF c
<1>12. c \in Marked(t0, tn, step)
  BY <1>2, <1>10, <1>11 DEF Marked
<1> QED
  BY <1>2, <1>4, <1>5, <1>8, <1>9, <1>12 DEF c

-----------------------------------------------------------------------------
(* The ticks of a window.                                                   *)

Rising(out) == \A i, j \in 1 .. Len(out) : i < j => out[i] < out[j]

Holds(out, S) == out \in Seq(Int) /\ Rising(out) /\ ToSet(out) = S

(* A tick no earlier than those before it is put after them, once.           *)
LEMMA TickPushed ==
  ASSUME NEW out, NEW S, Holds(out, S), NEW t \in Int, NEW t0 \in Int, \A x \in S : x <= t
  PROVE  /\ t >= t0 => Holds(push(out, t, t0), S \cup {t})
         /\ t < t0 => push(out, t, t0) = out
<1> DEFINE L == Len(out)
           Z == Int
           next == Append(out, t)
<1>1. /\ L \in Nat /\ DOMAIN out = 1 .. L /\ \A i \in 1 .. L : out[i] \in Int
      /\ out \in Seq(Int)
  BY ElementOfSeq, LenProperties DEF Holds
<1>2. S = {out[i] : i \in 1 .. L}
  BY <1>1 DEF Holds, ToSet
<1>3. out # << >> <=> L # 0
  BY <1>1, EmptySeq
<1>4. Last(out) = out[L]
  BY DEF Last
<1>5. CASE out # << >> /\ Last(out) = t
  <2>1. push(out, t, t0) = out
    BY <1>5 DEF push
  <2>2. L \in 1 .. L
    BY <1>1, <1>3, <1>5
  <2>3. t \in S
    BY <1>2, <1>4, <1>5, <2>2
  <2>4. S \cup {t} = S
    BY <2>3
  <2> QED
    BY <2>1, <2>4
<1>6. CASE ~ (out # << >> /\ Last(out) = t)
  <2>1. push(out, t, t0) = IF t < t0 THEN out ELSE next
    BY <1>6 DEF push
  <2>2. /\ next \in Seq(Int) /\ Len(next) = L + 1 /\ next[L + 1] = t
        /\ \A i \in 1 .. L : next[i] = out[i]
    <3>1. out \in Seq(Z) /\ t \in Z
      BY <1>1
    <3> HIDE DEF Z
    <3>2. /\ next \in Seq(Z) /\ Len(next) = L + 1 /\ next[L + 1] = t
          /\ \A i \in 1 .. L : next[i] = out[i]
      BY <3>1, AppendProperties
    <3> QED
      BY <3>2 DEF Z
  <2> HIDE DEF next
  <2>3. \A i \in 1 .. L : out[i] < t
    <3> TAKE i \in 1 .. L
    <3>1. L \in 1 .. L /\ L # 0
      BY <1>1
    <3>2. out[i] <= out[L] /\ out[i] \in Int /\ out[L] \in Int
      <4>1. i < L => out[i] < out[L]
        BY <3>1 DEF Holds, Rising
      <4> DEFINE x == out[i]
                 y == out[L]
      <4>2. x \in Int /\ y \in Int /\ (i < L => x < y) /\ (i = L => x = y)
        BY <1>1, <3>1, <4>1
      <4> HIDE DEF L, x, y
      <4>3. i < L \/ i = L
        BY <1>1
      <4>4. x <= y
        BY <4>2, <4>3
      <4> QED
        BY <4>2, <4>4 DEF x, y
    <3>3. out[L] # t /\ out[L] <= t
      BY <1>2, <1>3, <1>4, <1>6, <3>1
    <3> QED
      BY <3>2, <3>3
  <2> HIDE DEF L
  <2>4. \A i \in 1 .. (L + 1) : i \in 1 .. L \/ i = L + 1
    BY <1>1
  <2>5. Rising(next)
    <3> SUFFICES ASSUME NEW i \in 1 .. (L + 1), NEW j \in 1 .. (L + 1), i < j
                 PROVE  next[i] < next[j]
      BY <2>2 DEF Rising
    <3>1. i \in 1 .. L
      BY <1>1
    <3>2. CASE j \in 1 .. L
      <4>1. out[i] < out[j]
        BY <3>1, <3>2 DEF Holds, Rising, L
      <4> QED
        BY <2>2, <3>1, <3>2, <4>1
    <3>3. CASE j = L + 1
      BY <2>2, <2>3, <3>1, <3>3
    <3> QED
      BY <2>4, <3>2, <3>3
  <2>6. ToSet(next) = S \cup {t}
    <3>1. DOMAIN next = 1 .. (L + 1)
      BY <2>2, LenProperties
    <3>2. ToSet(next) = {next[i] : i \in 1 .. (L + 1)}
      BY <3>1 DEF ToSet
    <3>3. L + 1 \in 1 .. (L + 1) /\ \A i \in 1 .. L : i \in 1 .. (L + 1)
      BY <1>1
    <3>4. \A i \in 1 .. (L + 1) : next[i] \in S \cup {t}
      BY <1>2, <2>2, <2>4
    <3>5. \A x \in S \cup {t} : \E i \in 1 .. (L + 1) : next[i] = x
      BY <1>2, <2>2, <3>3
    <3> QED
      BY <3>2, <3>4, <3>5
  <2>7. Holds(next, S \cup {t})
    BY <2>2, <2>5, <2>6 DEF Holds
  <2> QED
    BY <1>1, <2>1, <2>7
<1> QED
  BY <1>5, <1>6

(* The slots of a window's days: where each is, and which ones are due.       *)
Midnight(t0)     == Wall(t0) - (Wall(t0) % DAY)
Unit_(step)      == IF step < DAY THEN step ELSE DAY
At(t0, step, k)  == Instant(Midnight(t0) + (k - 1) * Unit_(step))
Due(t0, step, k) ==
  step < DAY \/ ((Midnight(t0) \div DAY) + k - 1 - MONDAY) % (step \div DAY) = 0

(* Those up to the k-th that are due and in the window.                      *)
Ticked(t0, step, k) == {At(t0, step, i) : i \in {i \in 1 .. k : Due(t0, step, i) /\ At(t0, step, i) >= t0}}

LEMMA SlotsAre ==
  ASSUME NEW t0 \in Int, NEW step \in TIME_STEPS
  PROVE  /\ Midnight(t0) \in Int /\ Midnight(t0) <= Wall(t0) /\ Wall(t0) < Midnight(t0) + DAY
         /\ \E d \in Int : Midnight(t0) = d * DAY /\ Midnight(t0) \div DAY = d
         /\ Unit_(step) \in Nat \ {0}
         /\ \A k \in Nat : (k - 1) * Unit_(step) \in Int /\ At(t0, step, k) \in Int
<1>1. Wall(t0) \in Int
  BY WallIs
<1>2. DAY = 288
  BY DEF DAY, HOUR
<1>3. /\ Midnight(t0) \in Int /\ Midnight(t0) <= Wall(t0) /\ Wall(t0) < Midnight(t0) + DAY
      /\ Midnight(t0) = (Wall(t0) \div DAY) * DAY /\ Midnight(t0) \div DAY = Wall(t0) \div DAY
  BY <1>1, <1>2 DEF Midnight
<1>4. Wall(t0) \div DAY \in Int
  BY <1>1, <1>2
<1>5. Unit_(step) \in Nat \ {0}
  BY <1>2, TimeStepsAre DEF Unit_
<1>6. ASSUME NEW k \in Nat PROVE (k - 1) * Unit_(step) \in Int /\ At(t0, step, k) \in Int
  <2> DEFINE u == Unit_(step)
             m == Midnight(t0)
  <2>1. u \in Nat /\ m \in Int
    BY <1>3, <1>5
  <2> HIDE DEF u, m
  <2>2. (k - 1) * u \in Int
    BY <2>1
  <2>3. m + (k - 1) * u \in Int
    BY <2>1, <2>2
  <2> QED
    BY <2>2, <2>3, InstantIs DEF At, u, m
<1> QED
  BY <1>3, <1>4, <1>5, <1>6

(* The slots in the window come in their order, when it does not show the hour   *)
(* that is skipped or the step is an hour and more.                          *)
LEMMA SlotsRise ==
  ASSUME NEW t0 \in Int, NEW tn \in Int, NEW step \in TIME_STEPS,
         Calm(t0, tn) \/ step >= HOUR,
         NEW i \in Nat \ {0}, NEW j \in Nat \ {0}, i < j,
         At(t0, step, i) >= t0, At(t0, step, j) <= tn
  PROVE  At(t0, step, i) <= At(t0, step, j)
<1> DEFINE u == Unit_(step)
           m == Midnight(t0)
           v == m + (i - 1) * u
           w == m + (j - 1) * u
<1>1. Std \in Int /\ Spring \in Int /\ Fall \in Int /\ HOUR = 12 /\ Spring + 12 < Fall /\ DAY = 288
  BY TicksAssumption DEF HOUR, DAY
<1>2. m \in Int /\ u \in Nat \ {0} /\ (step >= HOUR => u >= 12)
  <2>1. step \in Nat
    BY TimeStepsAre
  <2>2. step >= HOUR => Unit_(step) >= 12
    BY <1>1, <2>1 DEF Unit_
  <2> QED
    BY <2>2, SlotsAre
<1>3. At(t0, step, i) = Instant(v) /\ At(t0, step, j) = Instant(w)
  BY DEF At
<1> HIDE DEF u, m
<1>4. v \in Int /\ w \in Int /\ v + u <= w
  <2>1. (i - 1) * u \in Int /\ (j - 1) * u \in Int
    BY <1>2
  <2>2. i * u <= (j - 1) * u
    <3>1. i = j - 1 \/ i < j - 1
      OBVIOUS
    <3>2. i < j - 1 => i * u < (j - 1) * u
      BY <1>2, ScaledLess
    <3>3. i * u \in Int
      BY <1>2
    <3> QED
      BY <2>1, <3>1, <3>2, <3>3
  <2>3. i * u = (i - 1) * u + u
    BY <1>2
  <2> DEFINE x == (i - 1) * u
             y == (j - 1) * u
  <2>4. x \in Int /\ y \in Int /\ x + u <= y
    BY <1>2, <2>1, <2>2, <2>3
  <2> HIDE DEF x, y
  <2>5. m + x \in Int /\ m + y \in Int /\ (m + x) + u <= m + y
    BY <1>2, <2>4
  <2> QED
    BY <2>5 DEF x, y
<1> HIDE DEF v, w
<1>5. Instant(v) >= t0 /\ Instant(w) <= tn
  BY <1>3
<1>6. Instant(v) <= Instant(w)
  <2>1. CASE step >= HOUR
    <3>1. v + 12 <= w
      BY <1>2, <1>4, <2>1
    <3> QED
      BY <1>1, <1>4, <3>1 DEF Instant
  <2>2. CASE tn < Spring
    <3>1. v < w
      BY <1>2, <1>4
    <3> QED
      BY <1>1, <1>4, <1>5, <2>2, <3>1 DEF Instant
  <2>3. CASE Spring + HOUR <= t0
    <3>1. v < w
      BY <1>2, <1>4
    <3> QED
      BY <1>1, <1>4, <1>5, <2>3, <3>1 DEF Instant
  <2> QED
    BY <2>1, <2>2, <2>3 DEF Calm
<1> QED
  BY <1>3, <1>6

(* One more slot is a tick when it is due and in the window.                  *)
TickStep(out, t0, step, k) == IF Due(t0, step, k) THEN push(out, At(t0, step, k), t0) ELSE out

LEMMA TickGrows ==
  ASSUME NEW t0 \in Int, NEW tn \in Int, NEW step \in TIME_STEPS,
         Calm(t0, tn) \/ step >= HOUR,
         NEW k \in Nat, At(t0, step, k + 1) <= tn, NEW out, Holds(out, Ticked(t0, step, k))
  PROVE  Holds(TickStep(out, t0, step, k + 1), Ticked(t0, step, k + 1))
<1> DEFINE t == At(t0, step, k + 1)
           S == Ticked(t0, step, k)
<1>1. t \in Int /\ k + 1 \in Nat \ {0}
  <2> DEFINE j == k + 1
  <2>1. j \in Nat /\ j # 0
    OBVIOUS
  <2> HIDE DEF j
  <2>2. At(t0, step, j) \in Int
    BY <2>1, SlotsAre
  <2> QED
    BY <2>1, <2>2 DEF j
<1>2. \A i \in 1 .. (k + 1) : i \in 1 .. k \/ i = k + 1
  OBVIOUS
<1>3. \A i \in 1 .. k : i \in 1 .. (k + 1) /\ i \in Nat \ {0} /\ i < k + 1
  OBVIOUS
<1>4. k + 1 \in 1 .. (k + 1)
  OBVIOUS
<1>5. ASSUME Due(t0, step, k + 1), t >= t0 PROVE Ticked(t0, step, k + 1) = S \cup {t}
  BY <1>2, <1>3, <1>4, <1>5 DEF Ticked
<1>6. ASSUME ~ (Due(t0, step, k + 1) /\ t >= t0) PROVE Ticked(t0, step, k + 1) = S
  BY <1>2, <1>3, <1>6 DEF Ticked
<1>7. CASE Due(t0, step, k + 1) /\ t >= t0
  <2>1. \A x \in S : x <= t
    <3> SUFFICES ASSUME NEW i \in 1 .. k, At(t0, step, i) >= t0 PROVE At(t0, step, i) <= t
      BY DEF Ticked
    <3> QED
      BY <1>1, <1>3, SlotsRise
  <2>2. Holds(push(out, t, t0), S \cup {t})
    <3> HIDE DEF t, S
    <3>1. Holds(out, S)
      BY DEF S
    <3> QED
      BY <1>1, <1>7, <2>1, <3>1, TickPushed
  <2> QED
    BY <1>5, <1>7, <2>2 DEF TickStep
<1>8. CASE Due(t0, step, k + 1) /\ ~ (t >= t0)
  <2>1. t < t0
    BY <1>1, <1>8
  <2>2. push(out, t, t0) = out
    BY <2>1 DEF push
  <2> QED
    BY <1>6, <1>8, <2>2 DEF TickStep
<1>9. CASE ~ Due(t0, step, k + 1)
  BY <1>6, <1>9 DEF TickStep
<1> QED
  BY <1>7, <1>8, <1>9

(* Some slot is past the window.                                            *)
LEMMA SlotsEnd ==
  ASSUME NEW t0 \in Int, NEW tn \in Int, t0 < tn, NEW step \in TIME_STEPS
  PROVE  LET N == (tn - t0 + DAY + HOUR) \div Unit_(step) + 2
         IN  N \in Nat \ {0} /\ At(t0, step, N) > tn
<1> DEFINE u == Unit_(step)
           c == tn - t0 + DAY + HOUR
           N == c \div u + 2
           m == Midnight(t0)
<1>1. HOUR = 12 /\ DAY = 288 /\ Std \in Int
  BY TicksAssumption DEF HOUR, DAY
<1>2. c \in Nat
  BY <1>1
<1>3. u \in {1, 2, 3, 6, 12, 24, 36, 72, 144, 288}
  BY <1>1, TimeStepsAre DEF Unit_
<1>4. m \in Int /\ m > Wall(t0) - 288 /\ Wall(t0) \in Int /\ Wall(t0) >= t0 + Std
  <2>1. Wall(t0) >= t0 + Std
    BY <1>1, TicksAssumption DEF Wall
  <2>2. m \in Int /\ Wall(t0) < m + DAY
    BY SlotsAre
  <2>3. Wall(t0) \in Int
    BY WallIs
  <2> HIDE DEF m
  <2> QED
    BY <1>1, <2>1, <2>2, <2>3
<1> HIDE DEF c, u, m
<1>5. c \div u \in Nat /\ (c \div u + 1) * u \in Int /\ (c \div u + 1) * u > c
  <2>1. CASE u = 1     BY <1>2, <2>1
  <2>2. CASE u = 2     BY <1>2, <2>2
  <2>3. CASE u = 3     BY <1>2, <2>3
  <2>4. CASE u = 6     BY <1>2, <2>4
  <2>5. CASE u = 12    BY <1>2, <2>5
  <2>6. CASE u = 24    BY <1>2, <2>6
  <2>7. CASE u = 36    BY <1>2, <2>7
  <2>8. CASE u = 72    BY <1>2, <2>8
  <2>9. CASE u = 144   BY <1>2, <2>9
  <2>10. CASE u = 288  BY <1>2, <2>10
  <2> QED
    BY <1>3, <2>1, <2>2, <2>3, <2>4, <2>5, <2>6, <2>7, <2>8, <2>9, <2>10
<1>6. N \in Nat \ {0} /\ N - 1 = c \div u + 1
  BY <1>5
<1> DEFINE x == (c \div u + 1) * u
<1>7. At(t0, step, N) = Instant(m + x)
  BY <1>6 DEF At, m, u
<1>8. x \in Int /\ x > c
  BY <1>5
<1> HIDE DEF x
<1>9. m + x \in Int
  BY <1>4, <1>8
<1>10. Instant(m + x) \in Int /\ Instant(m + x) >= m + x - Std - 12
  <2> DEFINE w == m + x
  <2>1. w \in Int
    BY <1>9
  <2> HIDE DEF w
  <2>2. Instant(w) \in Int /\ w - Std - HOUR <= Instant(w)
    BY <2>1, InstantIs
  <2>3. Instant(w) >= w - Std - 12
    BY <1>1, <2>1, <2>2
  <2> QED
    BY <1>1, <1>4, <1>8, <2>2, <2>3 DEF w
<1>11. Instant(m + x) > tn
  BY <1>1, <1>4, <1>8, <1>10 DEF c
<1> QED
  BY <1>6, <1>7, <1>11 DEF c, u

(* The ticks are the slots that are due and in the window, rising.            *)
LEMMA TicksAre ==
  ASSUME NEW t0 \in Int, NEW tn \in Int, t0 < tn, NEW step \in TIME_STEPS,
         Calm(t0, tn) \/ step >= HOUR
  PROVE  \E last \in Nat :
           /\ At(t0, step, last + 1) > tn /\ \A i \in 1 .. last : At(t0, step, i) <= tn
           /\ Holds(timeTicks(t0, tn, step), Ticked(t0, step, last))
<1> DEFINE N == (tn - t0 + DAY + HOUR) \div Unit_(step) + 2
           K == {k \in 1 .. N : At(t0, step, k) > tn}
           last == Min(K) - 1
           F == {k \in 0 .. last : k = last \/ At(t0, step, k + 1) >= t0}
           from == Min(F)
           next(f, k) == TickStep(f[k - 1], t0, step, k)
           sweep == CHOOSE f : f = [k \in from .. last |-> IF k = from THEN << >> ELSE next(f, k)]
<1>1. N \in Nat \ {0} /\ At(t0, step, N) > tn
  BY SlotsEnd
<1>2. timeTicks(t0, tn, step) = sweep[last]
  BY DEF timeTicks, At, Due, Midnight, Unit_, slot, TickStep
<1> HIDE DEF N
<1>3. /\ last \in Nat /\ At(t0, step, last + 1) > tn
      /\ \A i \in 1 .. last : At(t0, step, i) <= tn
  <2>1. K \in SUBSET Nat /\ N \in K
    BY <1>1
  <2>2. Min(K) \in K /\ \A k \in K : Min(K) <= k
    <3> HIDE DEF K
    <3> QED
      BY <2>1, LeastOf
  <2>3. Min(K) \in 1 .. N /\ At(t0, step, Min(K)) > tn
    BY <2>2
  <2>4. last \in Nat /\ last + 1 = Min(K) /\ last < N
    <3> DEFINE a == Min(K)
    <3>1. a \in 1 .. N
      BY <2>3
    <3> HIDE DEF a
    <3>2. a - 1 \in Nat /\ (a - 1) + 1 = a /\ a - 1 < N
      BY <1>1, <3>1
    <3> QED
      BY <3>2 DEF a
  <2>5. ASSUME NEW i \in 1 .. last PROVE At(t0, step, i) <= tn
    <3>1. i \in 1 .. N /\ i < Min(K) /\ i \in Nat
      <4> DEFINE a == Min(K)
      <4>1. a \in Int /\ i \in 1 .. (a - 1) /\ a - 1 < N
        BY <2>3, <2>4
      <4> HIDE DEF a
      <4>2. i \in 1 .. N /\ i < a /\ i \in Nat
        BY <1>1, <4>1
      <4> QED
        BY <4>2 DEF a
    <3>2. i \notin K
      <4> DEFINE a == Min(K)
      <4>1. a \in Int /\ i < a /\ (i \in K => a <= i)
        BY <2>2, <2>3, <3>1
      <4> HIDE DEF a, K
      <4> QED
        BY <3>1, <4>1
    <3>3. At(t0, step, i) \in Int
      BY <3>1, SlotsAre
    <3> QED
      BY <3>1, <3>2, <3>3
  <2> QED
    BY <2>3, <2>4, <2>5
<1> HIDE DEF K, last
<1>4. from \in 0 .. last /\ \A i \in 1 .. from : At(t0, step, i) < t0
  <2>1. F \in SUBSET Nat /\ last \in F
    BY <1>3
  <2>2. from \in F /\ \A k \in F : from <= k
    <3> HIDE DEF F
    <3> QED
      BY <2>1, LeastOf
  <2>3. from \in 0 .. last
    BY <2>2
  <2>4. ASSUME NEW i \in 1 .. from PROVE At(t0, step, i) < t0
    <3> HIDE DEF from
    <3>1. i - 1 \in 0 .. last /\ i - 1 < from /\ (i - 1) + 1 = i /\ i - 1 \in Nat /\ i \in Nat
      BY <1>3, <2>3
    <3>2. i - 1 \notin F
      <4> HIDE DEF F
      <4> QED
        BY <2>2, <2>3, <3>1
    <3>3. ~ (At(t0, step, i) >= t0)
      BY <3>1, <3>2
    <3>4. At(t0, step, i) \in Int
      BY <3>1, SlotsAre
    <3> QED
      BY <3>3, <3>4
  <2> QED
    BY <2>3, <2>4
<1> HIDE DEF F, from
<1> DEFINE S == Seq(Int)
           m == last - from
<1>5. /\ m \in Nat /\ \A i \in from .. last : i - from \in 0 .. m
      /\ \A k \in from .. last : k # from => k - 1 \in from .. last /\ k - from \in 1 .. m
                                             /\ (k - 1) - from = (k - from) - 1
                                             /\ from + (k - from) = k
  BY <1>3, <1>4
<1>6. \A s \in S, k \in Nat : TickStep(s, t0, step, k) \in S
  <2> TAKE s \in S, k \in Nat
  <2> DEFINE t == At(t0, step, k)
             Z == Int
  <2>1. t \in Z
    BY SlotsAre
  <2>2. s \in Seq(Z)
    OBVIOUS
  <2> HIDE DEF t, Z
  <2>3. Append(s, t) \in Seq(Z)
    BY <2>1, <2>2, AppendProperties
  <2>4. push(s, t, t0) = s \/ push(s, t, t0) = Append(s, t)
    BY DEF push
  <2>5. push(s, t, t0) \in Seq(Z)
    BY <2>2, <2>3, <2>4
  <2> QED
    BY <2>5 DEF TickStep, t, Z
<1>7. \E f : f = [k \in from .. last |-> IF k = from THEN << >> ELSE next(f, k)]
  <2> DEFINE g == [p \in S \X Nat |-> TickStep(p[1], t0, step, from + p[2])]
             e == << >>
  <2>1. g \in [S \X Nat -> S]
    <3>1. \A p \in S \X Nat : p[1] \in S /\ from + p[2] \in Nat
      BY <1>3, <1>4
    <3> HIDE DEF S
    <3> QED
      BY <1>6, <3>1
  <2>2. e \in S
    BY EmptySeq
  <2>3. \A s \in S, k \in Nat : g[<<s, k>>] = TickStep(s, t0, step, from + k)
    OBVIOUS
  <2> HIDE DEF g, e, S, m
  <2>4. PICK h : SweepOf(h, S, g, e, m)
    BY <1>5, <2>1, <2>2, SweepExists
  <2>5. h \in [0 .. m -> S] /\ h[0] = e /\ \A k \in 1 .. m : h[k] = g[<<h[k - 1], k>>]
    BY <2>4 DEF SweepOf
  <2> DEFINE f == [k \in from .. last |-> h[k - from]]
  <2>6. \A k \in from .. last : f[k] = h[k - from]
    OBVIOUS
  <2>7. ASSUME NEW k \in from .. last PROVE f[k] = IF k = from THEN << >> ELSE next(f, k)
    <3> HIDE DEF f
    <3>1. CASE k = from
      <4>1. k - from = 0
        BY <1>3, <1>4, <3>1
      <4> QED
        BY <2>5, <2>6, <3>1, <4>1 DEF e
    <3>2. CASE k # from
      <4>1. k - 1 \in from .. last /\ k - from \in 1 .. m /\ (k - 1) - from = (k - from) - 1
            /\ from + (k - from) = k
        BY <1>5, <3>2
      <4>2. k - from \in Nat /\ (k - 1) - from \in 0 .. m
        BY <1>5, <4>1
      <4>3. h[k - from] = g[<<h[(k - 1) - from], k - from>>]
        BY <2>5, <4>1
      <4>4. h[(k - 1) - from] \in S
        BY <2>5, <4>2
      <4>5. h[k - from] = TickStep(h[(k - 1) - from], t0, step, k)
        BY <2>3, <4>1, <4>2, <4>3, <4>4
      <4> QED
        BY <2>6, <3>2, <4>1, <4>5
    <3> QED
      BY <3>1, <3>2
  <2>8. f = [k \in from .. last |-> IF k = from THEN << >> ELSE next(f, k)]
    <3>1. f = [k \in from .. last |-> f[k]]
      OBVIOUS
    <3> HIDE DEF f
    <3> DEFINE b(k) == IF k = from THEN << >> ELSE next(f, k)
    <3>2. \A k \in from .. last : f[k] = b(k)
      BY <2>7
    <3> HIDE DEF b
    <3>3. f = [k \in from .. last |-> b(k)]
      BY <3>1, <3>2
    <3> QED
      BY <3>3 DEF b
  <2> HIDE DEF f
  <2> QED
    BY <2>8
<1>8. sweep = [k \in from .. last |-> IF k = from THEN << >> ELSE next(sweep, k)]
  BY <1>7
<1> HIDE DEF sweep
<1>9. sweep[from] = << >> /\ \A k \in from .. last : k # from => sweep[k] = next(sweep, k)
  <2> DEFINE b(k) == IF k = from THEN << >> ELSE next(sweep, k)
  <2>1. \A k \in from .. last : sweep[k] = b(k)
    BY <1>8, Zenon
  <2>2. from \in from .. last
    BY <1>3, <1>4
  <2> QED
    BY <2>1, <2>2
<1> DEFINE Q == {j \in Nat : from + j <= last =>
                              Holds(sweep[from + j], Ticked(t0, step, from + j))}
<1>10. 0 \in Q
  <2>1. from + 0 = from
    BY <1>3, <1>4
  <2>2. Ticked(t0, step, from) = {}
    <3> SUFFICES ASSUME NEW i \in 1 .. from, At(t0, step, i) >= t0 PROVE FALSE
      BY DEF Ticked
    <3>1. At(t0, step, i) < t0 /\ i \in Nat
      BY <1>3, <1>4
    <3>2. At(t0, step, i) \in Int
      BY <3>1, SlotsAre
    <3> QED
      BY <3>1, <3>2
  <2>3. Holds(<< >>, {})
    <3> DEFINE e == << >>
    <3>1. e \in Seq(Int) /\ Len(e) = 0 /\ DOMAIN e = {}
      BY EmptySeq
    <3> HIDE DEF e
    <3>2. Rising(e)
      BY <3>1 DEF Rising
    <3>3. ToSet(e) = {}
      BY <3>1 DEF ToSet
    <3> QED
      BY <3>1, <3>2, <3>3 DEF Holds, e
  <2> QED
    BY <1>9, <2>1, <2>2, <2>3
<1>11. ASSUME NEW j \in Nat, j \in Q PROVE j + 1 \in Q
  <2> SUFFICES ASSUME from + (j + 1) <= last
               PROVE  Holds(sweep[from + (j + 1)], Ticked(t0, step, from + (j + 1)))
    OBVIOUS
  <2> DEFINE k == from + j
  <2>1. /\ k \in Nat /\ k <= last /\ from + (j + 1) = k + 1 /\ k + 1 \in from .. last /\ k + 1 # from
        /\ (k + 1) - 1 = k /\ k + 1 \in 1 .. last
    BY <1>3, <1>4
  <2>2. Holds(sweep[k], Ticked(t0, step, k))
    BY <1>11, <2>1
  <2> HIDE DEF k
  <2>3. sweep[k + 1] = TickStep(sweep[k], t0, step, k + 1)
    BY <1>9, <2>1
  <2>4. At(t0, step, k + 1) <= tn
    BY <1>3, <2>1
  <2>5. Holds(TickStep(sweep[k], t0, step, k + 1), Ticked(t0, step, k + 1))
    BY <2>1, <2>2, <2>4, TickGrows
  <2> QED
    BY <2>1, <2>3, <2>5
<1>12. m \in Q
  <2> HIDE DEF Q, m
  <2> QED
    BY <1>5, <1>10, <1>11, Climbs
<1>13. from + m = last /\ last <= last
  BY <1>3, <1>4
<1>14. Holds(sweep[last], Ticked(t0, step, last))
  <2>1. from + m <= last => Holds(sweep[from + m], Ticked(t0, step, from + m))
    BY <1>12
  <2> HIDE DEF m
  <2> QED
    BY <1>13, <2>1
<1> QED
  BY <1>2, <1>3, <1>14

(* A slot is due when its wall time is a step's, and every wall time of a step   *)
(* is a slot's of any day.                                                   *)
LEMMA SlotAligned ==
  ASSUME NEW step \in TIME_STEPS, NEW d \in Int
  PROVE  /\ \A j \in Int : (step < DAY \/ (d + j - MONDAY) % (step \div DAY) = 0)
                             <=> Aligned(d * DAY + j * Unit_(step), step)
         /\ \A w \in Int : Aligned(w, step) => \E j \in Int : w = d * DAY + j * Unit_(step)
<1>1. DAY = 288 /\ MONDAY = 4 /\ MONDAY * DAY = 1152
  BY DEF DAY, HOUR, MONDAY
<1>2. step \in Nat \ {0}
  BY TimeStepsAre
<1>3. CASE step < DAY
  <2>1. Unit_(step) = step
    BY <1>3 DEF Unit_
  <2>2. PICK r \in Nat : 288 = r * step
    <3>1. \/ 288 = 288 * step \/ 288 = 144 * step \/ 288 = 96 * step \/ 288 = 48 * step
          \/ 288 = 24 * step \/ 288 = 12 * step \/ 288 = 8 * step \/ 288 = 4 * step
          \/ 288 = 2 * step
      BY <1>1, <1>3, TimeStepsAre
    <3> QED
      BY <3>1
  <2> DEFINE e == (d - 4) * r
  <2>3. e \in Int /\ e * step = (d - 4) * 288 /\ (d - 4) * 288 = d * 288 - 1152
    <3>1. ((d - 4) * r) * step = (d - 4) * (r * step)
      BY <1>2
    <3> QED
      BY <2>2, <3>1
  <2> HIDE DEF e
  <2>4. e * step \in Int /\ e * step = d * 288 - 1152
    BY <2>3
  <2>5. ASSUME NEW j \in Int PROVE Aligned(d * 288 + j * step, step)
    <3>1. e + j \in Int /\ (e + j) * step = e * step + j * step /\ j * step \in Int
      BY <1>2, <2>3
    <3> DEFINE x == e * step
               y == j * step
               z == (e + j) * step
    <3>2. x \in Int /\ x = d * 288 - 1152 /\ y \in Int /\ z = x + y
      BY <2>4, <3>1
    <3> HIDE DEF x, y, z
    <3>3. d * 288 + y = 1152 + z
      BY <3>2
    <3> QED
      BY <1>1, <3>1, <3>3 DEF Aligned, y, z
  <2>6. ASSUME NEW w \in Int, Aligned(w, step) PROVE \E j \in Int : w = d * 288 + j * step
    <3>1. PICK q \in Int : w = 1152 + q * step
      BY <1>1, <2>6 DEF Aligned
    <3>2. q - e \in Int /\ (q - e) * step = q * step - e * step /\ q * step \in Int
      BY <1>2, <2>3
    <3> DEFINE x == e * step
               y == q * step
               z == (q - e) * step
    <3>3. x \in Int /\ x = d * 288 - 1152 /\ y \in Int /\ z = y - x /\ w = 1152 + y
      BY <2>4, <3>1, <3>2
    <3> HIDE DEF x, y, z
    <3>4. w = d * 288 + z
      BY <3>3
    <3> QED
      BY <3>2, <3>4 DEF z
  <2> QED
    BY <1>1, <1>3, <2>1, <2>5, <2>6
<1>4. CASE ~ (step < DAY)
  <2>1. Unit_(step) = 288
    BY <1>1, <1>4 DEF Unit_
  <2>2. step \div 288 \in {1, 2, 7, 14} /\ step = (step \div 288) * 288
    BY <1>1, <1>4, TimeStepsAre
  <2> DEFINE r == step \div 288
  <2> HIDE DEF r
  <2>3. r \in {1, 2, 7, 14} /\ step = r * 288
    BY <2>2 DEF r
  <2>4. ASSUME NEW x \in Int PROVE x % r = 0 <=> \E q \in Int : x = q * r
    <3>1. CASE r = 1   BY <3>1
    <3>2. CASE r = 2
      <4>1. x % 2 = 0 => x = (x \div 2) * 2 /\ x \div 2 \in Int
        OBVIOUS
      <4>2. \A q \in Int : x = q * 2 => x % 2 = 0
        OBVIOUS
      <4> QED
        BY <3>2, <4>1, <4>2
    <3>3. CASE r = 7
      <4>1. x % 7 = 0 => x = (x \div 7) * 7 /\ x \div 7 \in Int
        OBVIOUS
      <4>2. \A q \in Int : x = q * 7 => x % 7 = 0
        OBVIOUS
      <4> QED
        BY <3>3, <4>1, <4>2
    <3>4. CASE r = 14
      <4>1. x % 14 = 0 => x = (x \div 14) * 14 /\ x \div 14 \in Int
        OBVIOUS
      <4>2. \A q \in Int : x = q * 14 => x % 14 = 0
        OBVIOUS
      <4> QED
        BY <3>4, <4>1, <4>2
    <3> QED
      BY <2>3, <3>1, <3>2, <3>3, <3>4
  <2>5. \A q \in Int : q * r \in Int /\ q * step = (q * r) * 288
    <3>1. CASE r = 1   BY <2>3, <3>1
    <3>2. CASE r = 2   BY <2>3, <3>2
    <3>3. CASE r = 7   BY <2>3, <3>3
    <3>4. CASE r = 14  BY <2>3, <3>4
    <3> QED
      BY <2>3, <3>1, <3>2, <3>3, <3>4
  <2>6. ASSUME NEW j \in Int
        PROVE  (d + j - 4) % r = 0 <=> Aligned(d * 288 + j * 288, step)
    <3> DEFINE x == d + j - 4
    <3>1. x \in Int /\ d * 288 + j * 288 = 1152 + x * 288
      OBVIOUS
    <3> HIDE DEF x
    <3>2. \A q \in Int : x = q * r <=> 1152 + x * 288 = 1152 + q * step
      BY <2>5, <3>1
    <3>3. Aligned(1152 + x * 288, step) <=> \E q \in Int : 1152 + x * 288 = 1152 + q * step
      BY <1>1 DEF Aligned
    <3>4. x % r = 0 <=> Aligned(1152 + x * 288, step)
      BY <2>4, <3>1, <3>2, <3>3
    <3> QED
      BY <3>1, <3>4 DEF x
  <2>7. ASSUME NEW w \in Int, Aligned(w, step) PROVE \E j \in Int : w = d * 288 + j * 288
    <3>1. PICK q \in Int : w = 1152 + q * step
      BY <1>1, <2>7 DEF Aligned
    <3> DEFINE p == q * r
    <3>2. p \in Int /\ w = 1152 + p * 288
      BY <2>5, <3>1
    <3> HIDE DEF p
    <3>3. p + 4 - d \in Int /\ w = d * 288 + (p + 4 - d) * 288
      BY <3>2
    <3> QED
      BY <3>3
  <2> QED
    BY <1>1, <1>4, <2>1, <2>6, <2>7 DEF r
<1> QED
  BY <1>3, <1>4

(* In such a window they are the instants the step marks.                     *)
LEMMA TicksMarked ==
  ASSUME NEW t0 \in Int, NEW tn \in Int, t0 < tn, NEW step \in TIME_STEPS, Calm(t0, tn)
  PROVE  Holds(timeTicks(t0, tn, step), Marked(t0, tn, step))
<1>1. PICK last \in Nat :
         /\ At(t0, step, last + 1) > tn /\ \A i \in 1 .. last : At(t0, step, i) <= tn
         /\ Holds(timeTicks(t0, tn, step), Ticked(t0, step, last))
  BY TicksAre
<1> DEFINE m == Midnight(t0)
           u == Unit_(step)
<1>2. Std \in Int /\ Spring \in Int /\ Fall \in Int /\ HOUR = 12 /\ Spring + 12 < Fall
  BY TicksAssumption DEF HOUR
<1>3. PICK d \in Int : m = d * DAY /\ m \div DAY = d
  BY SlotsAre
<1>4. /\ m \in Int /\ u \in Nat \ {0} /\ m <= Wall(t0) /\ Wall(t0) \in Int
      /\ \A k \in Nat : (k - 1) * u \in Int /\ At(t0, step, k) \in Int
  BY SlotsAre, WallIs
<1>5. \A k \in Nat : At(t0, step, k) = Instant(m + (k - 1) * u)
  BY DEF At
<1>6. ASSUME NEW k \in Nat PROVE Due(t0, step, k) <=> Aligned(m + (k - 1) * u, step)
  <2>1. k - 1 \in Int /\ d + k - 1 - MONDAY = d + (k - 1) - MONDAY
    BY DEF MONDAY
  <2>2. Due(t0, step, k) <=> step < DAY \/ (d + (k - 1) - MONDAY) % (step \div DAY) = 0
    BY <1>3, <2>1 DEF Due
  <2> HIDE DEF u
  <2> DEFINE j == k - 1
  <2>3. j \in Int
    OBVIOUS
  <2> HIDE DEF j
  <2>4. (step < DAY \/ (d + j - MONDAY) % (step \div DAY) = 0)
          <=> Aligned(d * DAY + j * Unit_(step), step)
    BY <2>3, SlotAligned
  <2> QED
    BY <1>3, <2>2, <2>4 DEF j, u
<1>7. ASSUME NEW k \in 1 .. last, Due(t0, step, k), At(t0, step, k) >= t0
      PROVE  At(t0, step, k) \in Marked(t0, tn, step)
  <2> DEFINE w == m + (k - 1) * u
             t == At(t0, step, k)
  <2>1. k \in Nat
    OBVIOUS
  <2>2. w \in Int /\ t = Instant(w) /\ t \in Int /\ Aligned(w, step)
    <3>1. (k - 1) * u \in Int
      BY <1>4, <2>1
    <3>2. Aligned(w, step) /\ t = Instant(w) /\ t \in Int
      BY <1>4, <1>5, <1>6, <1>7, <2>1
    <3> HIDE DEF u, m
    <3> QED
      BY <1>4, <3>1, <3>2
  <2>3. t \in t0 .. tn
    BY <1>1, <1>7, <2>2
  <2> HIDE DEF w, t
  <2>4. ~ Skipped(w)
    BY <1>2, <2>2, <2>3 DEF Skipped, Instant, Calm
  <2>5. Wall(t) = w
    BY <2>2, <2>4, InstantIs
  <2> QED
    BY <2>2, <2>3, <2>5 DEF Marked, t
<1>8. ASSUME NEW t \in Marked(t0, tn, step) PROVE t \in Ticked(t0, step, last)
  <2> DEFINE w == Wall(t)
  <2>1. t \in t0 .. tn /\ t \in Int /\ Aligned(w, step) /\ Instant(w) = t
    BY DEF Marked
  <2>2. w \in Int
    BY <2>1, WallIs
  <2>3. w >= Wall(t0)
    <3>1. t0 <= t /\ ~ (Fall <= t /\ t < Fall + HOUR)
      BY <2>1, WallIs
    <3> QED
      BY <1>2, <2>1, <3>1 DEF Wall
  <2> HIDE DEF w
  <2>4. PICK j \in Int : w = m + j * u
    BY <1>3, <2>1, <2>2, SlotAligned
  <2>5. j >= 0
    <3> DEFINE x == j * u
    <3> HIDE DEF u, m
    <3>1. x \in Int
      BY <1>4
    <3>2. x >= 0
      <4> HIDE DEF x
      <4> QED
        BY <1>4, <2>2, <2>3, <2>4, <3>1 DEF x
    <3>3. j < 0 => j * u < 0 * u
      BY <1>4, ScaledLess
    <3>4. 0 * u = 0
      BY <1>4
    <3> QED
      BY <3>1, <3>2, <3>3, <3>4
  <2> DEFINE k == j + 1
  <2>6. k \in Nat \ {0} /\ k - 1 = j
    BY <2>5
  <2> HIDE DEF k
  <2>7. At(t0, step, k) = t /\ Due(t0, step, k)
    <3>1. m + (k - 1) * u = w
      BY <2>4, <2>6
    <3> QED
      BY <1>5, <1>6, <2>1, <2>6, <3>1
  <2>8. k <= last
    <3> SUFFICES ASSUME ~ (k <= last) PROVE FALSE
      OBVIOUS
    <3> DEFINE l == last + 1
    <3>1. l \in Nat \ {0} /\ (l = k \/ l < k)
      BY <2>6
    <3>2. At(t0, step, l) > tn
      BY <1>1
    <3> HIDE DEF l
    <3>3. At(t0, step, l) \in Int
      BY <1>4, <3>1
    <3>4. At(t0, step, l) >= t0 /\ t <= tn
      BY <2>1, <3>2, <3>3
    <3>5. l < k => At(t0, step, l) <= At(t0, step, k)
      BY <2>6, <2>7, <3>1, <3>4, SlotsRise
    <3> QED
      BY <2>1, <2>7, <3>1, <3>2, <3>3, <3>4, <3>5
  <2>9. k \in 1 .. last /\ At(t0, step, k) >= t0
    BY <2>1, <2>6, <2>7, <2>8
  <2> QED
    BY <2>7, <2>9 DEF Ticked
<1>9. Ticked(t0, step, last) = Marked(t0, tn, step)
  <2>1. \A x \in Ticked(t0, step, last) : x \in Marked(t0, tn, step)
    BY <1>7 DEF Ticked
  <2> QED
    BY <1>8, <2>1
<1> QED
  BY <1>1, <1>9

-----------------------------------------------------------------------------
(* The marks of a step, in their order.                                      *)

Named(t, step) ==
  /\ Wall(t) % Min({step, DAY}) = 0
  /\ step > DAY => ((Wall(t) \div DAY) - MONDAY) % (step \div DAY) = 0

LEMMA AlignedNamed ==
  ASSUME NEW step \in TIME_STEPS, NEW t \in Int, Aligned(Wall(t), step)
  PROVE  Named(t, step)
<1>1. DAY = 288 /\ MONDAY = 4
  BY DEF DAY, HOUR, MONDAY
<1>2. Wall(t) \in Int
  BY WallIs
<1>3. PICK q \in Int : Wall(t) = 1152 + q * step
  BY <1>1 DEF Aligned
<1>4. step \in Nat /\ DAY \in Nat
  BY <1>1, TimeStepsAre
<1>5. Min({step, DAY}) = Unit_(step)
  <2> DEFINE S == {step, DAY}
  <2>1. S \in SUBSET Nat /\ S # {} /\ step \in S /\ DAY \in S
    BY <1>4
  <2>2. Min(S) \in S /\ \A x \in S : Min(S) <= x
    <3> HIDE DEF S
    <3> QED
      BY <2>1, LeastOf
  <2> DEFINE x == Min(S)
  <2>3. (x = step \/ x = DAY) /\ x <= step /\ x <= DAY
    BY <2>2
  <2> HIDE DEF x
  <2>4. x = Unit_(step)
    BY <1>4, <2>3 DEF Unit_
  <2> QED
    BY <2>4 DEF x
<1> DEFINE w == Wall(t)
<1> HIDE DEF w
<1>6. w \in Int /\ w = 1152 + q * step
  BY <1>2, <1>3 DEF w
<1>7. w % Unit_(step) = 0
  <2>1. CASE step = 1     BY <1>1, <1>6, <2>1 DEF Unit_
  <2>2. CASE step = 2     BY <1>1, <1>6, <2>2 DEF Unit_
  <2>3. CASE step = 3     BY <1>1, <1>6, <2>3 DEF Unit_
  <2>4. CASE step = 6     BY <1>1, <1>6, <2>4 DEF Unit_
  <2>5. CASE step = 12    BY <1>1, <1>6, <2>5 DEF Unit_
  <2>6. CASE step = 24    BY <1>1, <1>6, <2>6 DEF Unit_
  <2>7. CASE step = 36    BY <1>1, <1>6, <2>7 DEF Unit_
  <2>8. CASE step = 72    BY <1>1, <1>6, <2>8 DEF Unit_
  <2>9. CASE step = 144   BY <1>1, <1>6, <2>9 DEF Unit_
  <2>10. CASE step = 288  BY <1>1, <1>6, <2>10 DEF Unit_
  <2>11. CASE step = 576  BY <1>1, <1>6, <2>11 DEF Unit_
  <2>12. CASE step = 2016 BY <1>1, <1>6, <2>12 DEF Unit_
  <2>13. CASE step = 4032 BY <1>1, <1>6, <2>13 DEF Unit_
  <2> QED
    BY <2>1, <2>2, <2>3, <2>4, <2>5, <2>6, <2>7, <2>8, <2>9, <2>10, <2>11, <2>12, <2>13, TimeStepsAre
<1>8. ASSUME step > DAY PROVE ((w \div 288) - 4) % (step \div 288) = 0
  <2>1. CASE step = 576
    <3>1. w \div 288 = 4 + 2 * q /\ 576 \div 288 = 2
      BY <1>6, <2>1
    <3>2. ((w \div 288) - 4) % 2 = 0
      BY <3>1
    <3> QED
      BY <2>1, <3>1, <3>2
  <2>2. CASE step = 2016
    <3>1. w \div 288 = 4 + 7 * q /\ 2016 \div 288 = 7
      BY <1>6, <2>2
    <3>2. ((w \div 288) - 4) % 7 = 0
      BY <3>1
    <3> QED
      BY <2>2, <3>1, <3>2
  <2>3. CASE step = 4032
    <3>1. w \div 288 = 4 + 14 * q /\ 4032 \div 288 = 14
      BY <1>6, <2>3
    <3>2. ((w \div 288) - 4) % 14 = 0
      BY <3>1
    <3> QED
      BY <2>3, <3>1, <3>2
  <2> QED
    BY <1>1, <1>8, <2>1, <2>2, <2>3, TimeStepsAre
<1> QED
  BY <1>1, <1>5, <1>7, <1>8 DEF Named, w

(* In such a window the marks are named, a step apart, and none is missing at    *)
(* either end, but where the window opens in the hour that comes again.         *)
LEMMA MarksOnClock ==
  ASSUME NEW t0 \in Int, NEW tn \in Int, t0 < tn, Calm(t0, tn), NEW step \in TIME_STEPS,
         NEW out, Holds(out, Marked(t0, tn, step))
  PROVE  /\ DOMAIN out = 1 .. Len(out) /\ Len(out) \in Nat /\ (out = << >> <=> Len(out) = 0)
         /\ \A k \in 1 .. Len(out) : out[k] \in Marked(t0, tn, step) /\ Named(out[k], step)
         /\ \A k \in 2 .. Len(out) : Wall(out[k]) - Wall(out[k - 1]) = step
         /\ out # << >> => Wall(tn) - Wall(Last(out)) < step
         /\ t0 \notin Fall .. (Fall + HOUR - 1) =>
              Wall(IF out = << >> THEN tn ELSE out[1]) - Wall(t0) < step
<1> DEFINE L == Len(out)
           M == Marked(t0, tn, step)
<1>1. /\ L \in Nat /\ DOMAIN out = 1 .. L /\ (out = << >> <=> L = 0)
      /\ \A i \in 1 .. L : out[i] \in Int
  BY ElementOfSeq, LenProperties, EmptySeq DEF Holds
<1>2. M = {out[i] : i \in 1 .. L}
  BY <1>1 DEF Holds, ToSet
<1>3. \A i, j \in 1 .. L : i < j => out[i] < out[j]
  BY DEF Holds, Rising
<1>4. step \in Nat \ {0}
  BY TimeStepsAre
<1> HIDE DEF L
<1>5. \A t \in M : /\ t \in t0 .. tn /\ t \in Int /\ Aligned(Wall(t), step) /\ Instant(Wall(t)) = t
                   /\ Wall(t) \in Int
  BY WallIs DEF Marked
<1> HIDE DEF M
<1>6. \A k \in 1 .. L : out[k] \in M /\ Named(out[k], step)
  <2> TAKE k \in 1 .. L
  <2>1. out[k] \in M
    BY <1>2
  <2> QED
    BY <1>5, <2>1, AlignedNamed
<1>7. ASSUME NEW k \in 2 .. L PROVE Wall(out[k]) - Wall(out[k - 1]) = step
  <2> DEFINE a == out[k - 1]
             b == out[k]
             v == Wall(a)
             w == v + step
             c == Instant(w)
  <2>1. k \in 1 .. L /\ k - 1 \in 1 .. L /\ k - 1 < k
    BY <1>1
  <2>2. a \in M /\ b \in M /\ a < b
    BY <1>2, <1>3, <2>1
  <2> HIDE DEF a, b
  <2>3. /\ a \in t0 .. tn /\ b \in t0 .. tn /\ a \in Int /\ b \in Int
        /\ Aligned(Wall(a), step) /\ Aligned(Wall(b), step)
        /\ Instant(Wall(a)) = a /\ Instant(Wall(b)) = b
        /\ v \in Int /\ Wall(b) \in Int
    BY <1>5, <2>2
  <2>4. v < Wall(b)
    BY <2>2, <2>3, WallRises
  <2>5. w <= Wall(b) /\ Aligned(w, step)
    BY <1>4, <2>3, <2>4, AlignedApart
  <2>6. w \in Int /\ v < w
    BY <1>4, <2>3
  <2>7. w = Wall(b)
    <3> SUFFICES ASSUME w < Wall(b) PROVE FALSE
      <4> DEFINE z == Wall(b)
      <4>1. z \in Int /\ w \in Int /\ w <= z /\ (w < z => FALSE)
        BY <2>3, <2>5, <2>6
      <4> HIDE DEF z, w
      <4>2. w = z
        BY <4>1
      <4> QED
        BY <4>2 DEF z
    <3>1. c \in Marked(t0, tn, step) /\ a < c /\ c < b
      <4> HIDE DEF w
      <4>1. v <= w
        BY <2>3, <2>6
      <4> QED
        BY <2>3, <2>5, <2>6, <4>1, MarkAt
    <3> HIDE DEF c, w, v
    <3>2. PICK i \in 1 .. L : out[i] = c
      BY <1>2, <3>1 DEF M
    <3>3. ~ (i <= k - 1)
      <4> SUFFICES ASSUME i <= k - 1 PROVE FALSE
        OBVIOUS
      <4>1. i = k - 1 \/ i < k - 1
        BY <1>1
      <4>2. c \in Int /\ (c = a \/ c < a)
        BY <1>1, <1>3, <2>1, <3>2, <4>1 DEF a
      <4> QED
        BY <2>3, <3>1, <4>2
    <3>4. ~ (k <= i)
      <4> SUFFICES ASSUME k <= i PROVE FALSE
        OBVIOUS
      <4>1. i = k \/ k < i
        BY <1>1
      <4>2. c \in Int /\ (c = b \/ b < c)
        BY <1>1, <1>3, <2>1, <3>2, <4>1 DEF b
      <4> QED
        BY <2>3, <3>1, <4>2
    <3> QED
      BY <1>1, <3>3, <3>4
  <2> DEFINE z == Wall(b)
  <2>8. z \in Int /\ v \in Int /\ z = v + step
    BY <2>3, <2>7
  <2> HIDE DEF z, v
  <2>9. z - v = step
    BY <1>4, <2>8
  <2> QED
    BY <2>9 DEF z, v, a, b
<1>8. ASSUME out # << >> PROVE Wall(tn) - Wall(Last(out)) < step
  <2> DEFINE a == out[L]
             v == Wall(a)
             w == v + step
             c == Instant(w)
             z == Wall(tn)
  <2>1. L \in 1 .. L /\ Last(out) = a
    BY <1>1, <1>8 DEF Last, L
  <2>2. a \in M
    BY <1>2, <2>1
  <2> HIDE DEF a
  <2>3. /\ a \in t0 .. tn /\ a \in Int /\ Aligned(Wall(a), step) /\ Instant(Wall(a)) = a
        /\ v \in Int /\ z \in Int /\ tn \in t0 .. tn
    BY <1>5, <2>2, WallIs
  <2>4. w \in Int /\ v < w /\ v <= w /\ Aligned(w, step)
    BY <1>4, <2>3, AlignedApart
  <2>5. ~ (w <= z)
    <3> SUFFICES ASSUME w <= Wall(tn) PROVE FALSE
      OBVIOUS
    <3>1. c \in Marked(t0, tn, step) /\ a < c
      <4> HIDE DEF w
      <4> QED
        BY <2>3, <2>4, MarkAt
    <3> HIDE DEF c, w, v
    <3>2. PICK i \in 1 .. L : out[i] = c
      BY <1>2, <3>1 DEF M
    <3>3. i = L \/ i < L
      BY <1>1
    <3>4. c \in Int /\ (c = a \/ c < a)
      BY <1>1, <1>3, <2>1, <3>2, <3>3 DEF a
    <3> QED
      BY <2>3, <3>1, <3>4
  <2> HIDE DEF z, v
  <2>6. z - v < step
    BY <1>4, <2>3, <2>5
  <2> QED
    BY <2>1, <2>6 DEF z, v
<1>9. ASSUME t0 \notin Fall .. (Fall + HOUR - 1)
      PROVE  Wall(IF out = << >> THEN tn ELSE out[1]) - Wall(t0) < step
  <2> DEFINE b == IF out = << >> THEN tn ELSE out[1]
             v == Wall(t0)
             z == Wall(b)
  <2>1. Instant(Wall(t0)) = t0 /\ v \in Int
    <3>1. Fall \in Int /\ HOUR = 12
      BY TicksAssumption DEF HOUR
    <3>2. ~ (Fall <= t0 /\ t0 < Fall + HOUR)
      BY <1>9, <3>1
    <3> QED
      BY <3>2, WallIs
  <2>2. b \in t0 .. tn /\ t0 \in t0 .. tn /\ b \in Int
    <3>1. out # << >> => 1 \in 1 .. L
      BY <1>1
    <3>2. out # << >> => out[1] \in t0 .. tn
      BY <1>2, <1>5, <3>1
    <3> QED
      BY <3>2
  <2>3. z \in Int
    BY <2>2, WallIs
  <2>4. PICK w \in Int : v <= w /\ w < v + step /\ Aligned(w, step)
    BY <2>1, AlignedSoon
  <2>5. CASE w <= z
    <3> DEFINE c == Instant(w)
    <3>1. c \in Marked(t0, tn, step) /\ Wall(c) = w /\ c <= b
      <4> HIDE DEF b
      <4> QED
        BY <2>1, <2>2, <2>4, <2>5, MarkAt
    <3> HIDE DEF c
    <3>2. PICK i \in 1 .. L : out[i] = c
      BY <1>2, <3>1 DEF M
    <3>3. 1 \in 1 .. L /\ (i = 1 \/ 1 < i) /\ out # << >>
      BY <1>1
    <3>4. b = out[1]
      BY <3>3
    <3>5. b = c \/ b < c
      BY <1>3, <3>2, <3>3, <3>4
    <3>6. c \in Int
      BY <1>1, <3>2
    <3> HIDE DEF b
    <3>7. b = c
      BY <2>2, <3>1, <3>5, <3>6
    <3>8. z = w
      BY <3>1, <3>7
    <3> HIDE DEF z, v
    <3>9. z - v < step
      BY <1>4, <2>1, <2>4, <3>8
    <3> QED
      BY <3>9 DEF z, v, b
  <2>6. CASE ~ (w <= z)
    <3> HIDE DEF b, z, v
    <3>1. z - v < step
      BY <1>4, <2>1, <2>3, <2>4, <2>6
    <3> QED
      BY <3>1 DEF z, v, b
  <2> QED
    BY <2>5, <2>6
<1> QED
  BY <1>1, <1>6, <1>7, <1>8, <1>9 DEF L, M

(* A step is a number of its marks, and what it marks they mark.              *)
LEMMA MinorsAre ==
  ASSUME NEW step, NEW minor, <<step, minor>> \in MINORS
  PROVE  /\ step \div minor \in Nat \ {0} /\ step = (step \div minor) * minor
         /\ step \in Nat \ {0} /\ minor \in Nat \ {0}
<1>1. HOUR = 12 /\ DAY = 288
  BY DEF HOUR, DAY
<1> DEFINE pairs == {<<2, 1>>, <<3, 1>>, <<6, 2>>, <<6, 3>>, <<12, 3>>, <<12, 6>>, <<24, 6>>,
                     <<24, 12>>, <<36, 12>>, <<72, 12>>, <<72, 36>>, <<144, 36>>, <<144, 72>>,
                     <<288, 72>>, <<288, 144>>, <<576, 144>>, <<576, 288>>, <<2016, 288>>,
                     <<4032, 288>>, <<4032, 2016>>}
<1>2. MINORS = pairs
  BY <1>1 DEF MINORS
<1>3. ASSUME NEW a \in Nat, NEW b \in Nat, a = step /\ b = minor,
             a \div b \in Nat \ {0}, a = (a \div b) * b, a # 0, b # 0
      PROVE  /\ step \div minor \in Nat \ {0} /\ step = (step \div minor) * minor
             /\ step \in Nat \ {0} /\ minor \in Nat \ {0}
  BY <1>3
<1>4. \/ ((step = 2 /\ minor = 1) \/ (step = 3 /\ minor = 1))
      \/ ((step = 6 /\ minor = 2) \/ (step = 6 /\ minor = 3))
      \/ ((step = 12 /\ minor = 3) \/ (step = 12 /\ minor = 6))
      \/ ((step = 24 /\ minor = 6) \/ (step = 24 /\ minor = 12))
      \/ ((step = 36 /\ minor = 12) \/ (step = 72 /\ minor = 12))
      \/ ((step = 72 /\ minor = 36) \/ (step = 144 /\ minor = 36))
      \/ ((step = 144 /\ minor = 72) \/ (step = 288 /\ minor = 72))
      \/ ((step = 288 /\ minor = 144) \/ (step = 576 /\ minor = 144))
      \/ ((step = 576 /\ minor = 288) \/ (step = 2016 /\ minor = 288))
      \/ ((step = 4032 /\ minor = 288) \/ (step = 4032 /\ minor = 2016))
  BY <1>2
<1> QED
  BY <1>4

LEMMA MinorAligned ==
  ASSUME NEW step, NEW minor, <<step, minor>> \in MINORS, NEW w \in Int, Aligned(w, step)
  PROVE  Aligned(w, minor)
<1> DEFINE c == step \div minor
<1>1. c \in Nat \ {0} /\ step = c * minor /\ minor \in Nat \ {0}
  BY MinorsAre
<1> HIDE DEF c
<1>2. PICK q \in Int : w = MONDAY * DAY + q * step
  BY DEF Aligned
<1>3. q * c \in Int /\ q * (c * minor) = (q * c) * minor
  BY <1>1
<1>4. w = MONDAY * DAY + (q * c) * minor
  BY <1>1, <1>2, <1>3
<1> QED
  BY <1>3, <1>4 DEF Aligned

(* Between two labels a step apart are the marks that count the steps between.   *)
LEMMA MinorsCount ==
  ASSUME NEW t0 \in Int, NEW tn \in Int, Calm(t0, tn),
         NEW step, NEW minor, <<step, minor>> \in MINORS,
         NEW a \in Marked(t0, tn, step), NEW b \in Marked(t0, tn, step), a < b,
         Wall(b) - Wall(a) = step
  PROVE  Cardinality({t \in Marked(t0, tn, minor) \ Marked(t0, tn, step) : a < t /\ t < b})
           = step \div minor - 1
<1> DEFINE c == step \div minor
           v == Wall(a)
           z == Wall(b)
           at(j) == Instant(v + j * minor)
           D == 1 .. (c - 1)
           T == {t \in Marked(t0, tn, minor) \ Marked(t0, tn, step) : a < t /\ t < b}
           h == [j \in D |-> at(j)]
<1>1. c \in Nat \ {0} /\ step = c * minor /\ minor \in Nat \ {0} /\ step \in Nat \ {0}
  BY MinorsAre
<1> HIDE DEF c
<1>2. /\ a \in t0 .. tn /\ b \in t0 .. tn /\ a \in Int /\ b \in Int
      /\ Aligned(v, step) /\ Aligned(z, step) /\ Instant(Wall(a)) = a /\ Instant(Wall(b)) = b
      /\ v \in Int /\ z \in Int
  BY WallIs DEF Marked
<1>3. z = v + step
  <2> HIDE DEF z, v
  <2>1. z - v = step
    BY DEF z, v
  <2> QED
    BY <1>1, <1>2, <2>1
<1>4. Aligned(v, minor)
  BY <1>2, MinorAligned
<1>5. ASSUME NEW j \in D
      PROVE  at(j) \in T /\ Wall(at(j)) = v + j * minor
  <2> DEFINE x == j * minor
             w == v + x
  <2>1. x \in Int /\ 0 < x /\ x < step
    <3>1. j \in Int /\ 0 < j /\ j < c /\ 0 \in Int
      BY <1>1
    <3>2. 0 * minor < j * minor /\ j * minor < c * minor /\ 0 * minor = 0 /\ j * minor \in Int
      BY <1>1, <3>1, ScaledLess
    <3> QED
      BY <1>1, <3>2
  <2>2. Aligned(w, minor)
    <3>1. j \in Int
      OBVIOUS
    <3> QED
      BY <1>1, <1>2, <1>4, <3>1, AlignedApart
  <2> HIDE DEF x
  <2>3. w \in Int /\ v < w /\ v <= w /\ w < z /\ w <= z /\ w < v + step
    <3> HIDE DEF v, z
    <3> QED
      BY <1>1, <1>2, <1>3, <2>1
  <2>4. ~ Aligned(w, step)
    <3> SUFFICES ASSUME Aligned(w, step) PROVE FALSE
      OBVIOUS
    <3> HIDE DEF w
    <3>1. v + step <= w
      BY <1>1, <1>2, <2>3, AlignedApart
    <3> HIDE DEF v, z
    <3> QED
      BY <1>1, <1>2, <2>3, <3>1
  <2> DEFINE t == Instant(w)
  <2> HIDE DEF w
  <2>5. t \in Marked(t0, tn, minor) /\ Wall(t) = w /\ a < t /\ t < b
    BY <1>2, <2>2, <2>3, MarkAt
  <2> HIDE DEF t
  <2>6. t \notin Marked(t0, tn, step)
    BY <2>4, <2>5 DEF Marked
  <2>7. t \in T /\ Wall(t) = w
    BY <2>5, <2>6
  <2> QED
    BY <2>7 DEF t, w, x
<1>6. ASSUME NEW t \in T PROVE \E j \in D : at(j) = t
  <2> DEFINE w == Wall(t)
  <2>1. /\ t \in Int /\ a < t /\ t < b /\ Instant(Wall(t)) = t /\ Aligned(w, minor) /\ w \in Int
    BY WallIs DEF Marked
  <2>2. v < w /\ w < z
    BY <1>2, <2>1, WallRises
  <2>3. PICK j \in Int : w = v + j * minor
    BY <1>1, <1>2, <1>4, <2>1, AlignedApart
  <2> DEFINE x == j * minor
  <2>4. x \in Int /\ 0 < x /\ x < step
    <3>1. x \in Int
      BY <1>1
    <3> HIDE DEF w, v, z, x
    <3>2. w = v + x
      BY <2>3 DEF x
    <3> QED
      BY <1>1, <1>2, <1>3, <2>1, <2>2, <3>1, <3>2
  <2>5. 0 < j /\ j < c
    <3>1. 0 * minor = 0 /\ c \in Int /\ 0 \in Int
      BY <1>1
    <3>2. 0 * minor < j * minor /\ j * minor < c * minor
      BY <1>1, <2>4, <3>1
    <3> QED
      BY <1>1, <3>1, <3>2, ScaledBetween
  <2>6. j \in D
    BY <1>1, <2>5
  <2>7. at(j) = t
    BY <2>1, <2>3
  <2> QED
    BY <2>6, <2>7
<1>7. h \in Bijection(D, T)
  <2>1. \A j, k \in D : at(j) = at(k) => j = k
    <3> SUFFICES ASSUME NEW j \in D, NEW k \in D, at(j) = at(k) PROVE j = k
      OBVIOUS
    <3>1. v + j * minor = v + k * minor
      BY <1>5
    <3>2. j \in Int /\ k \in Int /\ j * minor \in Int /\ k * minor \in Int
      BY <1>1
    <3>3. j * minor = k * minor
      <4> DEFINE x == j * minor
                 y == k * minor
      <4>1. x \in Int /\ y \in Int /\ v + x = v + y
        BY <3>1, <3>2
      <4> HIDE DEF v, x, y
      <4>2. x = y
        BY <1>2, <4>1
      <4> QED
        BY <4>2 DEF x, y
    <3> QED
      BY <1>1, <3>2, <3>3, ScaledBetween
  <2>2. \A j \in D : at(j) \in T
    BY <1>5
  <2> HIDE DEF at, T, D
  <2> QED
    BY <1>6, <2>1, <2>2 DEF Bijection, Injection, Surjection, IsInjective
<1>8. c - 1 \in Nat /\ IsFiniteSet(D) /\ Cardinality(D) = c - 1
  <2>1. c - 1 \in Nat /\ 1 \in Int /\ c - 1 \in Int
    BY <1>1
  <2> DEFINE e == c - 1
  <2> HIDE DEF e
  <2>2. e \in Nat /\ IsFiniteSet(1 .. e) /\ Cardinality(1 .. e) = IF 1 > e THEN 0 ELSE e - 1 + 1
    BY <2>1, FS_Interval DEF e
  <2>3. Cardinality(1 .. e) = e
    BY <2>2
  <2> QED
    BY <2>2, <2>3 DEF e
<1> HIDE DEF D, T, h
<1>9. ExistsBijection(D, T)
  BY <1>7, Zenon DEF ExistsBijection
<1>10. Cardinality(T) = Cardinality(D)
  BY <1>8, <1>9, FS_Bijection
<1> QED
  BY <1>8, <1>10 DEF T, c

(* The steps an axis takes.                                                  *)
LEMMA AxisStepsAre ==
  ASSUME NEW plot
  PROVE  /\ axisStep(plot) \in TIME_STEPS
         /\ axisMinor(plot) # None =>
              axisMinor(plot) \in TIME_STEPS /\ <<axisStep(plot), axisMinor(plot)>> \in MINORS
<1>1. ASSUME NEW S \in SUBSET TIME_STEPS, NEW e
      PROVE  Finest(S, e) = e \/ Finest(S, e) \in S
  <2>1. S \in SUBSET Nat
    BY TimeStepsAre
  <2>2. S # {} => Min(S) \in S
    BY <2>1, LeastOf
  <2> QED
    BY <2>2 DEF Finest
<1>2. 14 * DAY \in TIME_STEPS
  BY DEF TIME_STEPS
<1>3. axisStep(plot) \in TIME_STEPS
  <2> DEFINE S == {s \in TIME_STEPS : s * plotW(plot) >= labelGap(plot) * Span}
  <2>1. Finest(S, 14 * DAY) = 14 * DAY \/ Finest(S, 14 * DAY) \in S
    BY <1>1
  <2> QED
    BY <1>2, <2>1 DEF axisStep, timeStep
<1>4. ASSUME axisMinor(plot) # None
      PROVE  axisMinor(plot) \in TIME_STEPS /\ <<axisStep(plot), axisMinor(plot)>> \in MINORS
  <2> DEFINE S == {s \in TIME_STEPS : <<axisStep(plot), s>> \in MINORS
                                        /\ s * plotW(plot) >= 14 * Span}
  <2>1. Finest(S, None) = None \/ Finest(S, None) \in S
    BY <1>1
  <2>2. axisMinor(plot) \in S
    BY <1>4, <2>1 DEF axisMinor, minorStep
  <2> QED
    BY <2>2
<1> QED
  BY <1>3, <1>4

(* The labels of a window are on the clock, and so are the marks between them.   *)
LEMMA ClockTicks == ChartsInv => TicksOnClock
<1> SUFFICES ASSUME ChartsInv, Span > 0, Synced(stamps, n), NEW plot \in Plots
             PROVE  LET step == axisStep(plot)
                        axis == drawAxis(plot)
                        m    == axis.majors
                        dow(t) == (Wall(t) \div DAY) - MONDAY
                        named(t) == Wall(t) % Min({step, DAY}) = 0
                                      /\ (step > DAY => dow(t) % (step \div DAY) = 0)
                    IN  /\ SpringIn /\ step >= HOUR => \A k \in 2..Len(m) : m[k - 1] < m[k]
                        /\ ~SpringIn =>
                             /\ \A k \in DOMAIN m :
                                  stamps[1] <= m[k] /\ m[k] <= stamps[n] /\ named(m[k])
                             /\ \A k \in 2..Len(m) : Wall(m[k]) - Wall(m[k - 1]) = step
                             /\ m # << >> => Wall(stamps[n]) - Wall(Last(m)) < step
                             /\ stamps[1] \notin Fall..(Fall + HOUR - 1) =>
                                  Wall(IF m = << >> THEN stamps[n] ELSE m[1]) - Wall(stamps[1]) < step
                             /\ axisMinor(plot) # None => \A k \in 2..Len(m) :
                                  Cardinality({t \in axis.minors : m[k - 1] < t /\ t < m[k]})
                                    = step \div axisMinor(plot) - 1
  BY DEF TicksOnClock
<1> DEFINE t0 == stamps[1]
           tn == stamps[n]
           step == axisStep(plot)
           minor == axisMinor(plot)
           m == timeTicks(t0, tn, step)
           marks == timeTicks(t0, tn, minor)
           dow(t) == (Wall(t) \div DAY) - MONDAY
           named(t) == Wall(t) % Min({step, DAY}) = 0
                         /\ (step > DAY => dow(t) % (step \div DAY) = 0)
<1>1. t0 \in Int /\ tn \in Int /\ t0 < tn
  <2>1. n > 0 /\ stamps[n] > stamps[1]
    BY DEF Span
  <2>2. n \in Nat /\ DOMAIN stamps = 1 .. n /\ \A i \in 1 .. n : stamps[i] \in Nat
    BY ElementOfSeq, LenProperties DEF ChartsInv, n
  <2>3. 1 \in 1 .. n /\ n \in 1 .. n
    BY <2>1, <2>2
  <2> QED
    BY <2>1, <2>2, <2>3
<1>2. step \in TIME_STEPS /\ (minor # None => minor \in TIME_STEPS /\ <<step, minor>> \in MINORS)
  BY AxisStepsAre
<1>3. drawAxis(plot) = [majors |-> m, minors |-> IF minor = None THEN {} ELSE ToSet(marks) \ ToSet(m)]
  BY DEF drawAxis
<1>4. drawAxis(plot).majors = m
      /\ drawAxis(plot).minors = IF minor = None THEN {} ELSE ToSet(marks) \ ToSet(m)
  BY <1>3
<1>5. ~ SpringIn <=> Calm(t0, tn)
  <2>1. Spring \in Int /\ HOUR = 12
    BY TicksAssumption DEF HOUR
  <2> HIDE DEF t0, tn
  <2>2. SpringIn <=> (t0 < Spring + HOUR /\ Spring <= tn)
    BY DEF SpringIn, t0, tn
  <2> QED
    BY <1>1, <2>1, <2>2 DEF Calm
<1> HIDE DEF t0, tn, step, minor, m, marks
<1>6. SpringIn /\ step >= HOUR => \A k \in 2 .. Len(m) : m[k - 1] < m[k]
  <2> SUFFICES ASSUME step >= HOUR, NEW k \in 2 .. Len(m) PROVE m[k - 1] < m[k]
    OBVIOUS
  <2>1. PICK last \in Nat : Holds(m, Ticked(t0, step, last))
    BY <1>1, <1>2, TicksAre DEF m
  <2>2. Len(m) \in Nat
    BY <2>1, LenProperties DEF Holds
  <2>3. k - 1 \in 1 .. Len(m) /\ k \in 1 .. Len(m) /\ k - 1 < k
    BY <2>2
  <2> QED
    BY <2>1, <2>3 DEF Holds, Rising
<1>7. ASSUME ~ SpringIn
      PROVE  /\ \A k \in DOMAIN m : t0 <= m[k] /\ m[k] <= tn /\ named(m[k])
             /\ \A k \in 2 .. Len(m) : Wall(m[k]) - Wall(m[k - 1]) = step
             /\ m # << >> => Wall(tn) - Wall(Last(m)) < step
             /\ t0 \notin Fall .. (Fall + HOUR - 1) =>
                  Wall(IF m = << >> THEN tn ELSE m[1]) - Wall(t0) < step
             /\ minor # None => \A k \in 2 .. Len(m) :
                  Cardinality({t \in drawAxis(plot).minors : m[k - 1] < t /\ t < m[k]})
                    = step \div minor - 1
  <2>1. Calm(t0, tn)
    BY <1>5, <1>7
  <2>2. Holds(m, Marked(t0, tn, step))
    BY <1>1, <1>2, <2>1, TicksMarked DEF m
  <2>3. /\ DOMAIN m = 1 .. Len(m) /\ Len(m) \in Nat /\ (m = << >> <=> Len(m) = 0)
        /\ \A k \in 1 .. Len(m) : m[k] \in Marked(t0, tn, step) /\ Named(m[k], step)
        /\ \A k \in 2 .. Len(m) : Wall(m[k]) - Wall(m[k - 1]) = step
        /\ m # << >> => Wall(tn) - Wall(Last(m)) < step
        /\ t0 \notin Fall .. (Fall + HOUR - 1) =>
             Wall(IF m = << >> THEN tn ELSE m[1]) - Wall(t0) < step
    BY <1>1, <1>2, <2>1, <2>2, MarksOnClock
  <2>4. \A k \in DOMAIN m : t0 <= m[k] /\ m[k] <= tn /\ named(m[k])
    <3> TAKE k \in DOMAIN m
    <3>1. m[k] \in t0 .. tn /\ Named(m[k], step)
      BY <2>3 DEF Marked
    <3> QED
      BY <1>1, <3>1 DEF Named
  <2>5. ASSUME minor # None, NEW k \in 2 .. Len(m)
        PROVE  Cardinality({t \in drawAxis(plot).minors : m[k - 1] < t /\ t < m[k]})
                 = step \div minor - 1
    <3>1. Holds(marks, Marked(t0, tn, minor))
      BY <1>1, <1>2, <2>1, <2>5, TicksMarked DEF marks
    <3>2. drawAxis(plot).minors = Marked(t0, tn, minor) \ Marked(t0, tn, step)
      BY <1>4, <2>2, <2>5, <3>1 DEF Holds
    <3>3. k - 1 \in 1 .. Len(m) /\ k \in 1 .. Len(m) /\ k - 1 < k
      BY <2>3
    <3> DEFINE a == m[k - 1]
               b == m[k]
    <3>4. /\ a \in Marked(t0, tn, step) /\ b \in Marked(t0, tn, step) /\ a < b
          /\ Wall(b) - Wall(a) = step
      BY <2>2, <2>3, <3>3 DEF Holds, Rising
    <3> HIDE DEF a, b
    <3>5. Cardinality({t \in Marked(t0, tn, minor) \ Marked(t0, tn, step) : a < t /\ t < b})
            = step \div minor - 1
      BY <1>1, <1>2, <2>1, <2>5, <3>4, MinorsCount
    <3> QED
      BY <3>2, <3>5 DEF a, b
  <2> QED
    BY <2>3, <2>4, <2>5
<1> QED
  BY <1>4, <1>6, <1>7 DEF t0, tn, step, minor

(* The labels along the bottom, for every window and every width: where no hour  *)
(* is skipped, the local times the step names, each once, with as many marks     *)
(* between them as the steps they skip; where one is skipped, the order of       *)
(* labels an hour and more apart (timeTicks, drawAxis).                       *)
THEOREM TicksAlwaysOnClock == Spec => []TicksOnClock
<1> QED
  BY ClockTicks, ChartsHolds, PTL
=============================================================================
