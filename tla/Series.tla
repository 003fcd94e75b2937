-------------------------------- MODULE Series --------------------------------
(****************************************************************************)
(* What the charts make of a history response (src/web/src: series.ts,       *)
(* state.ts).  A response is its rows' stamps, zero where the clock was not  *)
(* set, in units of the device's sample interval.                            *)
(****************************************************************************)
EXTENDS Integers, Sequences, SequencesExt

(* The place of a number in a set of them, from 0, and the k-th of the set.   *)
rank(S, i) == Cardinality({j \in S : j < i})
nth(S, k)  == CHOOSE i \in S : rank(S, i) = k - 1

Synced(rows, i) == rows[i] > 0

(* Rows as the device keeps them: no two have one stamp, the later the later. *)
Ordered(rows) ==
  \A i, j \in DOMAIN rows : i < j /\ Synced(rows, i) /\ Synced(rows, j) => rows[i] < rows[j]

(* The last `want` of a response: by time when the newest row has one, else  *)
(* by the nominal cadence.                                                   *)
tail(rows, want) ==
  LET n    == Len(rows)
      last == rows[n]
      near == {i \in 1..(n - 1) : Synced(rows, i) /\ last - rows[i] <= want}
      from == IF last > 0 THEN (IF near = {} THEN n ELSE Min(near))
                          ELSE Max({0, n - want}) + 1
  IN  IF n = 0 THEN rows ELSE SubSeq(rows, from, n)

(* The real spacing of the rows: the median of the steps between stamps.    *)
medianStep(rows) ==
  LET steps    == {i \in 2..Len(rows) : Synced(rows, i - 1) /\ rows[i] > rows[i - 1]}
      step(i)  == rows[i] - rows[i - 1]
      below(i) == {j \in steps : step(j) < step(i) \/ (step(j) = step(i) /\ j < i)}
  IN  IF steps = {} THEN 1
      ELSE step(CHOOSE i \in steps : Cardinality(below(i)) = Cardinality(steps) \div 2)

(* timeline's gaps: a step of more than one and a half.                     *)
gap(rows) ==
  LET step == medianStep(rows)
  IN  {i \in 2..Len(rows) : /\ Synced(rows, i - 1) /\ Synced(rows, i)
                            /\ 2 * (rows[i] - rows[i - 1]) > 3 * step}

(* The row a pinned moment lands on, 0 once it has left the window: the       *)
(* nearest, within a step and a half.                                        *)
pinnedRow(rows, pinTs) ==
  LET off(i) == IF rows[i] > pinTs THEN rows[i] - pinTs ELSE pinTs - rows[i]
      step   == medianStep(rows)
      near   == {i \in DOMAIN rows : Synced(rows, i) /\ 2 * off(i) <= 3 * step
                     /\ \A j \in DOMAIN rows : Synced(rows, j) => off(i) <= off(j)}
  IN  IF pinTs = 0 \/ near = {} THEN 0 ELSE Min(near)
=============================================================================
