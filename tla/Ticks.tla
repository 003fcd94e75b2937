--------------------------------- MODULE Ticks ---------------------------------
(****************************************************************************)
(* Where the gridlines go (src/web/src/ticks.ts): round clock times along     *)
(* the bottom, round values up the side.  Instants are in units of five       *)
(* minutes, the device's sample interval; values in fortieths, so that half   *)
(* degrees, their middle and their headroom are whole.                       *)
(****************************************************************************)
EXTENDS Integers, FiniteSets, Sequences, SequencesExt

CONSTANTS
  None,
  Std, Spring, Fall   \* external: the zone's winter offset; when its summer hour starts and ends

HOUR == 12
DAY  == 24 * HOUR

ASSUME TicksAssumption ==
  \* None is no instant, no value and no scale
  /\ None \notin Int /\ None \notin [min : Int, max : Int, ticks : SUBSET Int, step : Int]
  /\ Std \in Int /\ Spring \in Int /\ Fall \in Int
  /\ Spring + HOUR < Fall

-----------------------------------------------------------------------------
(* External: the browser's local calendar.  A wall time that comes twice is   *)
(* the first; one that is skipped is read with the offset before the skip.    *)
Wall(t) == t + Std + (IF Spring <= t /\ t < Fall THEN HOUR ELSE 0)

Instant(w) ==
  IF Spring + HOUR <= w - Std /\ w - Std < Fall + HOUR THEN w - Std - HOUR ELSE w - Std

-----------------------------------------------------------------------------
(* The time axis.                                                           *)
TIME_STEPS == {1, 2, 3, 6, HOUR, 2 * HOUR, 3 * HOUR, 6 * HOUR, 12 * HOUR,
               DAY, 2 * DAY, 7 * DAY, 14 * DAY}

Finest(steps, default) == IF steps = {} THEN default ELSE Min(steps)

(* The finest step whose labels are minGap apart.                            *)
timeStep(span, plotW, minGap) ==
  Finest({s \in TIME_STEPS : s * plotW >= minGap * span}, 14 * DAY)

(* A step of labels and a step of the marks it may have between them.         *)
MINORS ==
  {<<2, 1>>, <<3, 1>>, <<6, 2>>, <<6, 3>>, <<HOUR, 3>>, <<HOUR, 6>>,
   <<2 * HOUR, 6>>, <<2 * HOUR, HOUR>>, <<3 * HOUR, HOUR>>, <<6 * HOUR, HOUR>>,
   <<6 * HOUR, 3 * HOUR>>, <<12 * HOUR, 3 * HOUR>>, <<12 * HOUR, 6 * HOUR>>,
   <<DAY, 6 * HOUR>>, <<DAY, 12 * HOUR>>, <<2 * DAY, 12 * HOUR>>, <<2 * DAY, DAY>>,
   <<7 * DAY, DAY>>, <<14 * DAY, DAY>>, <<14 * DAY, 7 * DAY>>}

(* The marks between the labels, None where none fit.                        *)
minorStep(major, span, plotW, minGap) ==
  Finest({s \in TIME_STEPS : <<major, s>> \in MINORS /\ s * plotW >= minGap * span}, None)

\* Wrong variant: the slots are stepped through by elapsed time.
slot_elapsed(day, unit, k) == Instant(day) + k * unit

(* The k-th slot of a local day: its wall time, overflowing into later days.  *)
slot(day, unit, k) == Instant(day + k * unit)

MONDAY == 4

(* The next tick, unless it is before the window or the last one again.       *)
push(out, t, t0) ==
  IF t < t0 \/ (out # << >> /\ Last(out) = t) THEN out ELSE Append(out, t)

(* The instants of [t0, tn] a `step` axis labels: slots from the first local   *)
(* midnight until one is past the window, of a step of days those counted      *)
(* from a Monday.                                                            *)
timeTicks(t0, tn, step) ==
  LET day    == Wall(t0) - (Wall(t0) % DAY)
      unit   == IF step < DAY THEN step ELSE DAY
      at(k)  == slot(day, unit, k - 1)
      last   == Min({k \in 1..((tn - t0 + DAY + HOUR) \div unit + 2) : at(k) > tn}) - 1
      due(k) == step < DAY \/ ((day \div DAY) + k - 1 - MONDAY) % (step \div DAY) = 0
      from   == Min({k \in 0..last : k = last \/ at(k + 1) >= t0})
      out[k \in from..last] ==
        IF k = from THEN << >> ELSE IF due(k) THEN push(out[k - 1], at(k), t0) ELSE out[k - 1]
  IN  IF tn <= t0 THEN << >> ELSE out[last]

-----------------------------------------------------------------------------
(* The value axis.                                                          *)
Unit == 40

(* The 1-2-5 steps.                                                          *)
Decades    == {Unit, 10 * Unit, 100 * Unit, 1000 * Unit}
RoundSteps == {m * p : m \in {1, 2, 5}, p \in Decades}

(* The finest step for a least span: at most half of it.                     *)
resolution(minSpan) == Max({s \in RoundSteps : 2 * s <= minSpan})

floored(v, step) == v \div step
ceiled(v, step)  == -((-v) \div step)

count(lo, hi, step) == floored(hi, step) - ceiled(lo, step) + 1
grid(lo, hi, step)  == {k * step : k \in ceiled(lo, step)..floored(hi, step)}

COMFY_PX == 16
TIGHT_PX == 12

below(fit, step) == Max({floored(fit.lo, step) * step, fit.lowest})
above(fit, step) == ceiled(fit.hi, step) * step

(* A scale, or None with more lines than the plot has room for.              *)
make(fit, lo, hi, step) ==
  IF count(lo, hi, step) > fit.maxTicks THEN None
  ELSE [min |-> lo, max |-> hi, ticks |-> grid(lo, hi, step), step |-> step]

fits(fit, sc, step, minPx) ==
  sc # None /\ Cardinality(sc.ticks) >= 3 /\ step * fit.plotPx >= minPx * (sc.max - sc.min)

(* The bounds as given, or each end moved to a line within a tenth of the span. *)
insideOrNear(fit, step, minPx) ==
  LET inside   == make(fit, fit.lo, fit.hi, step)
      reach(d) == 10 * d <= fit.hi - fit.lo
      near     == make(fit, IF reach(fit.lo - below(fit, step)) THEN below(fit, step) ELSE fit.lo,
                            IF reach(above(fit, step) - fit.hi) THEN above(fit, step) ELSE fit.hi, step)
  IN  IF fits(fit, inside, step, minPx) THEN inside
      ELSE IF fits(fit, near, step, minPx) THEN near ELSE None

(* The comfortable pass, the tight one, then both ends moved outward.         *)
search(fit, steps) ==
  LET pass(px)   == Finest({s \in steps : insideOrNear(fit, s, px) # None}, None)
      comfy      == pass(COMFY_PX)
      tight      == pass(TIGHT_PX)
      outward(s) == make(fit, below(fit, s), above(fit, s), s)
      wide       == Finest({s \in steps : fits(fit, outward(s), s, TIGHT_PX)}, None)
  IN  IF comfy # None THEN insideOrNear(fit, comfy, COMFY_PX)
      ELSE IF tight # None THEN insideOrNear(fit, tight, TIGHT_PX)
      ELSE IF wide # None THEN outward(wide) ELSE None

(* The steps searched: from the finest while they are within the range.       *)
Steps(minStep, span) == {s \in RoundSteps : s = minStep \/ (minStep < s /\ s <= span)}

niceScale(lo, hi, minStep, plotPx, lowest) ==
  LET fit   == [lo |-> lo, hi |-> hi, plotPx |-> plotPx,
                maxTicks |-> IF plotPx >= 120 THEN 5 ELSE 4, lowest |-> lowest]
      steps == Steps(minStep, hi - lo)
      found == search(fit, steps)
      coarse == make(fit, lo, hi, Max(steps))
  IN  IF hi <= lo THEN [min |-> lo, max |-> lo + minStep, ticks |-> {lo}, step |-> minStep]
      ELSE IF found # None THEN found
      ELSE IF coarse # None THEN coarse
      ELSE [min |-> lo, max |-> hi, ticks |-> {}, step |-> Max(steps)]
=============================================================================
