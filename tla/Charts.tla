-------------------------------- MODULE Charts --------------------------------
(****************************************************************************)
(* What the plots draw of a history answer (src/web/src: charts.ts,           *)
(* chart_rows.ts, limit_lines.ts, time_axis.ts, scrub.ts indexAt): each mark   *)
(* as the rows or instants it stands for, on two axes.  The answer grows row   *)
(* by row, through outages and restarts, from a device with its clock set or not. *)
(****************************************************************************)
EXTENDS Series, Ticks

CONSTANTS
  Samples,         \* what a row may hold, and how long after the one before it is: `wait`
  Starts,          \* the first row's instant
  Plots,           \* sizes of the plots: [w, h], in px
  Settings,        \* the limits switched on: [low, high], None for one that is off
  MaxRows, Loops   \* bounds: rows, and the restarts of a crash loop

\* No reading and no limit is colder or hotter than these.
Temperature == (-100 * Unit)..(300 * Unit)

ASSUME ChartsAssumption ==
  /\ MaxRows \in Nat /\ Loops \in Nat \ {0}
  /\ Starts \subseteq Nat \ {0}
  /\ Samples \subseteq [wait : Nat \ {0}, tf : Temperature \cup {None}, of : Temperature \cup {None},
                       flips : BOOLEAN, band : BOOLEAN, chg : BOOLEAN]
  /\ Settings \subseteq [low : Temperature \cup {None}, high : Temperature \cup {None}]
  \* console.css: no plot of the temperatures is less than 220 px high
  /\ Plots \subseteq [w : Nat, h : {h \in Nat : h >= 220}]

VARIABLES
  now,       \* the time
  clock,     \* the answer's rows are of a time when the device's clock was set
  stamps,    \* the rows' stamps, 0 without a clock
  cols,      \* what they hold
  boots      \* the instants of the restarts

vars == <<now, clock, stamps, cols, boots>>

n    == Len(stamps)
Span == IF n > 0 /\ Synced(stamps, 1) /\ stamps[n] > stamps[1] THEN stamps[n] - stamps[1] ELSE 0
Gaps == gap(stamps)

-----------------------------------------------------------------------------
(* The time map.  A place on the plot is a part of Width.                    *)
Width == IF Span > 0 THEN Span * (n - 1) ELSE n - 1

\* Wrong variant: rows are spread evenly, outages and all.
xAt_even(i) == IF Span > 0 THEN (i - 1) * Span ELSE i - 1

(* A row at its share of the time, at its index's where there is none.        *)
xAt(i) ==
  IF Span > 0 /\ Synced(stamps, i) THEN (stamps[i] - stamps[1]) * (n - 1)
  ELSE xAt_even(i)

(* An instant, None outside of the window.                                   *)
xAtTime(t) ==
  IF Span > 0 /\ stamps[1] <= t /\ t <= stamps[n] THEN (t - stamps[1]) * (n - 1) ELSE None

(* The row nearest to a pointer, 0 off either end of the plot.               *)
indexAt(x) ==
  LET far(i) == IF xAt(i) > x THEN xAt(i) - x ELSE x - xAt(i)
  IN  IF n < 2 \/ 50 * x < -Width \/ 50 * x > 51 * Width THEN 0
      ELSE Min({i \in 1..n : \A k \in 1..n : far(i) <= far(k)})

-----------------------------------------------------------------------------
(* Everything drawn of the rows 1..m is drawn in runs, <<first, last>>, of the *)
(* rows `on` that there is something to draw of, begun anew at a cut.         *)
Runs(m, on, cut) ==
  LET grown(runs, k) ==
        IF k \notin on THEN runs
        ELSE IF runs # << >> /\ Last(runs)[2] = k - 1 /\ k \notin cut
        THEN Append(Front(runs), <<Last(runs)[1], k>>)
        ELSE Append(runs, <<k, k>>)
      sweep[k \in 0..m] == IF k = 0 THEN << >> ELSE grown(sweep[k - 1], k)
  IN  IF m < 1 THEN << >> ELSE sweep[m]

(* Most are cut where the device was dark.                                   *)
Unbridged(on) == Runs(n, on, Gaps)

line(column) == Unbridged({i \in 1..n : cols[i][column] # None})

drawFanSpeed == Unbridged(1..n)

fillMeterBand == Unbridged({i \in 1..n : cols[i].band})

\* Wrong variant: a tint runs on through the dark.
tintCycling_through == Runs(n, {i \in 1..n : cols[i].flips}, {})

tintCycling == Unbridged({i \in 1..n : cols[i].flips})

drawBattery == Unbridged({i \in 1..n : cols[i].chg})

shadeOutages == {<<i - 1, i>> : i \in Gaps}

(* A segment of the differential, of row i and the next.                     *)
segmentWarm(i) ==
  LET a == cols[i]
      b == cols[i + 1]
  IN  IF None \in {a.tf, b.tf, a.of, b.of} \/ i + 1 \in Gaps THEN None
      ELSE a.tf + b.tf >= a.of + b.of

(* One polygon to a run of segments of one tint; its points are the rows.     *)
fillDifferential ==
  LET runs == Runs(n - 1, {i \in 1..(n - 1) : segmentWarm(i) # None},
                          {i \in 2..(n - 1) : segmentWarm(i) # segmentWarm(i - 1)})
  IN  [k \in DOMAIN runs |-> <<runs[k][1], runs[k][2] + 1>>]

(* Nights are shaded where the rows are an hour apart or less, dark or not.   *)
NIGHT_MAX_STEP == HOUR

nights == {i \in 1..n : Synced(stamps, i) /\ (Wall(stamps[i]) % DAY) \div HOUR \notin 6..19}

shadesNights == medianStep(stamps) <= NIGHT_MAX_STEP /\ nights # {}

shadeNights ==
  IF shadesNights THEN Runs(n, nights, {}) ELSE << >>

-----------------------------------------------------------------------------
(* Restart marks: those in the window, in order; one label to a cluster of    *)
(* them, whose first stem is a label's width or more from the last cluster's. *)
placedMarks ==
  LET xs == {xAtTime(boots[k]) : k \in DOMAIN boots} \ {None}
  IN  [k \in 1..Cardinality(xs) |-> nth(xs, k)]

clusterMarks(xs, room) ==
  LET joined(groups, x) ==
        IF groups # << >> /\ x - Head(Last(groups)) < room
        THEN Append(Front(groups), Append(Last(groups), x)) ELSE Append(groups, <<x>>)
      sweep[k \in 0..Len(xs)] == IF k = 0 THEN << >> ELSE joined(sweep[k - 1], xs[k])
  IN  sweep[Len(xs)]

-----------------------------------------------------------------------------
(* The value axis of the temperatures, and the limits on it.                 *)
MIN_SPAN == 2 * Unit

(* The range of some values, at least minSpan of it, with headroom.           *)
limits(values, minSpan, lowest, plotPx) ==
  LET low  == Min(values)
      high == Max(values)
      flat == high - low < minSpan
      mn   == IF flat THEN (low + high) \div 2 - minSpan \div 2 ELSE low
      mx   == IF flat THEN (low + high) \div 2 + minSpan \div 2 ELSE high
      pad  == (mx - mn) \div 20
  IN  IF values = {} THEN None
      ELSE niceScale(Max({mn - pad, lowest}), mx + pad, resolution(minSpan), plotPx, lowest)

plotted == (UNION {{cols[i].tf, cols[i].of} : i \in 1..n}) \ {None}

\* Wrong variant: half the span, however little that is.
limitReach_bare(mn, mx) == (mx - mn) \div 2

limitReach(mn, mx) == Max({3 * Unit, (mx - mn) \div 2})

placeLimit(f, mn, mx) ==
  CASE f < mn - limitReach(mn, mx) -> "below"
    [] f > mx + limitReach(mn, mx) -> "above"
    [] f \in (mn - limitReach(mn, mx))..(mx + limitReach(mn, mx)) -> "line"

chartLimits(set) == {set.low, set.high} \ {None}

(* The limits in reach widen the range; the rest stand at its edges.          *)
limitOverlay(lines) == {f \in lines : placeLimit(f, Min(plotted), Max(plotted)) = "line"}

plotH(plot) == plot.h - 16

NoLowest == -1000 * 1000

drawTemperature(plot, lines) ==
  IF n < 2 \/ plotted = {} THEN None
  ELSE limits(plotted \cup limitOverlay(lines), MIN_SPAN, NoLowest, plotH(plot))

-----------------------------------------------------------------------------
(* The time axis under a plot: the step, its instants, the marks between.     *)
labelGap(plot) == Min({100, Max({60, (9 * plot.w) \div 100})})
plotW(plot)    == plot.w - 54

axisStep(plot) == timeStep(Span, plotW(plot), labelGap(plot))

axisMinor(plot) == minorStep(axisStep(plot), Span, plotW(plot), 14)

drawAxis(plot) ==
  LET labels == timeTicks(stamps[1], stamps[n], axisStep(plot))
      marks  == timeTicks(stamps[1], stamps[n], axisMinor(plot))
  IN  [majors |-> labels,
       minors |-> IF axisMinor(plot) = None THEN {} ELSE ToSet(marks) \ ToSet(labels)]

-----------------------------------------------------------------------------
(* The device logs a row every interval it is up, on its card if it has the    *)
(* time; a day without a card is answered from the RAM, whose rows have no     *)
(* stamp until the clock is set and do not outlast a restart, one or many.    *)
Sample(r) ==
  /\ n < MaxRows /\ now' = now + r.wait
  /\ stamps' = Append(stamps, IF clock THEN now' ELSE 0) /\ cols' = Append(cols, r)
  /\ UNCHANGED <<clock, boots>>

Restart ==
  /\ clock /\ n \in 1..(MaxRows - 1) /\ boots = << >>
  /\ \E k \in {1, Loops} : boots' = [i \in 1..k |-> now + i] /\ now' = now + k
  /\ UNCHANGED <<clock, stamps, cols>>

Init == now \in Starts /\ clock \in BOOLEAN /\ stamps = << >> /\ cols = << >> /\ boots = << >>

Next == Restart \/ \E r \in Samples : Sample(r)

Spec == Init /\ [][Next]_vars

-----------------------------------------------------------------------------
(* Properties.                                                              *)

Drawn == {line("tf"), line("of"), drawFanSpeed, fillMeterBand, tintCycling, drawBattery,
          fillDifferential}

(* No line, no tint and no polygon crosses a time the device was dark: none    *)
(* claims a reading, a cycling fan or a charger for it.                      *)
NothingAcrossOutage ==
  LET drawn == Drawn IN
  \A i \in Gaps, runs \in drawn :
    \A k \in DOMAIN runs : ~(runs[k][1] < i /\ i <= runs[k][2])

(* Nothing that was measured is left out: every reading is in one run, two of   *)
(* a kind side by side are in the same one, from one row to the next there is   *)
(* either a fan's speed or the shade of an outage, every night row is shaded    *)
(* once, and the differential's polygons cover each pair of rows that has one,  *)
(* of one tint each.                                                          *)
NothingLeftOut ==
  LET in(i, runs)  == {k \in DOMAIN runs : runs[k][1] <= i /\ i <= runs[k][2]}
      pairs(run)   == run[1]..(run[2] - 1)
      fan   == drawFanSpeed
      band  == fillMeterBand
      cycle == tintCycling
      warm  == fillDifferential
      night == shadeNights
      dark  == Gaps
  IN  /\ \A column \in {"tf", "of"} :
           LET runs == line(column)
           IN  \A i \in 1..n :
                 Cardinality(in(i, runs)) = (IF cols[i][column] = None THEN 0 ELSE 1)
      /\ \A i \in 1..n : Cardinality(in(i, fan)) = 1
      /\ \A i \in 2..n : in(i - 1, fan) = in(i, fan) <=> <<i - 1, i>> \notin shadeOutages
      /\ shadesNights =>
           \A i \in 1..n : Cardinality(in(i, night)) = (IF i \in nights THEN 1 ELSE 0)
      /\ \A i \in (2..n) \ dark :
           /\ cols[i - 1].band /\ cols[i].band => in(i - 1, band) = in(i, band)
           /\ cols[i - 1].flips /\ cols[i].flips => in(i - 1, cycle) = in(i, cycle)
      /\ UNION {pairs(warm[k]) : k \in DOMAIN warm} = {i \in 1..(n - 1) : segmentWarm(i) # None}
      /\ \A k \in DOMAIN warm : Cardinality({segmentWarm(i) : i \in pairs(warm[k])}) = 1

(* With a clock, rows, restarts and the pointer are on one time line: rows     *)
(* from edge to edge in their order, a restart in the outage it fell in, and a *)
(* pointer on a row finds that row.                                          *)
OneTimeline ==
  n > 1 /\ clock =>
    /\ xAt(1) = 0 /\ xAt(n) = Width /\ \A i \in 2..n : xAt(i - 1) < xAt(i)
    /\ \A k \in DOMAIN boots : \A i \in 2..n : stamps[i - 1] < boots[k] /\ boots[k] <= stamps[i] =>
         /\ xAtTime(boots[k]) \in (xAt(i - 1) + 1)..xAt(i)
         /\ indexAt(xAtTime(boots[k])) \in {i - 1, i}
    /\ \A i \in 1..n : indexAt(xAt(i)) = i

Apart(room) ==
  LET groups == clusterMarks(placedMarks, room)
  IN  /\ FlattenSeq(groups) = placedMarks
      /\ \A k \in 2..Len(groups) : Head(groups[k]) - Head(groups[k - 1]) >= room
      /\ \A k \in DOMAIN groups : Last(groups[k]) - Head(groups[k]) < Max({1, room})

(* Every restart in the window is under one label, and the labels' stems are   *)
(* at least a label apart: a tenth of a desktop's plot, a third of a phone's.  *)
LabelsApart == \A room \in {Width \div 10, Width \div 3} : Apart(room)

\* The window shows some of the hour after the one that is skipped.
SpringIn == stamps[1] < Spring + HOUR /\ Spring <= stamps[n]

(* Where no hour is skipped, the labels are the local times the step names,      *)
(* none missing and none twice, a fall change or none inside, with the marks    *)
(* that count the steps they skip between them; but before the first label one  *)
(* may be missing if the window opens in the hour that comes again.  Where an   *)
(* hour is skipped, labels an hour and more apart are in order, and no more.    *)
TicksOnClock ==
  Span > 0 /\ Synced(stamps, n) => \A plot \in Plots :
    LET step == axisStep(plot)
        axis == drawAxis(plot)
        m    == axis.majors
        dow(t) == (Wall(t) \div DAY) - MONDAY
        named(t) == Wall(t) % Min({step, DAY}) = 0 /\ (step > DAY => dow(t) % (step \div DAY) = 0)
    IN  /\ SpringIn /\ step >= HOUR => \A k \in 2..Len(m) : m[k - 1] < m[k]
        /\ ~SpringIn =>
             /\ \A k \in DOMAIN m : stamps[1] <= m[k] /\ m[k] <= stamps[n] /\ named(m[k])
             /\ \A k \in 2..Len(m) : Wall(m[k]) - Wall(m[k - 1]) = step
             /\ m # << >> => Wall(stamps[n]) - Wall(Last(m)) < step
             /\ stamps[1] \notin Fall..(Fall + HOUR - 1) =>
                  Wall(IF m = << >> THEN stamps[n] ELSE m[1]) - Wall(stamps[1]) < step
             /\ axisMinor(plot) # None => \A k \in 2..Len(m) :
                  Cardinality({t \in axis.minors : m[k - 1] < t /\ t < m[k]})
                    = step \div axisMinor(plot) - 1

(* The temperature axis holds every reading and every limit in reach between   *)
(* its ends, on three lines or more that do not touch; a limit beyond it is    *)
(* marked on its own side; and the limits leave the readings three tenths of   *)
(* the height once these span six degrees.                                   *)
AxisHolds ==
  \A plot \in Plots, set \in Settings :
    LET lines == chartLimits(set)
        sc    == drawTemperature(plot, lines)
    IN  sc # None =>
          /\ \A v \in plotted \cup limitOverlay(lines) : sc.min <= v /\ v <= sc.max
          /\ Cardinality(sc.ticks) >= 3 /\ \A t \in sc.ticks : sc.min <= t /\ t <= sc.max
          /\ sc.step * plotH(plot) >= TIGHT_PX * (sc.max - sc.min)
          /\ \A f \in lines \ limitOverlay(lines) :
               f < Min(plotted) - 3 * Unit \/ f > Max(plotted) + 3 * Unit
          /\ LET span == Max(plotted) - Min(plotted)
             IN  span >= 6 * Unit => 10 * span >= 3 * (sc.max - sc.min)

(* What is drawn is what was measured: all of it, and nothing over the dark.   *)
DrawnAsMeasured == NothingAcrossOutage /\ NothingLeftOut

(* What has an instant is drawn where that instant is, and is labelled.       *)
MarksInPlace == OneTimeline /\ LabelsApart
=============================================================================
