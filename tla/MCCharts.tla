------------------------------- MODULE MCCharts -------------------------------
(* Model checking Charts on the days around both clock changes of a zone      *)
(* eight hours behind UTC, on a phone and on a desktop.                      *)
EXTENDS Charts

MCStd    == -8 * HOUR
MCSpring == 100 * 7 * DAY + 3 * DAY + 10 * HOUR
MCFall   == MCSpring + 34 * 7 * DAY - HOUR

\* A Saturday evening before each.
MCStarts == {MCSpring - 9 * HOUR, MCFall - 10 * HOUR}

Row(wait, tf, of, flips, band, chg) ==
  [wait |-> wait, tf |-> tf, of |-> of, flips |-> flips, band |-> band, chg |-> chg]

MCSamples == {Row(1, 75 * Unit, 61 * Unit, TRUE, TRUE, FALSE),
              Row(1, 58 * Unit, 61 * Unit, TRUE, FALSE, TRUE),
              Row(1, 60 * Unit, None, FALSE, TRUE, TRUE),
              Row(5 * HOUR, 58 * Unit, 61 * Unit, TRUE, TRUE, TRUE),
              Row(2 * DAY, 75 * Unit, 61 * Unit, TRUE, TRUE, TRUE)}

MCPlots == {[w |-> 320, h |-> 220], [w |-> 1150, h |-> 250]}
MCSettings == {[low |-> None, high |-> 120 * Unit], [low |-> 55 * Unit, high |-> 78 * Unit]}
=============================================================================
