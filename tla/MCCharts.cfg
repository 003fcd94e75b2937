SPECIFICATION Spec
CONSTANTS
  None = None
  Std <- MCStd
  Spring <- MCSpring
  Fall <- MCFall
  Samples <- MCSamples
  Starts <- MCStarts
  Plots <- MCPlots
  Settings <- MCSettings
  MaxRows = 4
  Loops = 3
INVARIANTS DrawnAsMeasured MarksInPlace TicksOnClock AxisHolds
CHECK_DEADLOCK FALSE
