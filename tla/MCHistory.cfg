SPECIFICATION Spec
CONSTANTS
  None = None
  Ranges <- MCRanges
  Query <- MCQuery
  Window <- MCWindow
  Span <- MCSpan
  RingLen = 5
  MaxPts = 5
  Devices <- MCDevices
  Blocks = 2
  MaxNow = 8
  MaxLoads = 3
  MaxUpsets = 1
INVARIANTS SeriesHonest PinSafe PlotsCurrent RailHonest
