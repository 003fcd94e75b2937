SPECIFICATION PlugFairSpec
CONSTANTS
  Baseline <- MCBaseline
  Watts = {0, 5, 10, 20}
  kMinExpect = 7
  kConfirm = 2
  kWindow = 6
  kOnset = 3
  kQuiet = 7
  kSettle = 2
  kStale = 1
  kLongGap = 3
INVARIANT PlugSafe
PROPERTY EpisodeEnds
