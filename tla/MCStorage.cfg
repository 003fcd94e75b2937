SPECIFICATION LogFairSpec
CONSTANTS
  kFailCap = 2
  kBackoff = 2
  kMaxLines = 2
  kBatch = 2
  kEvents = 3
INVARIANTS LogSafe QuarantineHolds
PROPERTY Drains
