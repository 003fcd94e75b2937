SPECIFICATION OtaFairSpec
CONSTANTS
  Images <- MCImages
  Reaching <- MCReaching
  kMaxUnhealthy = 3
  kInputs = 4
  kParts = 2
  NvsMayFail = FALSE
INVARIANT OtaSafe
PROPERTIES RollBackEarned EndsConfirmed
