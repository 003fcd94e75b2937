SPECIFICATION FairSpec
CONSTANTS
  NoFrame = NoFrame
  None = None
  Out = Out
  Lost = Lost
  CmdSlots <- MCCmdSlots
  FetchTimeout = 2
  PollEvery = 3
  OfflineAfter = 4
  MaxFails = 2
  MaxUp = 1
  MaxBoots = 1
  MaxRev = 1
  MaxFaults = 1
  MaxQueue = 1
INVARIANT ContactHonest
PROPERTIES MirrorSpec EndsHonest
