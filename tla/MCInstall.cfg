SPECIFICATION InstallFairSpec
CONSTANTS
  None = None
  Unparsed = Unparsed
  Feeds <- MCFeeds
  FirstFeeds <- MCFirstFeeds
  FirstImage <- MCFirst
  FirstConf <- MCFirst
  Files <- MCFiles
  MaxBoots = 2
  MaxOutside = 1
  MaxFaults = 1
  MaxChecks = 1
INVARIANTS VerifiedOrWarned VerdictHonest UpdateJudged
PROPERTIES OfferSound InstallEnds
CHECK_DEADLOCK FALSE
