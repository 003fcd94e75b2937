SPECIFICATION FairSpec
CONSTANTS
  None = None
  Answer = Answer
  Fields <- MCFields
  Names = {"old", "new"}
  Blank = ""
  First <- MCFirst
  Configs <- MCConfigs
  MaxOutside = 1
  MaxDeeds = 2
PROPERTIES StepsKeepApart RowsFollow SentWasTyped
