SPECIFICATION FanSpec
CONSTANTS
  MaxStep = 2
  kHighUs <- SafeHighUs
  RawDuties <- SafeRaw
  NaN = NaN
  kTicksMax = 2
  kMinRunTicks = 2
  Insides <- SafeInsides
  Outsides <- SafeOutsides
  Vocs <- SafeVocs
  Defaults <- SafeDefaults
  Requests <- AllRequests
  CutRequests <- AllCuts
INVARIANT FanHonest
PROPERTIES DwellHonoured NoVentAtFloor BoostIsFloorNotCeiling FanOutputSpec RestartResumes GapLostOnlyInCut SaidIsDone
