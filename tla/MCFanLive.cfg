SPECIFICATION FanFairSpec
CONSTANTS
  MaxStep = 3
  kHighUs <- MCHighUs
  RawDuties <- MCNone
  NaN = NaN
  kTicksMax = 3
  kMinRunTicks = 2
  Insides <- LiveInsides
  Outsides <- LiveOutsides
  Vocs <- LiveVocs
  Defaults <- LiveDefaults
  Requests <- LiveRequests
  CutRequests <- MCNone
PROPERTIES AirSettles BadAirBoosted FaultHeals
