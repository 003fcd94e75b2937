SPECIFICATION MqttFairSpec
CONSTANTS
  MaxStep = 2
  kHighUs <- MCHighUs
  RawDuties <- MCRaw
  PersonValues <- MCPeople
  kInputs = 4
INVARIANT LinkSafe
PROPERTY Settles
