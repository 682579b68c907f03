SPECIFICATION Spec
CONSTANTS
  ClockHintTtl = 1
  MaxDomain = 3
  MaxSampleCount = 3
  CallFactor = 2
  MaxTime = 2
  Asks <- MCAsks
  L <- MCThresholds
  CheckEvery = 7
  PeekCheckEvery = 2
  P <- MCCaps
  SecretNames = {3}
  MaxListedEndpoints = 2
  EndpointlessAfter = 4
  DepartedTtl = 5
  NoName = NoName
  MaxSamplesPerTopic = 3
  MaxTopics = 1
  MaxPlausibleGap = 3
  Heard <- MCHeard
  MaxRecords = 4
  Windows = {1, 4}
  R <- MCRates
  Unsaid = Unsaid
  W <- MCWire
  H <- MCHintBounds
CHECK_DEADLOCK FALSE
INVARIANTS
  ServedAsSaid
  BagSummaryIsTrue
  PeekIsFirst
  ParamVerdictsAreTrue
  CountsAddUp
  RatesAreTrue
  ReadBackWhole
