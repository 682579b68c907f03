SPECIFICATION Spec
CONSTANTS
  Host1 = Host1
  Host2 = Host2
  NoHost = NoHost
  NoType = "?"
  NoParticipant = "unknown"
  Builtin = {3}
  Internal = {4}
  RosTopics = {1}
  HostName <- MCHostName
  Skew <- MCSkew
  Names <- MCNames
  Wild <- MCWild
  Covers <- MCCovers
  LateJoin = 1
  MaxItems = 1
  Buses <- MCBuses
INVARIANT
  VerdictsAreTrue
PROPERTY
  FixCures
