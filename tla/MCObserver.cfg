SPECIFICATION Spec
CONSTANTS
  Procs <- MCProcs
  Here = "desk"
  MaxTime = 4
  MaxStarts = 2
  MaxFails = 2
  GhostWindow = 1
  Correlation = 1
  MaxSpawns = 1
INVARIANTS
  NamesSurviveGoodbye
  RobotsAreNotGhosts
  GhostsAreTold
  WarmUpIsHonest
CHECK_DEADLOCK FALSE
