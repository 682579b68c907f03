SPECIFICATION FairGuardSpec
CONSTANTS
  Calls = {c1, c2, c3, c4}
  Lanes = {ros, dds}
  NoLane = NoLane
  Nobody = Nobody
  MaxWaiters = 1
  ToolBudget = 3
  MinRun = 2
INVARIANTS
  LaneExclusive
PROPERTIES
  StartsInTime
  NeverWaitsForEver
