SPECIFICATION Spec
CONSTANTS
  n1 = n1
  n2 = n2
  scan = scan
  rosout = rosout
  A = A
  B = B
  best = best
  rel = rel
  b1 = b1
  b2 = b2
  b3 = b3
  vol = vol
  tl = tl
  NoRate = NoRate
  NoPath = NoPath
  NoSnapshot = NoSnapshot
  Unreadable = Unreadable
  Modes = {"live", "mock", "fallback"}
  Graphs <- MCGraphs
  Fixture <- MCFixture
  Seed <- MCSeed
  Bags <- MCBags
  MockBag <- MCMockBag
  Paths = {b1, b2, b3}
  Builtin = {rosout}
  RingSize = 2
  MaxChanges = 1
  MaxCalls = 3
INVARIANTS
  RingIsHistory
  ReportsHold
CHECK_DEADLOCK FALSE
