SPECIFICATION FairSpec
CONSTANTS
  p1 = p1
  p2 = p2
  w1 = w1
  r1 = r1
  Participants <- OnePart
  Endpoints <- TwoEnds
  OwnerOf <- OwnerBoth
  RoleOf <- RoleBoth
  MaxEvents = 8
  MaxParticipants = 2
  MaxCached = 2
  MaxGone = 2
  MaxDeparted = 1
  MaxRecent = 1
  MaxRoles = 1
  RemovalWindow = 1
  MaxChanges = 5
  MaxFailures = 1
  MaxTime = 3
INVARIANTS
  SnapshotWhole
  LossesAreTrue
PROPERTIES
  DepartsWhole
  ViewConverges
