SPECIFICATION Spec
CONSTANTS
  Alphabet <- MCAlphabet
  MaxFindings = 3
  Sweeps <- MCSweeps
  Delays = {0, 3}
CHECK_DEADLOCK FALSE
INVARIANTS
  AllClearIsEarned
  AlarmsAreEarned
  GoneMeansGone
  CapIsFair
