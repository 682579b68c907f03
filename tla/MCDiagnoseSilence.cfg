SPECIFICATION Spec
CONSTANTS
  Alphabet <- MCAlphabet
  MaxFindings = 3
  Sweeps <- ReadSweeps
  Delays = {0, 3}
CHECK_DEADLOCK FALSE
INVARIANTS
  SilenceIsReported
