SPECIFICATION ReadsSpec
CONSTANT Calls <- MCCalls
INVARIANTS
  EndsInTime
  SilenceIsEarned
  TreeAlarmsAreTrue
  FilteredIsNewest
CHECK_DEADLOCK FALSE
