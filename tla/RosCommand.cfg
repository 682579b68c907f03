SPECIFICATION FairSpec
CONSTANTS
  Launcher = launcher
  Children = {child1}
  Grace = 1
  JoinAfter = 1
  Deadline = 1
  MaxOutput = 1
  PipeSize = 1
  MaxWrites = 2
  Budget = 1
  ExitWait = 1
  Wanted = 2
  MaxChars = 1
  LineLengths = {1}
  PipeLines = 1
  MaxLines = 4
INVARIANTS
  AnswersInTime
  NothingSurvives
  CleanExitSpares
  WholeAnswer
  DocumentsWhole
PROPERTIES
  NeverBlocked
CHECK_DEADLOCK FALSE
