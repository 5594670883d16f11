SPECIFICATION Spec
CONSTANTS
  Pairs <- MCPairs
  Traded <- MCTraded
  Length = 3
  Span = 2
  MaxAttempts = 2
  MinBars = 1
  MissFactor = 50
  WeekendGaps = {3}
  MaxTime = 5
  ReplayLength = 2
  DayLength = 3
  MaxRuns = 2
  MaxFaults = 1
INVARIANTS
  TypeOK
  WindowComplete
  EntersOnRecord
  ReplayCovered
CHECK_DEADLOCK FALSE
