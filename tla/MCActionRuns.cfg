SPECIFICATION FairSpec
CONSTANTS
  Runs = {r1, r2}
  MaxRuns = 1
  KeepRuns = 1
  MaxLines = 1
  Eventful = {r1}
  None = None
INVARIANTS
  TypeOK
  
  UnfinishedKept
  RetentionHolds
PROPERTIES
  CancelSticks
  RunsEnd
  StreamsEnd
CHECK_DEADLOCK FALSE
