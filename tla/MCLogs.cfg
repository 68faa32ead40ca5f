SPECIFICATION FairSpec
CONSTANTS
  Keep = 2
  Threshold = 1
  Compress = TRUE
  MaxFiles = 3
  MaxLines = 2
  MaxFaults = 2
INVARIANTS
  RetentionKept
PROPERTIES
  LeavesNoLine
  
  StreamCatchesUp
