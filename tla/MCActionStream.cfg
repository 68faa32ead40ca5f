SPECIFICATION Spec
CONSTANTS
  Runs = {r1}
  MaxRuns = 1
  KeepRuns = 1
  MaxLines = 1
  Eventful = {r1}
  None = None
PROPERTIES
  StreamsFollowRuns
CHECK_DEADLOCK FALSE
