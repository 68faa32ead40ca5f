SPECIFICATION FairSpec
CONSTANTS
  Definitions = {a, b}
  Threshold = 1
  Grace = 1
  Cooldown = 1
  PerHour = 2
  Hour = 3
  MaxTime = 3
  MaxPid = 2
  None = None
INVARIANTS
  BudgetHolds
PROPERTIES
  RestartsWhatFailed
  PollsEnd
