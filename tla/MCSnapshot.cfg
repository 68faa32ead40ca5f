SPECIFICATION FairSpec
CONSTANTS
  Readers = {r1, r2}
  Refresher = refresher
  MaxChanges = 2
  None = None
INVARIANTS
  SingleFlight
PROPERTIES
  ReadsNeverGoBack
  StaleIsRenewed
  WaitersReturn
