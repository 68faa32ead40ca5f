SPECIFICATION Spec
CONSTANTS
  i1 = i1
  i2 = i2
  Services = {db, web}
  Images = {i1, i2}
  Definitions <- Few
  MaxHandEdits = 1
  Broken = Broken
  None = None
SYMMETRY Symmetric
INVARIANTS
  RunningAsPublished
  ChangesKept
  PublishedIsSound
CHECK_DEADLOCK FALSE
