SPECIFICATION FairSpec
CONSTANTS
  Updaters = {u1, u2}
  Clients = {c}
  Procs = {p, q}
  Versions = {v1, v2}
  Bundled = v1
  Faults = {"command", "crash", "service"}
  MaxTrouble = 3
  None = None
INVARIANTS
  FencedWhileMixed
  StatesPreserved
PROPERTIES
  JournalKept
  ReportsTrue
  UpdatesEnd
CHECK_DEADLOCK FALSE
