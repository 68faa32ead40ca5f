SPECIFICATION Spec
CONSTANTS
  db = db
  web = web
  apps = apps
  data = data
  Services = {db}
  Groups = {apps}
  Clients = {c1, c2}
  JobIds = {j1, j2}
  Starter = starter
  Registries <- Rebuilds
  JobLimit = 1
  MaxGen = 1
  Faults = {"maintenance", "edit"}
  None = None
SYMMETRY Symmetry
INVARIANTS
  OneActiveJob
PROPERTIES
  WorkerCommandsAreCurrent
  JobsFollowBoard
CHECK_DEADLOCK FALSE
