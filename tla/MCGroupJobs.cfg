SPECIFICATION Spec
CONSTANTS
  db = db
  web = web
  apps = apps
  data = data
  Services = {db, web}
  Groups = {apps, data}
  Clients = {c1}
  JobIds = {j1}
  Starter = starter
  Registries <- Pairs
  JobLimit = 1
  MaxGen = 1
  Faults = {"pm2"}
  None = None
INVARIANTS
  ReportsFollowDependencies
PROPERTIES
  RestartRevivesNothing
  
  
CHECK_DEADLOCK FALSE
