SPECIFICATION FairSpec
CONSTANTS
  db = db
  web = web
  apps = apps
  data = data
  Services = {db}
  Groups = {apps}
  Clients = {c1}
  JobIds = {j1}
  Starter = starter
  Registries <- OneAuto
  JobLimit = 1
  MaxGen = 1
  Faults = {"pm2", "shutdown"}
  None = None
PROPERTIES
  JobsEnd
  RequestsEnd
CHECK_DEADLOCK FALSE
