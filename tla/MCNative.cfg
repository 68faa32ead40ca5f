SPECIFICATION Spec
CONSTANTS
  a = a
  b = b
  p1 = p1
  p2 = p2
  t1 = t1
  t2 = t2
  Services = {a, b}
  Manage = {a, b}
  Looks <- FitsBoth
  Pids = {p1, p2}
  Threads = {t1, t2}
  Duties = {"restart", "kill", "autostart"}
  Rounds = 2
  Attempts = 1
  Versions = {1}
  MaxBorn = 2
  MaxBegun = 3
  MaxReload = 1
  MaxCrash = 1
  Faults = {"save"}
  None = None
SYMMETRY Symmetric
INVARIANTS
  SpawnedIsTracked
  
  RetiredIsStopped

  
  
