CONSTANTS
  Nodes = {"n1"}
  JobIDs = {"j1", "j2"}
  Templates = {"t0", "t1", "t2"}
  TTLs = {1, 2}
  Slots <- OneSlot
  Accounts = {"a"}
  Renderable = {"a"}
  NotRunning = NotRunning
  Configs <- TwoHints
  Seeds = {}
  Hints = {"slurm", "other"}
  UUIDs <- UUIDPool
  Nil = Nil
  BatchSize = 1
  PageSize = 9
  MaxEvents = 0
  MaxFaults = 0
  MaxStops = 1
  MaxEdits = 0
SPECIFICATION FairSpec
PROPERTY FreshSet
