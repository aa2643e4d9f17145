CONSTANTS
  Nodes = {"n1"}
  JobIDs = {"j1", "j2"}
  Templates = {"t0", "t1", "t2"}
  TTLs = {1, 2}
  Slots <- OneSlot
  Accounts = {"a", "b"}
  Renderable = {"a", "b"}
  NotRunning = NotRunning
  Configs <- OneConfig
  Seeds = {}
  Hints = {"slurm", "other"}
  UUIDs <- UUIDPool
  Nil = Nil
  BatchSize = 1
  PageSize = 9
  MaxEvents = 1
  MaxFaults = 0
  MaxStops = 0
  MaxEdits = 0
SPECIFICATION FairSpec
PROPERTY EventuallyExact
