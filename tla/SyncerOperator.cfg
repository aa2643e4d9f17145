CONSTANTS
  Nodes = {"n1"}
  JobIDs = {"j1", "j2"}
  Templates = {"t0", "t1", "t2"}
  TTLs = {1, 2}
  Slots <- TwoSlots
  Accounts = {"a"}
  Renderable = {"a"}
  NotRunning = NotRunning
  Configs <- OneConfig
  Seeds <- Mixed
  Hints = {"slurm", "other"}
  UUIDs <- UUIDPool
  Nil = Nil
  BatchSize = 1
  PageSize = 1
  MaxEvents = 1
  MaxFaults = 1
  MaxStops = 0
  MaxEdits = 1
SPECIFICATION FairSpec
PROPERTIES EventuallyCovered EventuallyQuiet WritesStayInClass
