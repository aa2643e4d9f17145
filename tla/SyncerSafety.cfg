CONSTANTS
  Nodes = {"n1"}
  JobIDs = {"j1", "j2"}
  Templates = {"t0", "t1", "t2"}
  TTLs = {1, 2}
  Slots <- OneSlot
  Accounts = {"a", "b", "bad"}
  Renderable = {"a", "b"}
  NotRunning = NotRunning
  Configs <- DryConfigs
  Seeds <- Strangers
  Hints = {"slurm", "other"}
  UUIDs <- UUIDPool
  Nil = Nil
  BatchSize = 1
  PageSize = 9
  MaxEvents = 2
  MaxFaults = 1
  MaxStops = 1
  MaxEdits = 0
SPECIFICATION Spec
INVARIANTS TypeOK WithdrawalInv OwnershipInv
PROPERTIES NoLiveWithdrawal OnlyOwnedTouched ImplementsRegistrar
