CONSTANTS
  Instances = {"main", "backup"}
  Profile <- Nested
  Slots <- OneSlot
  Seeds = {}
  UUIDs = {"u1", "u2", "u3", "u4"}
  Nil = Nil
  MaxEvents = 0
  MaxFaults = 0
  MaxCrashes = 0
SPECIFICATION Spec
PROPERTY EntriesOfOthersStay
