CONSTANTS
  Instances = {"main", "backup"}
  Profile <- Apart
  Slots <- TwoSlots
  Seeds <- Leftovers
  UUIDs = {"u1", "u2", "u3", "u4", "u5", "u6"}
  Nil = Nil
  MaxEvents = 1
  MaxFaults = 1
  MaxCrashes = 1
SPECIFICATION FairSpec
INVARIANTS TypeOK ApartInv WritesDisjoint
PROPERTIES EntriesOfOthersStay EventuallyServed EventuallyWithdrawn
