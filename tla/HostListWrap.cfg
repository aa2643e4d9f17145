CONSTANTS
  Lists <- Extreme
  Modulus = 16
  MaxHosts = 3
SPECIFICATION Spec
INVARIANT AllocationBounded
CHECK_DEADLOCK FALSE
