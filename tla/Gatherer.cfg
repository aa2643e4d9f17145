CONSTANTS
  Documents <- MCDocuments
  Modulus = 16
  MaxHosts = 3
  Lists = {}
SPECIFICATION GatherFairSpec
INVARIANTS GatherTypeOK ExpandsExactly AllocationBounded EachJobOnItsOwn
PROPERTY DecodedIsReturned
CHECK_DEADLOCK FALSE
