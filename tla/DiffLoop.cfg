CONSTANTS
  DesiredLists <- Wanteds
  ExistingLists <- Listings
  Opts <- OurOpts
  UUIDs <- UUIDSeq
SPECIFICATION Spec
INVARIANTS TypeOK AgreesWithDiff WritesOnce Converges
CHECK_DEADLOCK FALSE
