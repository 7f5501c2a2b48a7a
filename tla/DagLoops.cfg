SPECIFICATION FairSpec
CONSTANTS
  N = 4
  Deps <- Looping
  Gate <- LoopingGates
  MaxRetries <- LoopingRetries
  RollbackTo <- Nothing4
  Loops <- LoopingLoops
  StoreKind = "shared"
  PreApproved = {3}
  MaxRuns = 2
INVARIANTS DoneIsApproved CallsBounded
PROPERTIES RunEnds KeepsContract
