SPECIFICATION Spec
CONSTANTS
  N = 2
  Deps <- Pair
  Gate <- Ungated
  MaxRetries <- Nothing2
  RollbackTo <- Nothing2
  Loops <- ReviewLoop
  StoreKind = "fresh"
  PreApproved = {}
  MaxRuns = 1
INVARIANTS CompletedIsConsistent
