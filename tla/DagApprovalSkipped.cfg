SPECIFICATION Spec
CONSTANTS
  N = 2
  Deps <- Pair
  Gate <- ApprovalFirst
  MaxRetries <- Nothing2
  RollbackTo <- Nothing2
  Loops = {}
  StoreKind = "shared"
  PreApproved = {}
  MaxRuns = 2
INVARIANTS CompletedIsApproved
