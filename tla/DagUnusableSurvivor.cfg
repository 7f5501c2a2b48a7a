SPECIFICATION Spec
CONSTANTS
  N = 2
  Deps <- Pair
  Gate <- Ungated
  MaxRetries <- Nothing2
  RollbackTo <- Nothing2
  Loops = {}
  StoreKind = "file"
  PreApproved = {}
  MaxRuns = 2
INVARIANTS SurvivorsAreUsable
