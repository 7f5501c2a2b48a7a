SPECIFICATION Spec
CONSTANTS
  N = 4
  Deps <- Diamond
  Gate <- DiamondGates
  MaxRetries <- DiamondRetries
  RollbackTo <- Nothing4
  Loops = {}
  StoreKind = "fresh"
  PreApproved = {}
  MaxRuns = 1
INVARIANTS ResultsAreSound CompletedIsConsistent
