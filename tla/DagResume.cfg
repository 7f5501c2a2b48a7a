SPECIFICATION Spec
CONSTANTS
  N = 5
  Deps <- Resumed
  Gate <- ResumedGates
  MaxRetries <- Nothing5
  RollbackTo <- ResumedBack
  Loops = {}
  StoreKind = "file"
  PreApproved = {2}
  MaxRuns = 3
INVARIANTS IInv DepsEndedWell DroppedOnlyIfDoomed OutcomeHolds SavedWorkNotRedone
