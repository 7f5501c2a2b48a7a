CONSTANTS
    Requests = {r1, r2, r3}
    Limit = 2
    Procs = {p1, p2}
    Steps = {s1, s2}
    MaxSaves = 2
    MaxCrashes = 1
    Writers = {w1, w2}
    Keys = {k1, k2}
    MaxEntries = 2
    MaxStored = 4
    MaxDeaths = 1
    Step <- Steps3
    Unknown <- Nowhere
SPECIFICATION Spec
CHECK_DEADLOCK FALSE
INVARIANTS PermitsConserved FilesAreDue OnlyOverlapsHurt StoresAgree LossesAreBounded VerdictsAgree LayersAreEarliest
PROPERTIES AllAnswered SortEnds
