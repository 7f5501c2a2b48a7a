SPECIFICATION Spec
CONSTANTS
  review = review
  build = build
  retry = retry
  write = write
  search = search
  unknown = unknown
  flagged = flagged
  other = other
  NoTask = NoTask
  NoFile = NoFile
  Broken = Broken
  Task = {review, build, retry}
  Tool = {write, search, unknown}
  Approved = {write, search}
  Path = {flagged, other}
  Writers = {write}
  Adapters = {write}
  Permissions <- TaskPermissions
  Targets <- TaskTargets
  RuleSet <- TwoFiles
  FirstFile = NoFile
  MaxActive = 2
  MaxMtime = 1
INVARIANTS JudgedByOwn
