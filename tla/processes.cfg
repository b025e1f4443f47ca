SPECIFICATION AllFairSpec
CONSTANTS
  After = 2
  MaxTests = 1
  MaxRestarts = 1
  MaxReleases = 2
  Ops = {o1, o2, o3}
  o1 = o1
  o2 = o2
  o3 = o3
  KeepLast = 1
  Overlap = FALSE
  Faults = TRUE
  h1 = h1
  h2 = h2
  Handlers = {h1, h2}
  Limit = 1
  Old = 2
  Paths = {"composer", "pipfile"}
  MaxLists = 2
  q1 = q1
  q2 = q2
  Filesystems = {"root", "share"}
  DiskPath = "root"
  Queries = {q1, q2}
INVARIANTS
  ToldOnce
  SuccessIsTrue
  
  NoPileUp
PROPERTIES
  ToldInTheEnd
  FollowsInTheEnd
  AvailableAgain
  
  TimeTells
  
  SoftwareCatchesUp
\* Each operation of the backups runs once, so that part stops after the last.
CHECK_DEADLOCK FALSE
