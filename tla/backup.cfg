SPECIFICATION Spec
CONSTANTS
  Keep = 2
  MaxCommits = 2
  MaxClock = 2
  MaxBacks = 1
  MaxCrashes = 1
  MaxFailures = 1
  NULL = NULL
INVARIANTS TypeOK  WalBelongs 
 
