CONSTANTS
  Requests = {r1, r2}
  AdminRequests = {r1}
  MaxFailures = 1
  Window = 2
  DemoTtl = 2
  Tokens = {t1, t2}
  DemoTokens = {}
  MaxUsers = 2
  MaxId = 4
  MaxChanges = 1
  MaxFaults = 1
  NULL = NULL
SPECIFICATION Spec
INVARIANTS TypeOK  OneFounder OldPasswordOut FailuresBounded DemosBounded
PROPERTIES CleanupSpares DemosReclaimed
