SPECIFICATION Spec
CONSTANTS
  Feeds = {f1, f2}
  Posts = {q1, q2}
  Pictured = {q1, q2}
  Attached = {q2}
  Pollers = {p1}
  MaxId = 2
  MaxInserts = 2
  MaxDeletions = 1
  MaxRuns = 1
  NULL = NULL
INVARIANTS TypeOK 
PROPERTIES CollectSpares 
