SPECIFICATION Spec
CONSTANTS
  Readers = {r1, r2}
  Admins = {admin}
  Urls = {s1, s2}
  Settings = {s1, s2}
  Stored = s1
  Claims <- ModelClaims
  CacheLimit = 2
  IdleTimeout = 1
  MaxSaves = 1
  MaxFaults = 0
  NULL = NULL
INVARIANTS MatchesCurrent
