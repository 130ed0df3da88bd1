SPECIFICATION FairSpec
CONSTANTS
  Readers = {r1, r2}
  Admins = {admin}
  Urls = {s1}
  Settings = {s1, s2}
  Stored = s1
  Claims <- ModelClaims
  CacheLimit = 1
  IdleTimeout = 1
  MaxSaves = 1
  MaxFaults = 1
  NULL = NULL
INVARIANTS TypeOK Configured
PROPERTIES NotKilledInUse 
