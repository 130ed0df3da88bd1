CONSTANTS
  f1 = f1
  f2 = f2
  f3 = f3
  h1 = h1
  h2 = h2
  NULL = NULL
  Feeds = {f1, f2}
  Hosts = {h1}
  HostOf <- OneHost
  Intervals <- FastAndSlow
  Floor <- FloorTwo
  Offsets <- OneOffset
  Backoffs = {3}
  PluginBackoffs = {2}
  Spacing = 2
  WindowFloor = 2
  BaseInterval = 4
  MinWake = 1
  Workers = 1
  Manual = {f1}
  Toggled = {f2}
  MaxRestarts = 1
  MaxAge = 4
  MaxLate = 1
  Day = 8
  Buffer = 2
  Jitter = 3
SPECIFICATION Spec
INVARIANTS TypeOK  QueuedIsDue
PROPERTIES BackoffHonoured LineKept
