CONSTANTS
  f1 = f1
  f2 = f2
  f3 = f3
  h1 = h1
  h2 = h2
  NULL = NULL
  Feeds = {f1, f2, f3}
  Hosts = {h1, h2}
  HostOf <- TwoHosts
  Intervals <- FastAndSlow
  Floor <- FloorTwo
  Offsets <- OneOffset
  Backoffs = {2}
  PluginBackoffs = {}
  Spacing = 2
  WindowFloor = 2
  BaseInterval = 4
  MinWake = 1
  Workers = 1
  Manual = {}
  Toggled = {}
  MaxRestarts = 0
  MaxAge = 4
  MaxLate = 1
  Day = 8
  Buffer = 2
  Jitter = 3
SPECIFICATION FairSpec
INVARIANTS FirstComeFirstServed
PROPERTIES SpacedBacklog SleepsNoLonger  
