CONSTANTS
  home = home
  moved = moved
  poller = poller
  Callers = {poller}
  Scheduler = poller
  Urls = {home}
  HomeUrl = home
  Forms <- SameUrl
  MaxVersion = 3
  MaxEdits = 2
  MaxCrashes = 1
SPECIFICATION Spec
INVARIANTS TypeOK ReasonMeansPaused
PROPERTIES  NothingHidden
CHECK_DEADLOCK FALSE
