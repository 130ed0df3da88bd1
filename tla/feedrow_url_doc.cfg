CONSTANTS
  home = home
  moved = moved
  poller = poller
  Callers = {poller}
  Scheduler = poller
  Urls = {home, moved}
  HomeUrl = home
  Forms <- OtherUrl
  MaxVersion = 2
  MaxEdits = 1
  MaxCrashes = 0
SPECIFICATION Spec
PROPERTIES NothingHidden
CHECK_DEADLOCK FALSE
