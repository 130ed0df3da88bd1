CONSTANTS
  Feeds = {1, 2}
  Posts = {"p", "q"}
  Guids = {"old", "new", "other"}
  Keys = {"old", "new", "other"}
  CrossKeys = {0, 1}
  Documents <- Moving
  Tokens = {"t"}
  Online = FALSE
  MaxId = 4
SPECIFICATION Spec
INVARIANTS TypeOK OwnerListed BatchesSucceed
PROPERTIES NothingLost SharedKeyKept
