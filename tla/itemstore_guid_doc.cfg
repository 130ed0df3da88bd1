CONSTANTS
  Feeds = {1}
  Posts = {"p", "q"}
  Guids = {"new", "durable"}
  Keys = {"new", "durable"}
  CrossKeys = {0, 1}
  Documents <- GuidsKept
  Tokens = {"t"}
  Online = FALSE
  MaxId = 4
SPECIFICATION Spec
INVARIANTS BatchesSucceed
