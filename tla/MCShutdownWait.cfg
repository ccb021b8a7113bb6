CONSTANTS
  Kinds = {"pool"}
  max_instances = 1
  Coalesced = {"pool"}
  grace = TRUE
  maxlen = 1
  Waits = {TRUE}
  cancel_futures = FALSE
  MaxSends = 2
  MaxTimes = 2
SPECIFICATION FairSpec
PROPERTIES
  ShutdownReturns
CHECK_DEADLOCK FALSE
