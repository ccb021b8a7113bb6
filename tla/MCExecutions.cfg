\* Nobody has to begin anything, a stopped scheduler does nothing more, and
\* requests come to their end.
CONSTANTS
  Kinds = {"pool", "loop", "debug"}
  max_instances = 1
  Coalesced = {"pool", "loop"}
  grace = TRUE
  maxlen = 1
  Waits = {FALSE}
  cancel_futures = TRUE
  MaxSends = 2
  MaxTimes = 2
  Ids = {"x", "y"}
  InMemory = {"y"}
  Requests = {"p", "q"}
  IdLists <- MCIdLists
  MaxRemovals = 1
  Jobs = {"x", "y"}
  Coroutines = {"x"}
  MaxReloads = 2
  Items = {1, 2, 3}
  Title <- MCTitle
  Executor <- MCExecutor
  Instants <- MCInstants
  Now = 2
  PerPage = 2
  PerTask = 2
  Limit = 2
  Recent = 2
  MaxChanges = 2
  Runs = {"r", "s"}
  TaskOf <- MCTaskOf
  Events <- MCEvents
  BufferLen = 2
  HistoryLen = 1
  PageLimit = 2
  Slack = 1
  MaxClock = 3
  MaxEntries = 3
SPECIFICATION MCSpec
INVARIANTS
  InstancesMatch
  HistoryTruthful
  AuditMatchesEffects
  CommandsKeepTheirWord
  PagesCoverTheList
  TimelineShowsTheNext
  PageShowsTheRun
PROPERTIES
  OutcomeKept
  Accounted
CHECK_DEADLOCK FALSE
