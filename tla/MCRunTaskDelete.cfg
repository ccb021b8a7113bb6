CONSTANTS
  a = a
  b = b
  b2 = b2
  Tasks = {a}
  Ids <- MCIds
  IdOf <- MCIdOf
  Times <- MCTimes
  Never = 99
  NoRow = NoRow
  Clients = {c1, c2}
  Api = {"add_task", "delete_task", "run_task"}
  MaxTime = 3
  Interval = {a}
  Period = 2
  Starts = {1}
  Settings = {2}
  Coalesce = {}
  MaxInstances = 1
  Retry = 1
  MaxFailures = 0
  MaxSendErrors = 0
  MaxQueue = 2
  Idle = Idle
SPECIFICATION Spec
INVARIANTS
  RemovedStaysOut
CHECK_DEADLOCK FALSE
