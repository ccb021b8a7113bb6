CONSTANTS
  a = a
  b = b
  b2 = b2
  Tasks = {a, b}
  Ids <- MCIds
  IdOf <- MCIdOf
  Times <- MCTimes
  Never = 99
  NoRow = NoRow
  Clients = {c1}
  Api = {"add_task", "update_task", "resume_task", "delete_task", "pause"}
  MaxTime = 3
  Interval = {a}
  Period = 2
  Starts = {1}
  Settings = {2, 99}
  Coalesce = {a}
  MaxInstances = 1
  Retry = 1
  MaxFailures = 1
  MaxSendErrors = 0
  MaxQueue = 2
  Idle = Idle
SPECIFICATION Spec
PROPERTIES
  DueIsTakenUp
CHECK_DEADLOCK FALSE
