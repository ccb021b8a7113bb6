CONSTANTS
  a = a
  b = b
  b2 = b2
  Tasks = {b, b2}
  Ids <- MCIds
  IdOf <- MCIdOf
  Times <- MCTimes
  Never = 99
  NoRow = NoRow
  Clients = {c1, c2}
  Api = {"add_task", "update_task", "delete_task", "run_task"}
  MaxTime = 2
  Interval = {b2}
  Period = 1
  Starts = {1}
  Settings = {99}
  Coalesce = {}
  MaxInstances = 1
  Retry = 1
  MaxFailures = 0
  MaxSendErrors = 0
  MaxQueue = 2
  Idle = Idle
SPECIFICATION Spec
INVARIANTS
  TimestampsAgree
SYMMETRY ClientSymmetry
CHECK_DEADLOCK FALSE
