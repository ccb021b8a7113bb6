CONSTANTS
  a = a
  b = b
  b2 = b2
  Tasks = {a, b}
  Ids <- MCIds
  IdOf <- MCIdOf
  Times <- MCTimes
  Never = 99
  NoRow = NoRow
  Clients = {c1, c2}
  Api = {"add_task", "update_task", "reschedule_task", "resume_task", "delete_task", "remove_all_tasks", "pause", "executors"}
  MaxTime = 3
  Interval = {a}
  Period = 1
  Starts = {1}
  Settings = {2, 99}
  Coalesce = {}
  MaxInstances = 1
  Retry = 1
  MaxFailures = 0
  MaxSendErrors = 1
  MaxQueue = 2
  Idle = Idle
SPECIFICATION Spec
INVARIANTS
  TypeOK
  TimestampsAgree
  TimerCovers
  RunOnce
  NoRunLost
  RemovedStaysOut
  PausedStays
SYMMETRY ClientSymmetry
CHECK_DEADLOCK FALSE
