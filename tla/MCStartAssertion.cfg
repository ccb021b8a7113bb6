CONSTANTS
  u1 = u1
  u2 = u2
  t1 = t1
  t2 = t2
  Users = {u1, u2}
  Threads = {TRUE}
  Tasks = {t1}
  MaxQueue = 3
  MaxFailures = 0
  Idle = Idle
SPECIFICATION Spec
INVARIANTS
  AssertionHolds
CHECK_DEADLOCK FALSE
