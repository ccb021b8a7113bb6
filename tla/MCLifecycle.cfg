CONSTANTS
  u1 = u1
  u2 = u2
  t1 = t1
  t2 = t2
  Users = {u1, u2}
  Threads = {TRUE, FALSE}
  Tasks = {t1, t2}
  MaxQueue = 3
  MaxFailures = 1
  Idle = Idle
SPECIFICATION Spec
INVARIANTS
  TypeOK
  RefCounts
  OneBringUp
  UpWhileHeld
  PendingAreScheduledOnLoop
  AssertionHoldsOnLoop
PROPERTIES
  LastOutStops
CHECK_DEADLOCK FALSE
