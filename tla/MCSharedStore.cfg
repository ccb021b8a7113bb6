CONSTANTS
  p = p
  q = q
  a = a
  Paused = Paused
  NoRow = NoRow
  Empty = Empty
  NoProc = NoProc
  Keep = Keep
  Procs <- MCProcs
  Ids <- MCIds
  Times <- MCTimes
  Strangers <- MCStrangers
  UserTimes <- MCUserTimes
  LockPath = TRUE
  MaxCalls = 2
  MaxDowns = 1
SPECIFICATION FairSpec
INVARIANTS
  TypeOK
  OneWinner
  SubmittedOnce
  IndexComplete
PROPERTIES
  DueIsServed
CHECK_DEADLOCK FALSE
