\* A call that has returned is over.
CONSTANTS
  NoValue = NoValue
  NoAnswer = NoAnswer
  Schedules <- MCSchedules
  Starts <- MCStarts
  EndAt <- MCEndAt
  AllTriggers <- MCTriggersAll
  Instants <- MCInstants
  MaxCount = 3
SPECIFICATION Spec
INVARIANTS
  CronTypeOK
  CronFindsNext
  FindsEarliest
  RunTimesAdvance
PROPERTIES
  Returns
CHECK_DEADLOCK FALSE
