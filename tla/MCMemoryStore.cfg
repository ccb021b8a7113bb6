CONSTANTS
  a = a
  b = b
  c = c
  c2 = c2
  Tasks <- MCTasks
  Ids <- MCIds
  IdOf <- MCIdOf
  Times <- MCTimes
  Never = 9
  NoRow = NoRow
SPECIFICATION Spec
INVARIANTS
  TypeOK
  Consistent
  SearchLands
PROPERTIES
  CallReturns
  ImplementsTaskStore
CHECK_DEADLOCK FALSE
