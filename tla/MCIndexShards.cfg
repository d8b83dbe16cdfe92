CONSTANTS
  Workers = {a, b}
  Tasks <- MCTasks
  NoTask = NoTask
  Batch = 3
  MaxCalls = 4

SPECIFICATION Spec

INVARIANTS
  QuietCalls
  EachOnce
PROPERTIES
  QuietQueue
  Implements
  CallsEnd

CHECK_DEADLOCK FALSE
