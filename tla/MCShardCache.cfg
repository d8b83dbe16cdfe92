CONSTANTS
  NoThread = NoThread
  Threads = {t1, t2}
  Ids <- MCIds
  NShards = 2
  Capacity = 2
SPECIFICATION Spec
INVARIANTS
  NoDuplicate
  Accounting
  SoftCapacity
