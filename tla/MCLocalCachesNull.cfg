CONSTANTS
  None = None
  Threads = {t1, t2}
  Ids = {v1, v2, v3}
  LocalCapacity = 2
  DpCapacity = 2
  BatchSize = 2
  LocalMergeSize = 2
  MaxReads = 2
  MaxQueries = 4
SPECIFICATION Spec
SYMMETRY Symmetry
INVARIANT CacheExists
