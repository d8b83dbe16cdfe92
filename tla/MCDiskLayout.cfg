CONSTANTS
  nlist = 4
  PageVectors = 2
  IN_LIST_CLUSTER_RATIO = 1
  assign_replicas = 2
  partition_num = 2
  order = 1
  BatchNums <- MCBatchNums
  BatchSizes <- MCBatchSizes
  MaxVectors = 3
  GivenIds <- MCNoIds
  Absent = Absent

SPECIFICATION Spec

INVARIANTS
  DiskMatches
  EntriesMatch
  HomeLists
  DataKept
