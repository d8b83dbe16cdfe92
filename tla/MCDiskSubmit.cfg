CONSTANTS
  MaxReads = 4
  MaxBatches = 3
  MaxInterrupts = 2
  RingSize = 3
SPECIFICATION Spec
INVARIANTS
  Accepted
  WaitsForReads
PROPERTIES
  Implements
  Ends
