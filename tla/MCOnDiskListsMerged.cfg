CONSTANTS
  NLists = 2
  CodeSize = 1
  Sizes = {0, 1, 9}
  MaxSize = 10
  MaxTotal = 256
  MaxSlots = 4
  AddsToMerged = TRUE
SPECIFICATION StorageSpec
INVARIANT
  SlotsFree
