CONSTANTS
  PageElements <- MCPageElements
  Dims <- MCDims
  ListSizes <- MCListSizes
  PageGaps <- MCPageGaps

SPECIFICATION Spec

INVARIANTS
  OwnBytes
  ReadsInside
  RankedOnce
  AllConsidered
