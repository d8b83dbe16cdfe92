CONSTANTS
  A = A
  B = B
  C = C
  Ids = {1, 2, 3}
  Lists = {A, B, C}
  ListIds <- MCListIds
  NQueries = 2
  NProbe = 3
  Top = 1
  RoundSizes = {1, 2}
  FullVolume = 1
  OneVolume = 1
  TwoVolume = 2
SPECIFICATION Spec
INVARIANTS
  DecodeAhead
  IndicatorSizes
  NoSilentLoss
  HeapCopies
PROPERTY
  Answered
