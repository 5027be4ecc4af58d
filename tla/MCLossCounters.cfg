SPECIFICATION Spec
CONSTANTS
  a = a
  b = b
  Streams <- MCTwoStreams
  SeqMod = 5
  Foreign = TRUE
  MaxPackets = 3
  MaxMissing = 2
SYMMETRY Symmetry
INVARIANTS
  TypeOK
  GapsAreReal
  InnerLossIsSeen
  TotalIsSum
  RateAtMostOne
  OnlyLosesUpdates
CHECK_DEADLOCK FALSE
