SPECIFICATION Spec
CONSTANTS
  a = a
  b = b
  Streams <- MCOneStream
  BurstSize = 2
  Traffic = {"DATA", "METADATA", "FLOW_CONTROL", "UNMATCHED"}
  MaxPackets <- MCMaxPacketsOne
INVARIANT
  DumpIsKept
CHECK_DEADLOCK FALSE
