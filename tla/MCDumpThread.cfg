SPECIFICATION FairSpec
CONSTANTS
  a = a
  b = b
  Streams <- MCTwoStreams
  BurstSize = 2
  Traffic = {"DATA", "METADATA", "FLOW_CONTROL", "UNMATCHED"}
  MaxPackets <- MCMaxPackets
INVARIANTS
  TypeOK
  FileIsRun
  ListsSuffice
  OwnContents
PROPERTIES
  DumpStopsAll
CHECK_DEADLOCK FALSE
