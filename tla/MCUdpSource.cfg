SPECIFICATION FairSpec
CONSTANTS
  c1 = c1
  c2 = c2
  Caller <- MCCaller
  SamplesPerPacket = 3
  HeaderWords = 2
  Request <- MCRequest
  Size <- MCSize
  Control <- MCControl
  Start <- MCStart
  QueueCap = 2
  MaxSent = 4
INVARIANTS
  TypeOK
  CountIsPlaces
  PrefixIfAllData
  OrderInArray
  NextHeaderReadable
PROPERTIES
  BlocksOnlyOnEmptySocket
  SourceSpec
CHECK_DEADLOCK FALSE
