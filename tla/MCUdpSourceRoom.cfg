SPECIFICATION Spec
CONSTANTS
  c1 = c1
  c2 = c2
  Caller <- MCCaller
  SamplesPerPacket = 3
  HeaderWords = 2
  Request <- MCRequest
  Size <- MCSize
  Control <- MCControl
  Start <- MCStart
  QueueCap = 2
  MaxSent = 4
INVARIANTS
  AtMostRequested
CHECK_DEADLOCK FALSE
