SPECIFICATION FairSpec
CONSTANTS
  m1 = m1
  m2 = m2
  m3 = m3
  Mbufs <- MCMbufs
  RingCap = 2
  RxBurst = 2
  AppBurst = 2
  Traffic <- MCTraffic
  MaxArrivals = 3
INVARIANTS
  TypeOK
  ExclusiveOwnership
  RingIntact
  LeakOnlyWhenFull
  IInv
PROPERTIES
  DeliveredInOrder
  StarvationIsFinal
  SourceSpec
  BurstHandled
  QuitStopsRxThread
CHECK_DEADLOCK FALSE
