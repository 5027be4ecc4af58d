SPECIFICATION FairSpec
CONSTANTS
  NumStreams = 3
  Lcores <- MCLcores
  Worker <- MCShared
  WaitedLcore = 1
INVARIANTS
  TypeOK
  SetUpBeforeLaunch
  WaitedWorkerGone
  EveryStreamServed
PROPERTIES
  TeardownReturns
  WaitedWorkersStop
CHECK_DEADLOCK FALSE
