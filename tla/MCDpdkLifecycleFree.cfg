SPECIFICATION Spec
CONSTANTS
  NumStreams = 1
  Lcores <- MCLcores
  Worker <- MCElsewhere
  WaitedLcore = 1
INVARIANTS
  NoWorkerAfterTeardown
CHECK_DEADLOCK FALSE
