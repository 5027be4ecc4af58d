SPECIFICATION Spec
CONSTANTS
  m1 = m1
  m2 = m2
  m3 = m3
  Mbufs <- MCMbufs
  RingCap = 2
  RxBurst = 2
  AppBurst = 2
  Traffic <- MCSampleTraffic
  MaxArrivals = 4
SYMMETRY Symmetry
INVARIANTS
  NeverStarved
CHECK_DEADLOCK FALSE
