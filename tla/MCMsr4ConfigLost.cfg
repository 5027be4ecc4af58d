SPECIFICATION Spec
CONSTANTS
  x = x
  y = y
  Clients <- MCOne
  Channels <- MCChannels
  Values <- MCValues
  Inputs <- MCInputs
  IntMax <- MCIntMax
  Setters = {"streaming", "sat"}
  JsonFiles <- MCJsonFiles
  Faults = {"set"}
INVARIANTS
  OkMeansApplied
CHECK_DEADLOCK FALSE
