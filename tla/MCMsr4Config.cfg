SPECIFICATION Spec
CONSTANTS
  x = x
  y = y
  Clients <- MCTwo
  Channels <- MCChannels
  Values <- MCValues
  Inputs <- MCInputs
  IntMax <- MCIntMax
  JsonFiles <- MCJsonFiles
  Setters = {"streaming", "sat"}
  Faults = {"get"}
SYMMETRY Symmetry
INVARIANTS
  TypeOK
  OkMeansApplied
  JsonProgress
  JsonComplete
PROPERTIES
  SingleFieldChanges
  
