CONSTANTS
  f1 = f1
  f2 = f2
  Files = {f1}
  Workers = {w1, w2, w3}
  Size <- MCSizeOne
  NoFile = NoFile
  Foreign = Foreign
  None = None
  Leftovers = {f1}
  DestFaults = TRUE
  MaxPasses = 1
  MaxUnkillable = 1
SPECIFICATION FairSpec
PROPERTIES
  CallReturns
  StopEndsPass
CHECK_DEADLOCK FALSE
