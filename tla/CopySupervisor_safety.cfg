CONSTANTS
  f1 = f1
  f2 = f2
  Files = {f1, f2}
  Workers = {w1, w2, w3, w4}
  Size <- MCSize
  NoFile = NoFile
  Foreign = Foreign
  None = None
  Leftovers = {}
  DestFaults = FALSE
  MaxPasses = 2
  MaxUnkillable = 1
SPECIFICATION MCSpec
SYMMETRY Symmetry
INVARIANTS
  TypeOK
  SuccessIsComplete
  NoStaleAnswer
  AtMostOneWriter
  NoLitter
PROPERTIES
  DestNeverPartial
  AnswersHaveCause
  RefinesAtomicCopy
CHECK_DEADLOCK FALSE
