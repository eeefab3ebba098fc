SPECIFICATION Spec
CONSTANTS
  root = root  sub = sub  f = f  g = g  l = l  s = s   k = k
  Files = {g}  Links = {l}  Specials = {s}  Dirs = {root, sub}  DirLinks = {k}
  Root = root  In <- SparseIn  Up <- SparseUp  Selected <- SparseSelected  Size <- SparseSize
  NoFile = NoFile  Foreign = Foreign  None = None
  DestFaults = TRUE  SourceHangs = FALSE
  MaxPasses = 2  MaxCrashes = 1  MaxRetries = 1  MaxLosses = 1
INVARIANTS TypeOK SuccessHasCopy ReportHonest AtMostOneStartAfterPause
INVARIANTS EveryFileAccounted DirTimesAfterFirstPass
CHECK_DEADLOCK FALSE
