SPECIFICATION FairSpec
CONSTANTS
  root = root  sub = sub  f = f  g = g  l = l  s = s   k = k
  Files = {f}  Links = {l}  Specials = {s}  Dirs = {root, sub}  DirLinks = {}
  Root = root  In <- SmallIn  Up <- SmallUp  Selected <- SmallSelected  Size <- SmallSize
  NoFile = NoFile  Foreign = Foreign  None = None
  DestFaults = TRUE  SourceHangs = TRUE
  MaxPasses = 2  MaxCrashes = 0  MaxRetries = 0  MaxLosses = 0
INVARIANT EveryFileAccounted
PROPERTIES PassTerminates StopEndsPaused
CHECK_DEADLOCK FALSE
