SPECIFICATION Spec
CONSTANTS
  root = root  sub = sub  f = f  g = g  l = l  s = s   k = k
  Files = {f}  Links = {}  Specials = {}  Dirs = {root, sub}  DirLinks = {}
  Root = root  In <- PlainIn  Up <- PlainUp  Selected <- PlainSelected  Size <- PlainSize
  NoFile = NoFile  Foreign = Foreign  None = None
  DestFaults = FALSE  SourceHangs = FALSE
  MaxPasses = 2  MaxCrashes = 0  MaxRetries = 0  MaxLosses = 0
INVARIANT FailuresKept    
CHECK_DEADLOCK FALSE
