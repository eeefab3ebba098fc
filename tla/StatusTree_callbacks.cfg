SPECIFICATION MCSpec
CONSTANTS
  root = root  d = d  f = f  g = g
  Files = {f, g}  Dirs = {root, d}  Root = root  Above <- TreeAbove
  SourceHangs = TRUE
  FirstRows <- EarlierRows
  MaxPasses = 1  MaxRetries = 1
INVARIANTS TypeOK CountsAgree TreeCurrent RedWhenFailed NoStaleLine
PROPERTY QuitEnds
CHECK_DEADLOCK FALSE
