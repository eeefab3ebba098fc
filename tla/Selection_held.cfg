SPECIFICATION Spec
CONSTANTS
  root = root  a = a  b = b  f = f  g = g
  Paths = {root, a, b, f, g}  Dirs = {root, a, b}  Root = root
  In <- TreeIn  Up <- TreeUp  Like <- TreeLike
INVARIANT HeldIsCovered
CHECK_DEADLOCK FALSE
