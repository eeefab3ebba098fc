SPECIFICATION Spec
CONSTANTS
  p1 = p1  p2 = p2  p3 = p3  p4 = p4  disk = disk  copy = copy  other = other
  Programs = {p1, p2, p3, p4}  Roots <- FourRoots  Nested = {p4}  Fresh = Fresh
INVARIANTS TypeOK RunsOnItsRoots
PROPERTY RecordedOnce
CHECK_DEADLOCK FALSE
