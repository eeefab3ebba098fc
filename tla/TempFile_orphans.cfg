SPECIFICATION Spec
CONSTANTS
  x = x  nameX = nameX  tmpX = tmpX
  w1 = w1  w2 = w2  w3 = w3  i1 = i1  i2 = i2  i3 = i3  i4 = i4
  Files = {x}  Size <- OneSize  Names = {nameX, tmpX}  Dest <- OneDest  Tmp <- OneTmp
  Workers = {w1, w2, w3}  Inodes = {i1, i2, i3, i4}  None = None  Hole = Hole
INVARIANTS TypeOK SuccessIsWholeUnlessLate
SYMMETRY Interchangeable
CHECK_DEADLOCK FALSE
