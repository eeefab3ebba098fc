SPECIFICATION Spec
CONSTANTS
  a = a
  Files = {a}
  MaxPasses = 3  MaxRetries = 1  MaxCrashes = 1  MaxDumps = 2
INVARIANTS TypeOK StubCurrent SuccessToldWithCopy
CHECK_DEADLOCK FALSE
