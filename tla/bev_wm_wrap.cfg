CONSTANTS
  MaxBytes = 3
  Chunks = {1, 2}
  Marks = {0, 2, 15}
  SizeBits = 4
  IntBits = 3
  Faults = {"eof", "error"}
  Ops <- BevOps
SPECIFICATION Spec
INVARIANTS
  SuspendedOnlyAtHigh
