SPECIFICATION Spec
CONSTANTS
  MaxBytes = 2
  Chunks = {1, 2}
  Marks = {0, 1}
  UWriteHigh = 1
  FilterKind = "identity"
  WritecbScripts <- FlushScripts
  Faults = {}
  Ops <- FilterOps
INVARIANTS
  NoReentrantPump
