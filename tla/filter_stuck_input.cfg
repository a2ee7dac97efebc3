SPECIFICATION FairSpec
CONSTANTS
  MaxBytes = 2
  Chunks = {1, 2}
  Marks = {0, 1}
  UWriteHigh = 1
  FilterKind = "identity"
  WritecbScripts <- PlainScripts
  Faults = {}
  Ops <- FilterOps
PROPERTIES
  NoStuckInput
