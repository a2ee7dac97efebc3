SPECIFICATION Spec
CONSTANTS
  MaxBytes = 2
  Chunks = {1, 2}
  Marks = {0, 1}
  UWriteHigh = 1
  FilterKind = "null"
  WritecbScripts <- PlainScripts
  Faults = {"eof", "error"}
  Ops <- FilterOps
PROPERTIES
  ReadcbAfterProgress
