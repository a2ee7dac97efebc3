SPECIFICATION FairSpec
CONSTANTS
  MaxBytes = 2
  Chunks = {1, 2}
  Marks = {0, 1}
  UWriteHigh = 1
  FilterKind = "identity"
  WritecbScripts <- PlainScripts
  Faults = {"eof", "error"}
  Ops <- FilterOps
INVARIANTS
  TypeOK
  UnderlyingFollowsFilter
  NoReentrantPump
PROPERTIES
  OutputDrains
