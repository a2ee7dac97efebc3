CONSTANTS
  MaxBytes = 3
  Chunks = {1, 2}
  Marks = {0, 1, 2, 3}
  SizeBits = 4
  IntBits = 3
  Faults = {"eof", "error"}
  Ops <- BevOps
SPECIFICATION FairSpec
INVARIANTS
  TypeOK
  ReadArmedOnlyWhenWanted
  SuspendedOnlyAtHigh
  OutputArmed
PROPERTIES
  WatermarkAfterMutation
  OutputDrains
