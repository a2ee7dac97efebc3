\* A user callback writes to the buffer it is told about while the dispatch is running.
CONSTANTS
  f = f
  a1 = a1
  a2 = a2
  u1 = u1
  u2 = u2
  fcb = fcb
  NULL = NULL
  Addrs <- MCAddrs
  FAddr = f
  FCb = fcb
  UserCbs = {u1, u2}
  Reactions <- WriteReactions
  MaxLen = 2
  MaxDepth = 2
  MaxMuts = 3
  MallocFails = TRUE
SPECIFICATION Spec
PROPERTY InOrderDelivery
