\* A filter's output buffer with its outbuf_cb and two user callbacks that unregister, register and disable themselves, under user writes and filter pumps.
CONSTANTS
  f = f
  a1 = a1
  a2 = a2
  u1 = u1
  u2 = u2
  fcb = fcb
  NULL = NULL
  Addrs <- MCAddrs
  FAddr = f
  FCb = fcb
  UserCbs = {u1, u2}
  Reactions <- SafeReactions
  MaxLen = 2
  MaxDepth = 2
  MaxMuts = 3
  MallocFails = TRUE
SPECIFICATION Spec
INVARIANTS TypeOK NoUseAfterFree
PROPERTIES InOrderDelivery
