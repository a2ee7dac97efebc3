\* The client frees a filter from its write callback.
CONSTANTS
  s1 = s1
  s2 = s2
  f1 = f1
  NULL = NULL
  Socks <- MCSocks
  Filts <- MCFilts
  CloseOnFree = {TRUE}
  FreeOwnIn = {"write"}
SYMMETRY SockSymmetry
SPECIFICATION Spec
CHECK_DEADLOCK FALSE
INVARIANT
  NoUseAfterReturn
