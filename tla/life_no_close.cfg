\* A filter created without CLOSE_ON_FREE, freed while its socket is still in use.
CONSTANTS
  s1 = s1
  s2 = s2
  f1 = f1
  NULL = NULL
  Socks <- MCSocks
  Filts <- MCFilts
  CloseOnFree = {FALSE}
  FreeOwnIn = {}
SYMMETRY SockSymmetry
SPECIFICATION Spec
CHECK_DEADLOCK FALSE
INVARIANT
  NoDanglingDispatch
