\* Filters that own their socket (CLOSE_ON_FREE); the client frees a bufferevent from its read and error callbacks.
CONSTANTS
  s1 = s1
  s2 = s2
  f1 = f1
  NULL = NULL
  Socks <- MCSocks
  Filts <- MCFilts
  CloseOnFree = {TRUE}
  FreeOwnIn = {"read", "error"}
SYMMETRY SockSymmetry
SPECIFICATION Spec
CHECK_DEADLOCK FALSE
INVARIANTS
  TypeOK
  NoDanglingDispatch
