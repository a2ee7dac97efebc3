\* Formatting and reserved-space client under out-of-memory: printf, expand (reserve_space), commit, with add, prepend, drain, remove, pullup and write; any allocation may fail.
CONSTANTS
  Bufs = {b1, b2}
  ChainIds <- MCChainIds
  MIN_BUFFER_SIZE = 2
  EVBUFFER_CHAIN_SIZE = 1
  EVBUFFER_CHAIN_MAX_AUTO_SIZE = 4
  EVBUFFER_MAX_READ = 4
  NUM_IOVEC = 2
  PrintfReserve = 2
  Sizes = {1, 2}
  SocketAvail = {0}
  MaxBytes = 3
  MallocFails = TRUE
  Ops <- ReserveOps
SPECIFICATION Spec
INVARIANTS HeapShape NoLeakedChains
PROPERTIES ContentsPreserved
