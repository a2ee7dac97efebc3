\* Socket reader: evbuffer_read with every FIONREAD answer, consumed by drain, remove, write and pullup.
CONSTANTS
  Bufs = {b1, b2}
  ChainIds <- MCChainIds
  MIN_BUFFER_SIZE = 2
  EVBUFFER_CHAIN_SIZE = 1
  EVBUFFER_CHAIN_MAX_AUTO_SIZE = 4
  EVBUFFER_MAX_READ = 4
  NUM_IOVEC = 2
  PrintfReserve = 2
  Sizes = {1, 2}
  SocketAvail = {0, 1, 5}
  MaxBytes = 3
  MallocFails = FALSE
  Ops <- ReadOps
SPECIFICATION Spec
INVARIANTS HeapShape NoLeakedChains TotalLenMatches
