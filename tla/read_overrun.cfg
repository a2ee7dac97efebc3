\* evbuffer_read filling the previous chain and counting the bytes on a smaller last chain.
CONSTANTS
  Bufs = {b1, b2}
  ChainIds <- MCChainIds
  MIN_BUFFER_SIZE = 2
  EVBUFFER_CHAIN_SIZE = 1
  EVBUFFER_CHAIN_MAX_AUTO_SIZE = 4
  EVBUFFER_MAX_READ = 4
  NUM_IOVEC = 2
  PrintfReserve = 2
  Sizes = {1, 2}
  SocketAvail = {2, 5, 7}
  MaxBytes = 3
  MallocFails = FALSE
  Ops <- ReadOnlyOps
SPECIFICATION Spec
INVARIANTS ChainBounds
