\* Buffers are registered under index 0 or 1.
CONSTANTS
  Cells = {1, 2}
  CellBits = 2
  FdBits = 3
  RequestBits = 1
  RequestIds = {1}
  HostFds = {7}
  Entries = 2
  BufferIndices = {0, 1}
  CloseWhileBusy = TRUE
  MaxFd = 4
  MaxCalls = 3

SPECIFICATION IoSafety

INVARIANT BufferIndexIsTheKernels
