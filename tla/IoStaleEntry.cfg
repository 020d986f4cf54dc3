\* Fds are closed only when no request answered with Ok is under way.
CONSTANTS
  Cells = {1, 2}
  CellBits = 2
  FdBits = 3
  RequestBits = 1
  RequestIds = {1}
  HostFds = {7}
  Entries = 2
  BufferIndices = {0}
  CloseWhileBusy = FALSE
  MaxFd = 4
  MaxCalls = 3

SPECIFICATION IoSafety

INVARIANT KernelUsesTheFile
