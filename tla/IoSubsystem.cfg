\* Two cells that take turns at one host fd, a queue of two SQEs.
CONSTANTS
  Cells = {1, 2}
  CellBits = 2
  FdBits = 3
  RequestBits = 1
  RequestIds = {1}
  HostFds = {7}
  Entries = 2
  BufferIndices = {0}
  CloseWhileBusy = TRUE
  MaxFd = 4
  MaxCalls = 3

SPECIFICATION IoSpec
\* Guests may close everything and stop.
CHECK_DEADLOCK FALSE

INVARIANT CompletionsNameTheirRequest
INVARIANT LateCompletionsAreHarmless
 
PROPERTY EveryAcceptedCompletes
