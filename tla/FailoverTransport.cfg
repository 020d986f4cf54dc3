\* Two cells, every transport fault, replication enabled at any time.  Page
\* contents play no part in these properties: page_tick tells versions apart.
CONSTANTS
  CellIds = {a, b}
  NoCell = NoCell
  Pages = {0}
  Contents = {0}
  Zero = 0
  Interval <- EveryTick
  RingCapacity = 1
  Faulty = {}
  IoArrives = FALSE
  ClockModulus = 16
  MaxTick = 3
  TransportFaults = {"lose", "duplicate", "reorder"}
  LateEnable = TRUE
  MaxWire = 2

SPECIFICATION FailoverSpec

INVARIANT QueuedIsNewest
PROPERTY NoStaleOverwrite
 
