\* Pages of four two-bit bytes; a ring of one batch.
CONSTANTS
  PageSize = 4
  Bits = {0, 1}
  RunHeader = 1
  Pages = {0, 1}
  Images <- SparseAndDense
  Capacity = 1
  MaxTick = 3

SPECIFICATION StreamSpec
\* The streaming of a bounded number of flushes ends.
CHECK_DEADLOCK FALSE

INVARIANT NextDeltaIsExact
INVARIANT StandbyReconstructs
INVARIANT LastPushedIsNewest
PROPERTY StandbyCatchesUp
