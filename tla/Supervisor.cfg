\* Three cells, one of which may fault; one page, a ring of one batch.
CONSTANTS
  a = a
  b = b
  CellIds = {a, b, c}
  NoCell = NoCell
  Pages = {0}
  Contents = {0, 1}
  Zero = 0
  Interval <- MixedIntervals
  RingCapacity = 1
  Faulty = {c}
  IoArrives = TRUE
  ClockModulus = 16
  MaxTick = 5

SPECIFICATION Spec

 
INVARIANT RosterMatchesCells
INVARIANT CleanPagesHashed
INVARIANT CheckpointsSpaced
 
INVARIANT CheckpointsTimely
INVARIANT CompletionsTakenAtBoundary
PROPERTY CheckpointCoversMemory
