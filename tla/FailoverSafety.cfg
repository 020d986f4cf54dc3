\* One cell, replication on from the start, batches may be duplicated.  With
\* three batches in flight a duplicate can arrive after its successor.
CONSTANTS
  CellIds = {a}
  NoCell = NoCell
  Pages = {p, q}
  Contents = {0, 1}
  Zero = 0
  Interval <- EveryTick
  RingCapacity = 1
  Faulty = {a}
  IoArrives = FALSE
  ClockModulus = 16
  MaxTick = 4
  TransportFaults = {"duplicate"}
  LateEnable = FALSE
  MaxWire = 3

SPECIFICATION FailoverSafety
SYMMETRY PageSymmetry

INVARIANT StandbyTypeOK
INVARIANT StandbyHoldsACheckpoint
PROPERTY ImplementsReplica
