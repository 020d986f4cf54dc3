\* Two ticks, three calls per run: repeated calls in a tick, a change of tick
\* and a call after it all happen, and a replay can diverge at each of them.
CONSTANTS
  Values = {0, 1}
  Lengths = {1, 2}
  MaxTick = 2
  MaxCalls = 3

SPECIFICATION EventSpec
\* A replay ends when the guest makes no further call.
CHECK_DEADLOCK FALSE

INVARIANT EventTypeOK
INVARIANT LogHoldsHistory
INVARIANT ReplayIsVerbatim
INVARIANT DivergenceIsDetected
