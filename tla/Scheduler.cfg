\* Four cells and a two-bit clock that wraps: the state space is finite
\* without a bound on the length of a run, so liveness means what it says.
CONSTANTS
  CellIds = {a, b, c, d}
  NoCell = NoCell
  ClockModulus = 4

SPECIFICATION SchedSpec

 
PROPERTY NoOvertaking
PROPERTY EveryCellGetsATurn
