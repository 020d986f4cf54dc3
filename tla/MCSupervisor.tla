----------------------------- MODULE MCSupervisor -----------------------------
(* Constants of the supervisor's run that a .cfg cannot express.           *)
EXTENDS Supervisor

CONSTANTS a, b

\* The edges of checkpoint_due: due at every turn, at alternate ticks, rarely.
MixedIntervals == [id \in CellIds |-> IF id = a THEN 0 ELSE IF id = b THEN 2 ELSE 4]
===============================================================================
