----------------------------- MODULE MCFailover ------------------------------
(* Constants of the replication runs that a .cfg cannot express.           *)
EXTENDS Failover, TLC

\* Every cell is due whenever it runs.
EveryTick == [id \in CellIds |-> 1]

\* No definition tells two pages apart, so pages may be model values.
PageSymmetry == Permutations(Pages)
=============================================================================
