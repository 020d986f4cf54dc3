-------------------------- MODULE CheckpointReplica --------------------------
(***************************************************************************)
(* What live replication promises (ARCHITECTURE.md section 7), stated      *)
(* without rings, deltas or dirty sets: the primary publishes checkpoints  *)
(* of its heap; the replica always holds exactly one of them (the empty    *)
(* heap at tick 0 before the first) and only ever moves to a later one.    *)
(* Promoting the replica at any moment resumes from a checkpoint.          *)
(***************************************************************************)
EXTENDS Naturals, Sequences

CONSTANTS Heaps, EmptyHeap

VARIABLES published, replica

Checkpoints == [tick : Nat, smt_root : Heaps]

ReplicaInit ==
  /\ published = << >>
  /\ replica = [tick |-> 0, smt_root |-> EmptyHeap]

(* The primary publishes a later checkpoint.                               *)
Publish ==
  /\ Len(published') = Len(published) + 1
  /\ LET e == published'[Len(published')]
     IN  /\ e \in Checkpoints
         /\ e.tick > 0
         /\ \A i \in 1..Len(published) : published[i].tick < e.tick
         /\ published' = Append(published, e)
  /\ UNCHANGED replica

(* The replica moves to some later published checkpoint.                   *)
CatchUp ==
  /\ \E i \in 1..Len(published) :
       /\ published[i].tick > replica.tick
       /\ replica' = published[i]
  /\ UNCHANGED published

ReplicaNext == Publish \/ CatchUp

ReplicaSpec == ReplicaInit /\ [][ReplicaNext]_<<published, replica>>
=============================================================================
