------------------------------ MODULE Failover -------------------------------
(***************************************************************************)
(* The supervisor composed with the rest of the replication path: the      *)
(* streaming task that drains the ring, the transport, and the standby's   *)
(* StandbyApplyLoop with its DeltaEngine (chronos-replicate, delta.rs).    *)
(*                                                                         *)
(*   wire               batches in flight from primary to standby          *)
(*   baseline           the standby DeltaEngine's pages                    *)
(*   last_applied_tick  StandbyApplyLoop::last_applied_tick                *)
(*   page_tick          history: tick of the batch that last wrote a page  *)
(*   lost               history: ticks of batches lost on the way          *)
(*                                                                         *)
(* The streaming task and the transport are not in the repository; they    *)
(* are modelled from how drain and apply_batch are meant to be called.     *)
(* The transport is a FIFO that may lose, duplicate or reorder batches     *)
(* when TransportFaults says so.                                           *)
(***************************************************************************)
EXTENDS Supervisor

CONSTANTS
  TransportFaults,  \* subset of {"lose", "duplicate", "reorder"}
  LateEnable,       \* BOOLEAN: is enable_replication called after start-up?
  MaxWire           \* bound of the model on batches in flight

ASSUME TransportAssumption == TransportFaults \subseteq {"lose", "duplicate", "reorder"}
ASSUME WireAssumption == MaxWire \in Nat \ {0} /\ LateEnable \in BOOLEAN

VARIABLES wire, baseline, last_applied_tick, page_tick, lost

standbyVars == <<baseline, last_applied_tick, page_tick>>
allVars == <<vars, wire, standbyVars, lost>>

Ticks(batches) == {batches[i].tick : i \in 1..Len(batches)}

-----------------------------------------------------------------------------
(* Faults a maintainer could introduce.                                    *)
AcceptsAny(batch) == TRUE

AcceptsOnlySuccessor(batch) == batch.tick = last_applied_tick + 1

-----------------------------------------------------------------------------
(* The supervisor's owner enables replication before anything else, unless *)
(* LateEnable leaves it to a later call.                                   *)
FailoverInit ==
  /\ cells = [c \in {} |-> NewCell]
  /\ SchedInit
  /\ replication = ~LateEnable
  /\ queue = << >>
  /\ last_pushed_tick = 0
  /\ result = IF LateEnable THEN "new" ELSE "enabled"
  /\ wire = << >>
  /\ baseline = ZeroHeap
  /\ last_applied_tick = 0
  /\ page_tick = [p \in Pages |-> 0]
  /\ lost = {}

(* External: the streaming task pops a batch and puts it on the wire.      *)
StreamBatch ==
  /\ Len(wire) < MaxWire
  /\ PopBatch
  /\ wire' = Append(wire, Head(queue))
  /\ UNCHANGED <<standbyVars, lost>>

(* External: what the transport may do to batches in flight.               *)
LoseBatch ==
  /\ "lose" \in TransportFaults
  /\ wire # << >>
  /\ wire' = Tail(wire)
  /\ lost' = lost \cup {Head(wire).tick}
  /\ UNCHANGED <<vars, standbyVars>>

DuplicateBatch ==
  /\ "duplicate" \in TransportFaults
  /\ wire # << >>
  /\ Len(wire) < MaxWire
  /\ wire' = Append(wire, Head(wire))
  /\ UNCHANGED <<vars, standbyVars, lost>>

ReorderBatches ==
  /\ "reorder" \in TransportFaults
  /\ Len(wire) > 1
  /\ wire' = Append(Tail(wire), Head(wire))
  /\ UNCHANGED <<vars, standbyVars, lost>>

(* The check at the head of StandbyApplyLoop::apply_batch.                 *)
Accepts(batch) == batch.tick > last_applied_tick \/ last_applied_tick = 0

(* DeltaEngine::apply of every raw delta: the page replaces the baseline's.*)
Apply(deltas) ==
  [p \in Pages |-> IF p \in DOMAIN deltas THEN deltas[p] ELSE baseline[p]]

(* Another such fault: the batch taken for the whole heap.                 *)
ApplyBatchAsHeap ==
  /\ wire # << >>
  /\ Accepts(Head(wire))
  /\ baseline' = Head(wire).deltas
  /\ last_applied_tick' = Head(wire).tick
  /\ page_tick' = [p \in Pages |-> Head(wire).tick]
  /\ wire' = Tail(wire)
  /\ UNCHANGED <<vars, lost>>

(* apply_batch on the next batch: every delta is applied and the tick is   *)
(* recorded.                                                               *)
ApplyBatch ==
  LET batch == Head(wire)
  IN  /\ wire # << >>
      /\ Accepts(batch)
      /\ baseline' = Apply(batch.deltas)
      /\ last_applied_tick' = batch.tick
      /\ page_tick' = [p \in Pages |-> IF p \in DOMAIN batch.deltas THEN batch.tick
                                       ELSE page_tick[p]]
      /\ wire' = Tail(wire)
      /\ UNCHANGED <<vars, lost>>

(* apply_batch returns OutOfOrder and leaves the standby as it was.        *)
RejectBatch ==
  /\ wire # << >>
  /\ ~Accepts(Head(wire))
  /\ wire' = Tail(wire)
  /\ UNCHANGED <<vars, standbyVars, lost>>

(* The primary's own steps; unless LateEnable, replication is not enabled  *)
(* a second time.  Enabling it again drops the batches in the old ring.    *)
Primary ==
  /\ SupervisorStep
  /\ LateEnable \/ result' # "enabled"
  /\ lost' = IF result' = "enabled" THEN lost \cup Ticks(queue) ELSE lost
  /\ UNCHANGED <<wire, standbyVars>>

FailoverNext ==
  \/ Primary
  \/ StreamBatch
  \/ LoseBatch \/ DuplicateBatch \/ ReorderBatches
  \/ ApplyBatch \/ RejectBatch

FailoverSafety == FailoverInit /\ [][FailoverNext]_allVars

(* The streaming task polls the ring and the standby's loop consumes what  *)
(* arrives; nothing is assumed of the dispatch loop, which may stop.       *)
(* Fairness of the streaming task is strong only because duplicates may    *)
(* fill the wire again and again: the bound MaxWire is the model's.        *)
FailoverSpec ==
  /\ FailoverSafety
  /\ SF_allVars(StreamBatch)
  /\ WF_allVars(ApplyBatch \/ RejectBatch)
-----------------------------------------------------------------------------
(* The standby's part of the state has the shape its Rust types give it.   *)
StandbyTypeOK ==
  /\ wire \in Seq(TickBatch)
  /\ baseline \in Heap
  /\ last_applied_tick \in Nat
  /\ page_tick \in [Pages -> Nat]

(* ARCHITECTURE.md section 7, failover: at every moment the standby's heap *)
(* is the heap some cell had at its checkpoint of last_applied_tick.       *)
(* Backpressure, faults and skipped checkpoints on the way do not matter.  *)
StandbyHoldsACheckpoint ==
  last_applied_tick > 0 =>
    \E c \in DOMAIN cells : \E i \in 1..Len(cells[c].entries) :
      /\ cells[c].entries[i].tick = last_applied_tick
      /\ cells[c].entries[i].smt_root = baseline

(* chronos-replicate lib.rs:153-157, out-of-order batches are rejected: no *)
(* page of the standby is ever overwritten with an older version of it,    *)
(* whatever the transport does.                                            *)
NoStaleOverwrite ==
  [][ /\ \A p \in Pages : page_tick'[p] >= page_tick[p]
      /\ page_tick' # page_tick => last_applied_tick' > last_applied_tick ]_allVars

(* lib.rs:76-86, drain is FIFO and ticks only grow: whatever the transport *)
(* did to earlier batches, a batch still in the ring is newer than every   *)
(* batch in flight and than what the standby applied, so it is never one   *)
(* that the standby will refuse because of the ring.                       *)
QueuedIsNewest ==
  \A t \in Ticks(queue) : t > last_applied_tick /\ \A u \in Ticks(wire) : t > u

(* Every batch the ring accepted is applied, superseded by a newer one, or *)
(* lost by the transport or by a second enable_replication; the apply loop *)
(* refusing stale batches never loses one.  No further cycle has to be     *)
(* dispatched, and a full wire or ring never stops both ends.              *)
EveryBatchIsApplied ==
  \A t \in 1..MaxTick :
    t \in Ticks(queue) ~> (last_applied_tick >= t \/ t \in lost)

(* The composed system implements the abstract promise, with the chain of  *)
(* the sole cell as what was published and the standby as the replica.     *)
SoleChain == IF DOMAIN cells = {} THEN << >>
             ELSE cells[CHOOSE c \in DOMAIN cells : TRUE].entries

Replica == INSTANCE CheckpointReplica WITH
  Heaps <- Heap, EmptyHeap <- ZeroHeap, published <- SoleChain,
  replica <- [tick |-> last_applied_tick, smt_root |-> baseline]

ImplementsReplica == Replica!ReplicaSpec
=============================================================================
