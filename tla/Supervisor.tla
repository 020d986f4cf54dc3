----------------------------- MODULE Supervisor ------------------------------
(***************************************************************************)
(* The supervisor loop of chronos-core (supervisor.rs) with the cell state *)
(* it owns (cell.rs), the checkpoint chain it extends (smt.rs) and the     *)
(* replication ring it pushes into (chronos-replicate).                    *)
(*                                                                         *)
(*   cells        HashMap<CellId, Cell>; DOMAIN cells is its key set       *)
(*   order, clock, outcome      the Scheduler, which this module extends   *)
(*   replication  whether Option<DeltaRing> is Some                        *)
(*   queue, last_pushed_tick    the ring's ArrayQueue and its atomic       *)
(*   result       what the last call returned to the supervisor's owner    *)
(*                                                                         *)
(* Data is abstracted to what the properties tell apart.  Memory is a      *)
(* function from pages to page contents.  Hashes are collision free, so a  *)
(* leaf hash is the page content it digests, an absent leaf is the digest  *)
(* of the zero page, and a root is the whole leaf map.  A queued I/O       *)
(* completion is the tick at which it arrived.                             *)
(***************************************************************************)
EXTENDS Integers, Sequences, Scheduler

CONSTANTS
  Pages,          \* pages of a cell's quota
  Contents,       \* possible contents of a page
  Zero,           \* the all-zero page
  Interval,       \* config.checkpoint_interval_ticks, per cell id
  RingCapacity,   \* capacity given to enable_replication
  Faulty,         \* cells whose quanta may end in a QuantumFault
  IoArrives,      \* BOOLEAN: may I/O complete during a quantum?
  MaxTick         \* bound of the model on the number of dispatches

ASSUME ZeroAssumption == Zero \in Contents
ASSUME IntervalAssumption == Interval \in [CellIds -> Nat]
ASSUME CapacityAssumption == RingCapacity \in Nat \ {0}
ASSUME BoundAssumption == MaxTick \in Nat /\ ClockModulus \in Nat /\ MaxTick < ClockModulus
ASSUME SwitchAssumption == Faulty \subseteq CellIds /\ IoArrives \in BOOLEAN

VARIABLES cells, replication, queue, last_pushed_tick, result

ringVars == <<replication, queue, last_pushed_tick>>
vars == <<cells, order, clock, outcome, replication, queue, last_pushed_tick, result>>

-----------------------------------------------------------------------------
(* Types.                                                                  *)
Heap == [Pages -> Contents]
ZeroHeap == [p \in Pages |-> Zero]

(* PageDelta::Raw for a set of pages: the pages and their new contents.    *)
Deltas == UNION {[S -> Contents] : S \in SUBSET Pages}

TickBatch == [tick : Nat, deltas : Deltas]

CheckpointEntry == [tick : Nat, smt_root : Heap]

Cell == [ memory               : Heap,
          dirty                : SUBSET Pages,
          tree                 : Heap,
          entries              : Seq(CheckpointEntry),
          last_checkpoint_tick : Nat,
          pending_io           : Seq(Nat) ]

Results == {"new", "enabled", "spawned", "duplicate_cell", "memory_init",
            "none", "dispatched", "backpressure"}

-----------------------------------------------------------------------------
(* Faults a maintainer could introduce; used only to show that the         *)
(* properties notice them.                                                 *)
CheckpointDueLate(cell, c, t) == t - cell.last_checkpoint_tick > Interval[c]

RunQuantumWithoutDrain(cell, writes, arrivals) ==
  [cell EXCEPT !.memory = [p \in Pages |-> IF p \in DOMAIN writes THEN writes[p] ELSE @[p]],
               !.dirty = @ \cup DOMAIN writes,
               !.pending_io = @ \o arrivals]

CheckpointWithoutTick(cell, t) ==
  LET tree == [p \in Pages |-> IF p \in cell.dirty THEN cell.memory[p] ELSE cell.tree[p]]
  IN  [cell EXCEPT !.tree = tree,
                   !.entries = Append(@, [tick |-> t, smt_root |-> tree])]

NewCellWithSentinelTick ==
  [ memory |-> ZeroHeap, dirty |-> {}, tree |-> ZeroHeap, entries |-> << >>,
    last_checkpoint_tick |-> -1, pending_io |-> << >> ]

BatchOfPreviousCheckpoint(cell, t) ==
  [tick |-> cell.last_checkpoint_tick, deltas |-> [p \in cell.dirty |-> cell.memory[p]]]

-----------------------------------------------------------------------------
(* Cell::new                                                               *)
NewCell ==
  [ memory |-> ZeroHeap, dirty |-> {}, tree |-> ZeroHeap, entries |-> << >>,
    last_checkpoint_tick |-> 0, pending_io |-> << >> ]

(* u64::saturating_sub                                                     *)
SaturatingSub(x, y) == IF x >= y THEN x - y ELSE 0

(* Cell::checkpoint_due, evaluated by next_dispatch before the quantum.    *)
CheckpointDue(cell, c, t) ==
  SaturatingSub(t, cell.last_checkpoint_tick) >= Interval[c]

(* The head of run_one_cycle's body for a dispatched cell: the queued      *)
(* completions are drained, then the executor runs.  Its net effect is a   *)
(* set of page writes, each approved by translate and followed by          *)
(* mark_dirty, and possibly newly queued completions.                      *)
RunQuantum(cell, writes, arrivals) ==
  [cell EXCEPT !.memory = [p \in Pages |-> IF p \in DOMAIN writes THEN writes[p] ELSE @[p]],
               !.dirty = @ \cup DOMAIN writes,
               !.pending_io = arrivals]

(* CheckpointChain::checkpoint (rehash the dirty pages, append an entry)   *)
(* and the last_checkpoint_tick assignment that follows it.                *)
Checkpoint(cell, t) ==
  LET tree == [p \in Pages |-> IF p \in cell.dirty THEN cell.memory[p] ELSE cell.tree[p]]
  IN  [cell EXCEPT !.tree = tree,
                   !.entries = Append(@, [tick |-> t, smt_root |-> tree]),
                   !.last_checkpoint_tick = t]

(* clear_cell_dirty_pages                                                  *)
ClearDirtyPages(cell) == [cell EXCEPT !.dirty = {}]

(* The TickBatch that run_one_cycle builds: one raw delta per dirty page.  *)
BatchOf(cell, t) == [tick |-> t, deltas |-> [p \in cell.dirty |-> cell.memory[p]]]

-----------------------------------------------------------------------------
(* A fault a maintainer could introduce: the capacity off by one.          *)
RingFullOffByOne == Len(queue) > RingCapacity

(* DeltaRing::push: an accepted batch, with its tick stored after it.      *)
RingFull == Len(queue) >= RingCapacity

Push(batch) ==
  /\ ~RingFull
  /\ queue' = Append(queue, batch)
  /\ last_pushed_tick' = batch.tick

-----------------------------------------------------------------------------
Init ==
  /\ cells = [c \in {} |-> NewCell]
  /\ SchedInit
  /\ replication = FALSE
  /\ queue = << >>
  /\ last_pushed_tick = 0
  /\ result = "new"

(* Supervisor::enable_replication: a new, empty ring replaces any old one. *)
EnableReplication ==
  /\ replication' = TRUE
  /\ queue' = << >>
  /\ last_pushed_tick' = 0
  /\ result' = "enabled"
  /\ UNCHANGED <<cells, order, clock, outcome>>

(* Supervisor::spawn_cell and its two error returns.                       *)
SpawnCell(id) ==
  /\ id \notin DOMAIN cells
  /\ cells' = [c \in DOMAIN cells \cup {id} |-> IF c = id THEN NewCell ELSE cells[c]]
  /\ RegisterCell(id)
  /\ result' = "spawned"
  /\ UNCHANGED ringVars

SpawnDuplicate(id) ==
  /\ id \in DOMAIN cells
  /\ result' = "duplicate_cell"
  /\ UNCHANGED <<cells, order, clock, outcome, replication, queue, last_pushed_tick>>

SpawnFailsAfterRegister(id) ==
  /\ id \notin DOMAIN cells
  /\ RegisterCell(id)
  /\ result' = "memory_init"
  /\ UNCHANGED <<cells, replication, queue, last_pushed_tick>>

SpawnFails(id) ==
  /\ id \notin DOMAIN cells
  /\ result' = "memory_init"
  /\ UNCHANGED <<cells, order, clock, outcome, replication, queue, last_pushed_tick>>

(* run_one_cycle with no cell registered returns None.                     *)
CycleIdle ==
  /\ order = << >>
  /\ result' = "none"
  /\ UNCHANGED <<cells, order, clock, outcome, replication, queue, last_pushed_tick>>

(* The part every dispatching cycle shares: next_dispatch picks c.         *)
Dispatch(c) ==
  /\ clock < MaxTick
  /\ c \in DOMAIN cells
  /\ NextDispatch(c)

Due(c) == CheckpointDue(cells[c], c, clock')

(* More faults a maintainer could introduce: a cycle that drops the        *)
(* dirty set of a faulted cell, and one that clears it although the push   *)
(* failed.                                                                 *)
CycleFaultsClearing(c, writes, arrivals) ==
  /\ c \in Faulty
  /\ Dispatch(c)
  /\ cells' = [cells EXCEPT ![c] = ClearDirtyPages(RunQuantum(cells[c], writes, arrivals))]
  /\ result' = "dispatched"
  /\ UNCHANGED ringVars

CycleBackpressureClearing(c, writes, arrivals) ==
  /\ Dispatch(c)
  /\ Due(c)
  /\ replication
  /\ RingFull
  /\ cells' = [cells EXCEPT ![c] =
                 ClearDirtyPages(Checkpoint(RunQuantum(cells[c], writes, arrivals), clock'))]
  /\ result' = "backpressure"
  /\ UNCHANGED ringVars

(* run_quantum returns a fault, possibly after some writes: early return,  *)
(* with the same Ok(Some((id, tick))) as a normal cycle.                   *)
CycleFaults(c, writes, arrivals) ==
  /\ c \in Faulty
  /\ Dispatch(c)
  /\ cells' = [cells EXCEPT ![c] = RunQuantum(cells[c], writes, arrivals)]
  /\ result' = "dispatched"
  /\ UNCHANGED ringVars

(* A normal quantum when no checkpoint is due.                             *)
CycleRuns(c, writes, arrivals) ==
  /\ Dispatch(c)
  /\ ~Due(c)
  /\ cells' = [cells EXCEPT ![c] = RunQuantum(cells[c], writes, arrivals)]
  /\ result' = "dispatched"
  /\ UNCHANGED ringVars

(* A checkpoint is due and replication is off.                             *)
CycleCheckpoints(c, writes, arrivals) ==
  /\ Dispatch(c)
  /\ Due(c)
  /\ ~replication
  /\ cells' = [cells EXCEPT ![c] =
                 ClearDirtyPages(Checkpoint(RunQuantum(cells[c], writes, arrivals), clock'))]
  /\ result' = "dispatched"
  /\ UNCHANGED ringVars

(* A checkpoint is due and DeltaRing::push accepts the batch.              *)
CycleStreams(c, writes, arrivals) ==
  LET after == RunQuantum(cells[c], writes, arrivals)
  IN  /\ Dispatch(c)
      /\ Due(c)
      /\ replication
      /\ Push(BatchOf(after, clock'))
      /\ cells' = [cells EXCEPT ![c] = ClearDirtyPages(Checkpoint(after, clock'))]
      /\ result' = "dispatched"
      /\ UNCHANGED replication

(* A checkpoint is due and the ring is full: `?` returns before the dirty  *)
(* pages are cleared, but after the checkpoint was taken.                  *)
CycleBackpressure(c, writes, arrivals) ==
  /\ Dispatch(c)
  /\ Due(c)
  /\ replication
  /\ RingFull
  /\ cells' = [cells EXCEPT ![c] = Checkpoint(RunQuantum(cells[c], writes, arrivals), clock')]
  /\ result' = "backpressure"
  /\ UNCHANGED ringVars

Arrivals == IF IoArrives THEN {<< >>, <<clock + 1>>} ELSE {<< >>}

RunOneCycle ==
  \/ CycleIdle
  \/ \E c \in DOMAIN cells, writes \in Deltas, arrivals \in Arrivals :
       \/ CycleFaults(c, writes, arrivals)
       \/ CycleRuns(c, writes, arrivals)
       \/ CycleCheckpoints(c, writes, arrivals)
       \/ CycleStreams(c, writes, arrivals)
       \/ CycleBackpressure(c, writes, arrivals)

(* DeltaRing::drain, one ArrayQueue::pop: the streaming task's side.  The  *)
(* supervisor keeps its ring private; this is the consumer that            *)
(* chronos-replicate lib.rs:5 describes, running whenever it likes.        *)
PopBatch ==
  /\ queue # << >>
  /\ queue' = Tail(queue)
  /\ UNCHANGED <<cells, order, clock, outcome, replication, last_pushed_tick, result>>

(* What the supervisor's owner calls, and the consumer.                    *)
SupervisorStep ==
  \/ EnableReplication
  \/ \E id \in CellIds : SpawnCell(id) \/ SpawnDuplicate(id) \/ SpawnFails(id)
  \/ RunOneCycle

Next == SupervisorStep \/ PopBatch

Spec == Init /\ [][Next]_vars
-----------------------------------------------------------------------------
(* Every component of the state has the shape the Rust types give it.      *)
TypeOK ==
  /\ DOMAIN cells \subseteq CellIds
  /\ \A c \in DOMAIN cells : cells[c] \in Cell
  /\ order \in Seq(CellIds)
  /\ clock \in Nat
  /\ outcome \in CellIds \cup {NoCell}
  /\ replication \in BOOLEAN
  /\ queue \in Seq(TickBatch)
  /\ last_pushed_tick \in Nat
  /\ result \in Results

(* supervisor.rs:116, "scheduler only returns ids for registered cells":   *)
(* the rotation holds every registered cell exactly once and nothing else, *)
(* so the expect cannot panic and no cell gets two turns per rotation.     *)
RosterMatchesCells ==
  /\ \A i \in 1..Len(order) : order[i] \in DOMAIN cells
  /\ \A c \in DOMAIN cells : \E i \in 1..Len(order) : order[i] = c
  /\ \A i, j \in 1..Len(order) : order[i] = order[j] => i = j

(* ARCHITECTURE.md section 6: only dirty pages are rehashed, yet the tree  *)
(* is the tree of the whole heap.  Between checkpoints the tree is right   *)
(* for every page that is not marked dirty: no early return (a fault, a    *)
(* full ring) and no skipped checkpoint ever loses track of a write.       *)
CleanPagesHashed ==
  \A c \in DOMAIN cells : \A p \in Pages \ cells[c].dirty :
    cells[c].tree[p] = cells[c].memory[p]

(* The incremental root that checkpoint appends is the root of the cell's  *)
(* entire memory at that tick, as if every page had been rehashed.         *)
CheckpointCoversMemory ==
  [][ \A c \in DOMAIN cells :
        cells'[c].entries # cells[c].entries
          => /\ cells'[c].entries[Len(cells'[c].entries)].smt_root = cells'[c].memory
             /\ cells'[c].entries[Len(cells'[c].entries)].tick = clock' ]_vars

(* cell.rs:16, checkpoint_interval_ticks: two entries of a cell's chain    *)
(* are at least an interval apart, ticks grow along the chain, and the     *)
(* tick remembered for the next decision is the tick of the last entry.    *)
CheckpointsSpaced ==
  \A c \in DOMAIN cells :
    LET e == cells[c].entries
    IN  /\ \A i \in 1..(Len(e) - 1) : /\ e[i].tick < e[i + 1].tick
                                      /\ e[i + 1].tick - e[i].tick >= Interval[c]
        /\ e # << >> => cells[c].last_checkpoint_tick = e[Len(e)].tick

(* supervisor.rs:131, "a fault in one cell must never propagate": however  *)
(* other cells fault, and whatever the ring's backpressure does, a cell    *)
(* that does not fault itself has its checkpoint at its first turn after   *)
(* the interval, late by less than one rotation.                           *)
CheckpointsTimely ==
  \A c \in DOMAIN cells \ Faulty :
    cells[c].entries # << >> =>
      clock - cells[c].last_checkpoint_tick
        <= (IF Interval[c] = 0 THEN 1 ELSE Interval[c]) + Len(order) - 2

(* ARCHITECTURE.md section 5: a completion is taken at the next quantum    *)
(* boundary of its cell.  None is older than one rotation.                 *)
CompletionsTakenAtBoundary ==
  \A c \in DOMAIN cells : \A i \in 1..Len(cells[c].pending_io) :
    clock - cells[c].pending_io[i] < Len(order)

(* chronos-replicate: the ring carries batches in strict tick order, never *)
(* more than its capacity, and last_pushed_tick names the newest of them.  *)
RingInTickOrder ==
  /\ Len(queue) <= RingCapacity
  /\ \A i, j \in 1..Len(queue) : i < j => queue[i].tick < queue[j].tick
  /\ queue # << >> => queue[Len(queue)].tick = last_pushed_tick
  /\ last_pushed_tick <= clock
=============================================================================
