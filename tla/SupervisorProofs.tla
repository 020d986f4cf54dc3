-------------------------- MODULE SupervisorProofs ---------------------------
(***************************************************************************)
(* Theorems about the supervisor for any set of cells, pages and contents, *)
(* any intervals and any ring capacity, and about the scheduler by itself. *)
(***************************************************************************)
EXTENDS Supervisor, TLAPS

LEMMA AppendType == \A T : \A s \in Seq(T), x \in T : Append(s, x) \in Seq(T)
  OBVIOUS

(* One cell's share of CleanPagesHashed.                                   *)
Clean(cell) == \A p \in Pages \ cell.dirty : cell.tree[p] = cell.memory[p]

(* The inductive invariant: types, the model's bound on the clock, clean   *)
(* pages.                                                                  *)
IInv ==
  /\ TypeOK
  /\ clock <= MaxTick
  /\ CleanPagesHashed

-----------------------------------------------------------------------------
(* Below its width the logical clock just counts.                          *)
LEMMA ClockCounts ==
  ASSUME clock \in Nat, clock < MaxTick
  PROVE  /\ Advance(clock) = clock + 1
         /\ clock + 1 <= MaxTick
<1>1. clock + 1 < ClockModulus /\ clock + 1 \in Nat /\ ClockModulus \in Nat
  BY BoundAssumption
<1>2. \A x, m \in Nat : x < m => x % m = x
  OBVIOUS
<1>3. (clock + 1) % ClockModulus = clock + 1
  BY <1>1, <1>2
<1> QED
  BY <1>3, BoundAssumption DEF Advance

(* A set of page writes maps pages to contents.                            *)
LEMMA DeltasAreWrites ==
  ASSUME NEW d \in Deltas
  PROVE  /\ DOMAIN d \subseteq Pages
         /\ \A p \in DOMAIN d : d[p] \in Contents
  BY DEF Deltas

(* What one quantum does to a cell, field by field.                        *)
LEMMA RunQuantumFields ==
  ASSUME NEW cell \in Cell, NEW writes \in Deltas, NEW arrivals \in Seq(Nat)
  PROVE  LET after == RunQuantum(cell, writes, arrivals)
         IN  /\ after \in Cell
             /\ after.dirty = cell.dirty \cup DOMAIN writes
             /\ after.tree = cell.tree
             /\ after.entries = cell.entries
             /\ after.last_checkpoint_tick = cell.last_checkpoint_tick
             /\ \A p \in Pages : p \notin DOMAIN writes => after.memory[p] = cell.memory[p]
<1> DEFINE after == RunQuantum(cell, writes, arrivals)
<1> DEFINE mem == [p \in Pages |-> IF p \in DOMAIN writes THEN writes[p] ELSE cell.memory[p]]
<1>1. mem \in Heap
  BY DeltasAreWrites DEF Heap, Cell
<1>2. after = [cell EXCEPT !.memory = mem, !.dirty = cell.dirty \cup DOMAIN writes,
                           !.pending_io = arrivals]
  BY DEF RunQuantum, Cell
<1>3. cell.dirty \cup DOMAIN writes \in SUBSET Pages
  BY DeltasAreWrites DEF Cell
<1> HIDE DEF mem, after
<1>4. /\ after \in Cell
      /\ after.memory = mem
      /\ after.dirty = cell.dirty \cup DOMAIN writes
      /\ after.tree = cell.tree
      /\ after.entries = cell.entries
      /\ after.last_checkpoint_tick = cell.last_checkpoint_tick
  BY <1>1, <1>2, <1>3 DEF Cell
<1> QED
  BY <1>4 DEF mem, after

(* A quantum marks every page it writes, so clean pages stay hashed.       *)
LEMMA RunQuantumKeepsClean ==
  ASSUME NEW cell \in Cell, Clean(cell), NEW writes \in Deltas, NEW arrivals \in Seq(Nat)
  PROVE  Clean(RunQuantum(cell, writes, arrivals))
  BY RunQuantumFields DEF Clean

(* A checkpoint of a cell whose clean pages are hashed hashes all of it.   *)
LEMMA CheckpointFields ==
  ASSUME NEW cell \in Cell, NEW t \in Nat
  PROVE  LET after == Checkpoint(cell, t)
         IN  /\ after \in Cell
             /\ after.memory = cell.memory
             /\ after.dirty = cell.dirty
             /\ after.last_checkpoint_tick = t
             /\ after.entries = Append(cell.entries, [tick |-> t, smt_root |-> after.tree])
             /\ Clean(cell) => after.tree = cell.memory
<1> DEFINE after == Checkpoint(cell, t)
<1> DEFINE tree == [p \in Pages |-> IF p \in cell.dirty THEN cell.memory[p] ELSE cell.tree[p]]
<1> DEFINE entry == [tick |-> t, smt_root |-> tree]
<1>1. tree \in Heap
  BY DEF Heap, Cell
<1>2. Clean(cell) => tree = cell.memory
  BY DEF Clean, Heap, Cell
<1>3. after = [cell EXCEPT !.tree = tree, !.entries = Append(cell.entries, entry),
                           !.last_checkpoint_tick = t]
  BY DEF Checkpoint, Cell
<1> HIDE DEF tree
<1>4. entry \in CheckpointEntry
  BY <1>1 DEF CheckpointEntry
<1>5. cell.entries \in Seq(CheckpointEntry)
  BY DEF Cell
<1> HIDE DEF entry, after
<1>6. Append(cell.entries, entry) \in Seq(CheckpointEntry)
  BY <1>4, <1>5, AppendType
<1>7. /\ after \in Cell
      /\ after.memory = cell.memory
      /\ after.dirty = cell.dirty
      /\ after.tree = tree
      /\ after.entries = Append(cell.entries, entry)
      /\ after.last_checkpoint_tick = t
  BY <1>1, <1>3, <1>6 DEF Cell
<1> QED
  BY <1>2, <1>7 DEF entry, after

(* clear_cell_dirty_pages touches nothing but the dirty set.               *)
LEMMA ClearDirtyFields ==
  ASSUME NEW cell \in Cell
  PROVE  /\ ClearDirtyPages(cell) \in Cell
         /\ ClearDirtyPages(cell).dirty = {}
         /\ ClearDirtyPages(cell).memory = cell.memory
         /\ ClearDirtyPages(cell).tree = cell.tree
         /\ ClearDirtyPages(cell).entries = cell.entries
         /\ ClearDirtyPages(cell).last_checkpoint_tick = cell.last_checkpoint_tick
  BY DEF ClearDirtyPages, Cell

(* The batch run_one_cycle pushes is a tick and raw pages.                 *)
LEMMA BatchType ==
  ASSUME NEW cell \in Cell, NEW t \in Nat
  PROVE  BatchOf(cell, t) \in TickBatch /\ BatchOf(cell, t).tick = t
<1>1. cell.dirty \in SUBSET Pages /\ cell.memory \in [Pages -> Contents]
  BY DEF Cell, Heap
<1>2. [p \in cell.dirty |-> cell.memory[p]] \in [cell.dirty -> Contents]
  BY <1>1
<1>3. [p \in cell.dirty |-> cell.memory[p]] \in Deltas
  BY <1>1, <1>2 DEF Deltas
<1> QED
  BY <1>3 DEF BatchOf, TickBatch

-----------------------------------------------------------------------------
(* next_dispatch rotates the order and ticks once.                         *)
LEMMA DispatchFacts ==
  ASSUME IInv, NEW c, Dispatch(c)
  PROVE  /\ c \in DOMAIN cells
         /\ c \in CellIds
         /\ cells[c] \in Cell
         /\ Clean(cells[c])
         /\ clock' = clock + 1
         /\ clock' \in Nat
         /\ clock' <= MaxTick
         /\ order # << >>
         /\ order' = Append(Tail(order), Head(order))
         /\ order' \in Seq(CellIds)
         /\ outcome' = c
<1>1. /\ c \in DOMAIN cells
      /\ clock < MaxTick
      /\ clock \in Nat
      /\ clock' = Advance(clock)
      /\ order # << >>
      /\ c = Head(order)
      /\ order' = Append(Tail(order), Head(order))
      /\ outcome' = c
      /\ order \in Seq(CellIds)
  BY DEF Dispatch, NextDispatch, IInv, TypeOK
<1>2. clock' = clock + 1 /\ clock' <= MaxTick
  BY <1>1, ClockCounts
<1>3. Head(order) \in CellIds /\ Tail(order) \in Seq(CellIds)
  BY <1>1
<1>4. order' \in Seq(CellIds)
  BY <1>1, <1>3, AppendType
<1>5. c \in CellIds /\ cells[c] \in Cell /\ Clean(cells[c])
  BY <1>1 DEF IInv, TypeOK, CleanPagesHashed, Clean
<1> QED
  BY <1>1, <1>2, <1>4, <1>5

(* Replacing one cell by a well-formed, clean one keeps all cells so.      *)
LEMMA UpdateCell ==
  ASSUME IInv, NEW c \in DOMAIN cells, NEW v \in Cell, Clean(v),
         cells' = [cells EXCEPT ![c] = v]
  PROVE  /\ DOMAIN cells' \subseteq CellIds
         /\ \A x \in DOMAIN cells' : cells'[x] \in Cell
         /\ CleanPagesHashed'
  BY DEF IInv, TypeOK, CleanPagesHashed, Clean

(* Completions that arrive during a quantum are stamped with its tick.     *)
LEMMA ArrivalsAreTicks ==
  ASSUME clock \in Nat
  PROVE  Arrivals \subseteq Seq(Nat)
<1>1. << >> \in Seq(Nat) /\ <<clock + 1>> \in Seq(Nat)
  OBVIOUS
<1> QED
  BY <1>1 DEF Arrivals

(* Every outcome of run_one_cycle preserves the inductive invariant.       *)
LEMMA CyclePreserves ==
  ASSUME IInv, NEW c \in DOMAIN cells, NEW writes \in Deltas, NEW arrivals \in Arrivals,
         \/ CycleFaults(c, writes, arrivals)
         \/ CycleRuns(c, writes, arrivals)
         \/ CycleCheckpoints(c, writes, arrivals)
         \/ CycleStreams(c, writes, arrivals)
         \/ CycleBackpressure(c, writes, arrivals)
  PROVE  IInv'
<1> DEFINE ran == RunQuantum(cells[c], writes, arrivals)
<1> DEFINE saved == Checkpoint(ran, clock')
<1>1. Dispatch(c)
  BY DEF CycleFaults, CycleRuns, CycleCheckpoints, CycleStreams, CycleBackpressure
<1>2. /\ cells[c] \in Cell
      /\ Clean(cells[c])
      /\ clock' \in Nat
      /\ clock' <= MaxTick
      /\ order' \in Seq(CellIds)
      /\ outcome' \in CellIds
  BY <1>1, DispatchFacts
<1>3. arrivals \in Seq(Nat)
  BY ArrivalsAreTicks DEF IInv, TypeOK
<1>4. ran \in Cell /\ Clean(ran)
  BY <1>2, <1>3, RunQuantumFields, RunQuantumKeepsClean
<1> HIDE DEF ran
<1>5. saved \in Cell /\ Clean(saved)
  <2>1. saved \in Cell /\ saved.tree = ran.memory /\ saved.memory = ran.memory
    BY <1>2, <1>4, CheckpointFields
  <2> QED
    BY <2>1 DEF Clean
<1> HIDE DEF saved
<1>6. ClearDirtyPages(saved) \in Cell /\ Clean(ClearDirtyPages(saved))
  <2>1. ran \in Cell /\ saved.tree = ran.memory /\ saved.memory = ran.memory
    BY <1>2, <1>4, CheckpointFields DEF saved
  <2> QED
    BY <1>5, <2>1, ClearDirtyFields DEF Clean
<1>7. /\ DOMAIN cells' \subseteq CellIds
      /\ \A x \in DOMAIN cells' : cells'[x] \in Cell
      /\ CleanPagesHashed'
  <2>1. \/ cells' = [cells EXCEPT ![c] = ran]
        \/ cells' = [cells EXCEPT ![c] = saved]
        \/ cells' = [cells EXCEPT ![c] = ClearDirtyPages(saved)]
    BY DEF CycleFaults, CycleRuns, CycleCheckpoints, CycleStreams, CycleBackpressure, ran, saved
  <2> QED
    BY <2>1, <1>4, <1>5, <1>6, UpdateCell
<1>8. queue' \in Seq(TickBatch) /\ last_pushed_tick' \in Nat /\ replication' \in BOOLEAN
  <2>1. CASE UNCHANGED ringVars
    BY <2>1 DEF ringVars, IInv, TypeOK
  <2>2. CASE CycleStreams(c, writes, arrivals)
    <3>1. queue' = Append(queue, BatchOf(ran, clock')) /\ last_pushed_tick' = clock'
      BY <2>2, BatchType, <1>2, <1>4 DEF CycleStreams, Push, ran
    <3>2. BatchOf(ran, clock') \in TickBatch
      BY <1>2, <1>4, BatchType
    <3>3. queue' \in Seq(TickBatch)
      BY <3>1, <3>2, AppendType DEF IInv, TypeOK
    <3>4. replication' \in BOOLEAN
      BY <2>2 DEF CycleStreams, IInv, TypeOK
    <3> QED
      BY <3>1, <3>3, <3>4, <1>2
  <2> QED
    BY <2>1, <2>2 DEF CycleFaults, CycleRuns, CycleCheckpoints, CycleBackpressure
<1>9. result' \in Results
  BY DEF CycleFaults, CycleRuns, CycleCheckpoints, CycleStreams, CycleBackpressure, Results
<1> QED
  BY <1>2, <1>7, <1>8, <1>9 DEF IInv, TypeOK

(* A freshly built cell is well formed; its tree is that of zero pages.    *)
LEMMA NewCellFacts == NewCell \in Cell /\ Clean(NewCell)
<1>1. ZeroHeap \in Heap
  BY ZeroAssumption DEF ZeroHeap, Heap
<1>2. << >> \in Seq(CheckpointEntry) /\ << >> \in Seq(Nat)
  OBVIOUS
<1> QED
  BY <1>1, <1>2 DEF NewCell, Cell, Clean

(* A new supervisor, with no cells and no ring, satisfies the invariant.   *)
LEMMA InitIInv == Init => IInv
<1> SUFFICES ASSUME Init PROVE IInv
  OBVIOUS
<1>1. /\ DOMAIN cells = {}
      /\ order = << >>
      /\ clock = 0
      /\ outcome = NoCell
      /\ queue = << >>
      /\ last_pushed_tick = 0
      /\ result = "new"
  BY DEF Init, SchedInit
<1>2. replication \in BOOLEAN
  BY DEF Init
<1>3. order \in Seq(CellIds) /\ queue \in Seq(TickBatch)
  BY <1>1
<1>4. clock <= MaxTick
  BY <1>1, BoundAssumption
<1> QED
  BY <1>1, <1>2, <1>3, <1>4 DEF IInv, TypeOK, CleanPagesHashed, Results

(* Every step of the supervisor and of the consumer keeps the invariant.   *)
LEMMA NextIInv == IInv /\ [Next]_vars => IInv'
<1> SUFFICES ASSUME IInv, [Next]_vars PROVE IInv'
  OBVIOUS
<1>1. CASE EnableReplication
  BY <1>1 DEF EnableReplication, IInv, TypeOK, CleanPagesHashed, Results
<1>2. ASSUME NEW id \in CellIds, SpawnCell(id) PROVE IInv'
  <2>1. /\ cells' = [c \in DOMAIN cells \cup {id} |-> IF c = id THEN NewCell ELSE cells[c]]
        /\ order' = Append(order, id)
        /\ UNCHANGED <<clock, outcome>>
        /\ result' = "spawned"
        /\ UNCHANGED ringVars
    BY <1>2 DEF SpawnCell, RegisterCell
  <2>2. /\ DOMAIN cells' \subseteq CellIds
        /\ \A x \in DOMAIN cells' : cells'[x] \in Cell
        /\ CleanPagesHashed'
    BY <2>1, NewCellFacts DEF IInv, TypeOK, CleanPagesHashed, Clean
  <2>3. order' \in Seq(CellIds)
    BY <2>1, AppendType DEF IInv, TypeOK
  <2> QED
    BY <2>1, <2>2, <2>3 DEF IInv, TypeOK, ringVars, Results
<1>3. ASSUME NEW id \in CellIds, SpawnDuplicate(id) \/ SpawnFails(id) PROVE IInv'
  BY <1>3 DEF SpawnDuplicate, SpawnFails, IInv, TypeOK, CleanPagesHashed, Results
<1>4. CASE CycleIdle
  BY <1>4 DEF CycleIdle, IInv, TypeOK, CleanPagesHashed, Results
<1>5. ASSUME NEW c \in DOMAIN cells, NEW writes \in Deltas, NEW arrivals \in Arrivals,
             \/ CycleFaults(c, writes, arrivals)
             \/ CycleRuns(c, writes, arrivals)
             \/ CycleCheckpoints(c, writes, arrivals)
             \/ CycleStreams(c, writes, arrivals)
             \/ CycleBackpressure(c, writes, arrivals)
      PROVE  IInv'
  BY <1>5, CyclePreserves
<1>6. CASE PopBatch
  <2>1. queue' \in Seq(TickBatch)
    BY <1>6 DEF PopBatch, IInv, TypeOK
  <2> QED
    BY <1>6, <2>1 DEF PopBatch, IInv, TypeOK, CleanPagesHashed
<1>7. CASE UNCHANGED vars
  BY <1>7 DEF vars, IInv, TypeOK, CleanPagesHashed
<1> QED
  BY <1>1, <1>2, <1>3, <1>4, <1>5, <1>6, <1>7 DEF Next, SupervisorStep, RunOneCycle

(* The inductive invariant holds throughout.                               *)
THEOREM AlwaysIInv == Spec => []IInv
  BY InitIInv, NextIInv, PTL DEF Spec

(* Types: run_one_cycle, spawn_cell and enable_replication never leave the *)
(* supervisor in a state its Rust types rule out.                          *)
THEOREM SupervisorTypes == Spec => []TypeOK
<1>1. IInv => TypeOK
  BY DEF IInv
<1> QED
  BY <1>1, AlwaysIInv, PTL

(* However faults, backpressure and skipped checkpoints interleave, a page *)
(* that is not marked dirty is the page its tree has hashed: clearing the  *)
(* dirty set in run_one_cycle never drops a write.                         *)
THEOREM NoWriteIsLost == Spec => []CleanPagesHashed
<1>1. IInv => CleanPagesHashed
  BY DEF IInv
<1> QED
  BY <1>1, AlwaysIInv, PTL

-----------------------------------------------------------------------------
(* The shape of every dispatching cycle: only the dispatched cell changes, *)
(* and its chain either stays or grows by an entry for the whole memory.   *)
LEMMA CycleShape ==
  ASSUME IInv, NEW c \in DOMAIN cells, NEW writes \in Deltas, NEW arrivals \in Arrivals,
         \/ CycleFaults(c, writes, arrivals)
         \/ CycleRuns(c, writes, arrivals)
         \/ CycleCheckpoints(c, writes, arrivals)
         \/ CycleStreams(c, writes, arrivals)
         \/ CycleBackpressure(c, writes, arrivals)
  PROVE  /\ Dispatch(c)
         /\ DOMAIN cells' = DOMAIN cells
         /\ \A x \in DOMAIN cells : x # c => cells'[x] = cells[x]
         /\ \/ /\ cells'[c].entries = cells[c].entries
               /\ cells'[c].last_checkpoint_tick = cells[c].last_checkpoint_tick
            \/ /\ Due(c)
               /\ cells'[c].entries = Append(cells[c].entries,
                                        [tick |-> clock', smt_root |-> cells'[c].memory])
               /\ cells'[c].last_checkpoint_tick = clock'
<1> DEFINE ran == RunQuantum(cells[c], writes, arrivals)
<1> DEFINE saved == Checkpoint(ran, clock')
<1>1. Dispatch(c)
  BY DEF CycleFaults, CycleRuns, CycleCheckpoints, CycleStreams, CycleBackpressure
<1>2. cells[c] \in Cell /\ Clean(cells[c]) /\ clock' \in Nat
  BY <1>1, DispatchFacts
<1>3. arrivals \in Seq(Nat)
  BY ArrivalsAreTicks DEF IInv, TypeOK
<1>4. /\ ran \in Cell
      /\ Clean(ran)
      /\ ran.entries = cells[c].entries
      /\ ran.last_checkpoint_tick = cells[c].last_checkpoint_tick
  BY <1>2, <1>3, RunQuantumFields, RunQuantumKeepsClean
<1>5. \/ cells' = [cells EXCEPT ![c] = ran]
      \/ Due(c) /\ cells' = [cells EXCEPT ![c] = saved]
      \/ Due(c) /\ cells' = [cells EXCEPT ![c] = ClearDirtyPages(saved)]
  BY DEF CycleFaults, CycleRuns, CycleCheckpoints, CycleStreams, CycleBackpressure
<1> HIDE DEF ran
<1>6. /\ saved \in Cell
      /\ saved.memory = ran.memory
      /\ saved.last_checkpoint_tick = clock'
      /\ saved.entries = Append(ran.entries, [tick |-> clock', smt_root |-> ran.memory])
  <2>1. LET after == Checkpoint(ran, clock')
        IN  /\ after \in Cell
            /\ after.memory = ran.memory
            /\ after.last_checkpoint_tick = clock'
            /\ after.entries = Append(ran.entries, [tick |-> clock', smt_root |-> after.tree])
            /\ Clean(ran) => after.tree = ran.memory
    BY <1>2, <1>4, CheckpointFields, Zenon
  <2>2. saved.tree = ran.memory
    BY <2>1, <1>4
  <2> QED
    BY <2>1, <2>2, Zenon
<1> HIDE DEF saved
<1>7. /\ ClearDirtyPages(saved).memory = saved.memory
      /\ ClearDirtyPages(saved).last_checkpoint_tick = saved.last_checkpoint_tick
      /\ ClearDirtyPages(saved).entries = saved.entries
  BY <1>6, ClearDirtyFields
<1>8. \/ cells'[c] = ran
      \/ Due(c) /\ cells'[c] = saved
      \/ Due(c) /\ cells'[c] = ClearDirtyPages(saved)
  BY <1>5
<1>9. /\ DOMAIN cells' = DOMAIN cells
      /\ \A x \in DOMAIN cells : x # c => cells'[x] = cells[x]
  BY <1>5
<1> QED
  BY <1>1, <1>4, <1>6, <1>7, <1>8, <1>9

(* A step other than a dispatching cycle leaves every existing cell alone. *)
LEMMA NextShape ==
  ASSUME IInv, [Next]_vars
  PROVE  \/ \E c \in DOMAIN cells, writes \in Deltas, arrivals \in Arrivals :
              \/ CycleFaults(c, writes, arrivals)
              \/ CycleRuns(c, writes, arrivals)
              \/ CycleCheckpoints(c, writes, arrivals)
              \/ CycleStreams(c, writes, arrivals)
              \/ CycleBackpressure(c, writes, arrivals)
         \/ \E id \in CellIds : SpawnCell(id)
         \/ UNCHANGED <<cells, order, clock>>
  BY DEF Next, SupervisorStep, RunOneCycle, vars, EnableReplication, SpawnDuplicate,
         SpawnFails, CycleIdle, PopBatch

(* The root appended at a checkpoint is that of the whole memory, although *)
(* CheckpointChain::checkpoint rehashes the dirty pages only.              *)
THEOREM CheckpointsAreComplete == Spec => CheckpointCoversMemory
<1> DEFINE Covers ==
      \A c \in DOMAIN cells :
        cells'[c].entries # cells[c].entries
          => /\ cells'[c].entries[Len(cells'[c].entries)].smt_root = cells'[c].memory
             /\ cells'[c].entries[Len(cells'[c].entries)].tick = clock'
<1>1. IInv /\ [Next]_vars => Covers
  <2> SUFFICES ASSUME IInv, [Next]_vars, NEW c \in DOMAIN cells,
                      cells'[c].entries # cells[c].entries
               PROVE  /\ cells'[c].entries[Len(cells'[c].entries)].smt_root = cells'[c].memory
                      /\ cells'[c].entries[Len(cells'[c].entries)].tick = clock'
    OBVIOUS
  <2>1. cells[c].entries \in Seq(CheckpointEntry)
    BY DEF IInv, TypeOK, Cell
  <2>2. \A id \in CellIds : SpawnCell(id) => cells'[c] = cells[c]
    BY DEF SpawnCell
  <2>3. PICK d \in DOMAIN cells, writes \in Deltas, arrivals \in Arrivals :
          \/ CycleFaults(d, writes, arrivals)
          \/ CycleRuns(d, writes, arrivals)
          \/ CycleCheckpoints(d, writes, arrivals)
          \/ CycleStreams(d, writes, arrivals)
          \/ CycleBackpressure(d, writes, arrivals)
    BY <2>2, NextShape
  <2>4. d = c
    BY <2>3, CycleShape
  <2>5. cells'[c].entries = Append(cells[c].entries,
                              [tick |-> clock', smt_root |-> cells'[c].memory])
    BY <2>3, <2>4, CycleShape
  <2> QED
    BY <2>1, <2>5
<1>2. IInv /\ [Next]_vars => [Covers]_vars
  BY <1>1
<1> QED
  BY <1>2, AlwaysIInv, PTL DEF Spec, CheckpointCoversMemory

-----------------------------------------------------------------------------
(* What rotating or extending the dispatch order does, by position.        *)
LEMMA RotationPositions ==
  ASSUME NEW s \in Seq(CellIds), s # << >>
  PROVE  LET r == Append(Tail(s), Head(s))
         IN  /\ Len(r) = Len(s)
             /\ \A i \in 1..(Len(s) - 1) : r[i] = s[i + 1]
             /\ r[Len(s)] = s[1]
<1>1. Tail(s) \in Seq(CellIds) /\ Len(Tail(s)) = Len(s) - 1 /\ Len(s) \in Nat \ {0}
  OBVIOUS
<1>2. \A i \in 1..(Len(s) - 1) : Tail(s)[i] = s[i + 1]
  OBVIOUS
<1> QED
  BY <1>1, <1>2

(* Spawning appends a fresh id and dispatching rotates: either way each    *)
(* registered cell keeps exactly one place.                                *)
LEMMA RosterStep ==
  ASSUME IInv, RosterMatchesCells, [Next]_vars
  PROVE  RosterMatchesCells'
<1>0. order \in Seq(CellIds) /\ Len(order) \in Nat
  BY DEF IInv, TypeOK
<1>1. ASSUME NEW c \in DOMAIN cells, NEW writes \in Deltas, NEW arrivals \in Arrivals,
             \/ CycleFaults(c, writes, arrivals)
             \/ CycleRuns(c, writes, arrivals)
             \/ CycleCheckpoints(c, writes, arrivals)
             \/ CycleStreams(c, writes, arrivals)
             \/ CycleBackpressure(c, writes, arrivals)
      PROVE  RosterMatchesCells'
  <2>1. DOMAIN cells' = DOMAIN cells /\ Dispatch(c)
    BY <1>1, CycleShape
  <2>2. order # << >> /\ order' = Append(Tail(order), Head(order))
    BY <2>1, DispatchFacts
  <2>3. /\ Len(order') = Len(order)
        /\ \A i \in 1..(Len(order) - 1) : order'[i] = order[i + 1]
        /\ order'[Len(order)] = order[1]
    BY <1>0, <2>2, RotationPositions
  <2>4. \A i \in 1..Len(order') : order'[i] \in DOMAIN cells'
    <3>1. TAKE i \in 1..Len(order')
    <3>2. CASE i = Len(order)
      BY <1>0, <2>1, <2>3, <3>2 DEF RosterMatchesCells
    <3>3. CASE i # Len(order)
      BY <1>0, <2>1, <2>3, <3>3 DEF RosterMatchesCells
    <3> QED
      BY <3>2, <3>3
  <2>5. \A x \in DOMAIN cells' : \E i \in 1..Len(order') : order'[i] = x
    <3>1. TAKE x \in DOMAIN cells'
    <3>2. PICK k \in 1..Len(order) : order[k] = x
      BY <2>1 DEF RosterMatchesCells
    <3>3. CASE k = 1
      BY <1>0, <2>3, <3>2, <3>3
    <3>4. CASE k # 1
      <4>1. k - 1 \in 1..(Len(order) - 1) /\ order'[k - 1] = x
        BY <1>0, <2>3, <3>2, <3>4
      <4> QED
        BY <1>0, <2>3, <4>1
    <3> QED
      BY <3>3, <3>4
  <2>6. \A i, j \in 1..Len(order') : order'[i] = order'[j] => i = j
    <3>1. SUFFICES ASSUME NEW i \in 1..Len(order), NEW j \in 1..Len(order),
                          order'[i] = order'[j]
                   PROVE  i = j
      BY <2>3
    <3>2. \A k \in 1..Len(order) :
            order'[k] = order[IF k = Len(order) THEN 1 ELSE k + 1]
      BY <1>0, <2>3
    <3> DEFINE pos(k) == IF k = Len(order) THEN 1 ELSE k + 1
    <3>3. pos(i) \in 1..Len(order) /\ pos(j) \in 1..Len(order)
      BY <1>0
    <3>4. order[pos(i)] = order[pos(j)]
      BY <3>1, <3>2
    <3>5. pos(i) = pos(j)
      BY <3>3, <3>4 DEF RosterMatchesCells
    <3> QED
      BY <1>0, <3>5
  <2> QED
    BY <2>4, <2>5, <2>6 DEF RosterMatchesCells
<1>2. ASSUME NEW id \in CellIds, SpawnCell(id) PROVE RosterMatchesCells'
  <2>1. /\ id \notin DOMAIN cells
        /\ DOMAIN cells' = DOMAIN cells \cup {id}
        /\ order' = Append(order, id)
    BY <1>2 DEF SpawnCell, RegisterCell
  <2>2. /\ Len(order') = Len(order) + 1
        /\ order'[Len(order) + 1] = id
        /\ \A i \in 1..Len(order) : order'[i] = order[i]
    BY <1>0, <2>1
  <2>3. \A i \in 1..Len(order') : order'[i] \in DOMAIN cells'
    BY <1>0, <2>1, <2>2 DEF RosterMatchesCells
  <2>4. \A x \in DOMAIN cells' : \E i \in 1..Len(order') : order'[i] = x
    <3>1. TAKE x \in DOMAIN cells'
    <3>2. CASE x = id
      BY <1>0, <2>2, <3>2
    <3>3. CASE x # id
      <4>1. PICK k \in 1..Len(order) : order[k] = x
        BY <2>1, <3>3 DEF RosterMatchesCells
      <4> QED
        BY <1>0, <2>2, <4>1
    <3> QED
      BY <3>2, <3>3
  <2>5. \A i, j \in 1..Len(order') : order'[i] = order'[j] => i = j
    BY <1>0, <2>1, <2>2 DEF RosterMatchesCells
  <2> QED
    BY <2>3, <2>4, <2>5 DEF RosterMatchesCells
<1>3. CASE UNCHANGED <<cells, order, clock>>
  BY <1>3 DEF RosterMatchesCells
<1> QED
  BY <1>1, <1>2, <1>3, NextShape

(* The expect in run_one_cycle cannot fail: the rotation holds each        *)
(* registered cell exactly once and no other id.                           *)
THEOREM RosterIsExact == Spec => []RosterMatchesCells
<1>1. Init => RosterMatchesCells
  BY DEF Init, SchedInit, RosterMatchesCells
<1>2. IInv /\ RosterMatchesCells /\ [Next]_vars => RosterMatchesCells'
  BY RosterStep
<1> QED
  BY <1>1, <1>2, AlwaysIInv, PTL DEF Spec

-----------------------------------------------------------------------------
(* A push carries the current tick, later than any tick in the ring, and   *)
(* is refused when the ring is full; a pop removes the oldest batch.       *)
LEMMA RingStep ==
  ASSUME IInv, RingInTickOrder, [Next]_vars
  PROVE  RingInTickOrder'
<1>0. /\ queue \in Seq(TickBatch)
      /\ Len(queue) \in Nat
      /\ \A i \in 1..Len(queue) : queue[i].tick \in Nat
      /\ last_pushed_tick \in Nat
      /\ clock \in Nat
      /\ RingCapacity \in Nat \ {0}
  <2>1. /\ queue \in Seq(TickBatch)
        /\ last_pushed_tick \in Nat
        /\ clock \in Nat
    BY DEF IInv, TypeOK
  <2>2. \A i \in 1..Len(queue) : queue[i] \in TickBatch
    BY <2>1
  <2>3. \A b \in TickBatch : b.tick \in Nat
    BY DEF TickBatch
  <2>4. Len(queue) \in Nat
    BY <2>1
  <2> QED
    BY <2>1, <2>2, <2>3, <2>4, CapacityAssumption
<1>1. CASE EnableReplication
  BY <1>0, <1>1 DEF EnableReplication, RingInTickOrder
<1>2. ASSUME NEW c \in DOMAIN cells, NEW writes \in Deltas, NEW arrivals \in Arrivals,
             CycleStreams(c, writes, arrivals)
      PROVE  RingInTickOrder'
  <2> DEFINE batch == BatchOf(RunQuantum(cells[c], writes, arrivals), clock')
  <2>1. /\ Dispatch(c)
        /\ Len(queue) < RingCapacity
        /\ queue' = Append(queue, batch)
        /\ last_pushed_tick' = batch.tick
    BY <1>0, <1>2 DEF CycleStreams, Push, RingFull
  <2>2. clock' = clock + 1 /\ clock' \in Nat
    BY <2>1, DispatchFacts
  <2>3. batch.tick = clock'
    BY DEF BatchOf
  <2> HIDE DEF batch
  <2>4. /\ Len(queue') = Len(queue) + 1
        /\ queue'[Len(queue) + 1] = batch
        /\ \A i \in 1..Len(queue) : queue'[i] = queue[i]
    BY <1>0, <2>1
  <2>5. \A i \in 1..Len(queue) : queue[i].tick <= last_pushed_tick
    <3>1. TAKE i \in 1..Len(queue)
    <3>2. queue # << >> /\ Len(queue) \in 1..Len(queue)
      BY <1>0
    <3>3. i = Len(queue) \/ queue[i].tick < queue[Len(queue)].tick
      BY <1>0, <3>2 DEF RingInTickOrder
    <3> QED
      BY <1>0, <3>2, <3>3 DEF RingInTickOrder
  <2>6. \A i, j \in 1..Len(queue') : i < j => queue'[i].tick < queue'[j].tick
    <3>1. SUFFICES ASSUME NEW i \in 1..Len(queue'), NEW j \in 1..Len(queue'), i < j
                   PROVE  queue'[i].tick < queue'[j].tick
      OBVIOUS
    <3>2. i \in 1..Len(queue) /\ queue'[i] = queue[i]
      BY <1>0, <2>4, <3>1
    <3>3. CASE j = Len(queue) + 1
      <4>1. queue[i].tick <= last_pushed_tick /\ last_pushed_tick <= clock
        BY <2>5, <3>2 DEF RingInTickOrder
      <4> QED
        BY <1>0, <2>2, <2>3, <2>4, <3>2, <3>3, <4>1
    <3>4. CASE j # Len(queue) + 1
      <4>1. j \in 1..Len(queue) /\ queue'[j] = queue[j]
        BY <1>0, <2>4, <3>4
      <4> QED
        BY <3>1, <3>2, <4>1 DEF RingInTickOrder
    <3> QED
      BY <3>3, <3>4
  <2> QED
    BY <1>0, <2>1, <2>2, <2>3, <2>4, <2>6 DEF RingInTickOrder
<1>3. CASE PopBatch
  <2>1. queue # << >> /\ queue' = Tail(queue) /\ UNCHANGED <<clock, last_pushed_tick>>
    BY <1>3 DEF PopBatch
  <2>2. /\ Len(queue') = Len(queue) - 1
        /\ \A i \in 1..(Len(queue) - 1) : queue'[i] = queue[i + 1]
    BY <1>0, <2>1
  <2>3. \A i, j \in 1..Len(queue') : i < j => queue'[i].tick < queue'[j].tick
    <3>1. SUFFICES ASSUME NEW i \in 1..Len(queue'), NEW j \in 1..Len(queue'), i < j
                   PROVE  queue'[i].tick < queue'[j].tick
      OBVIOUS
    <3>2. i + 1 \in 1..Len(queue) /\ j + 1 \in 1..Len(queue) /\ i + 1 < j + 1
      BY <1>0, <2>2, <3>1
    <3>3. queue'[i] = queue[i + 1] /\ queue'[j] = queue[j + 1]
      BY <1>0, <2>2
    <3> QED
      BY <3>2, <3>3 DEF RingInTickOrder
  <2>4. queue' # << >> => queue'[Len(queue')].tick = last_pushed_tick'
    BY <1>0, <2>1, <2>2 DEF RingInTickOrder
  <2> QED
    BY <1>0, <2>1, <2>2, <2>3, <2>4 DEF RingInTickOrder
<1>4. ASSUME NEW c, Dispatch(c), UNCHANGED ringVars PROVE RingInTickOrder'
  <2>1. clock' = clock + 1
    BY <1>4, DispatchFacts
  <2> QED
    BY <1>0, <1>4, <2>1 DEF ringVars, RingInTickOrder
<1>5. CASE UNCHANGED <<queue, last_pushed_tick, clock>>
  BY <1>5 DEF RingInTickOrder
<1> QED
  BY <1>1, <1>2, <1>3, <1>4, <1>5
     DEF Next, SupervisorStep, RunOneCycle, vars, ringVars, SpawnCell, RegisterCell,
         SpawnDuplicate, SpawnFails, CycleIdle, CycleFaults, CycleRuns, CycleCheckpoints,
         CycleBackpressure

(* DeltaRing never exceeds its capacity and is in strict tick order, so    *)
(* its FIFO order is the tick order the standby insists on.                *)
THEOREM RingIsOrdered == Spec => []RingInTickOrder
<1>1. Init => RingInTickOrder
  <2> SUFFICES ASSUME Init PROVE RingInTickOrder
    OBVIOUS
  <2>1. queue = << >> /\ last_pushed_tick = 0 /\ clock = 0
    BY DEF Init, SchedInit
  <2> QED
    BY <2>1, CapacityAssumption DEF RingInTickOrder
<1>2. IInv /\ RingInTickOrder /\ [Next]_vars => RingInTickOrder'
  BY RingStep
<1> QED
  BY <1>1, <1>2, AlwaysIInv, PTL DEF Spec

-----------------------------------------------------------------------------
(* The last checkpoint of a cell lies in the past.                         *)
LastTickPast == \A c \in DOMAIN cells : cells[c].last_checkpoint_tick <= clock

(* One cell's share of CheckpointsSpaced.                                  *)
Spaced(cell, interval) ==
  LET e == cell.entries
  IN  /\ \A i \in 1..(Len(e) - 1) : /\ e[i].tick < e[i + 1].tick
                                    /\ e[i + 1].tick - e[i].tick >= interval
      /\ e # << >> => cell.last_checkpoint_tick = e[Len(e)].tick

(* A checkpoint is appended only when checkpoint_due held, so it is an     *)
(* interval or more after the last one; all other steps keep the chains.   *)
LEMMA SpacingStep ==
  ASSUME IInv, CheckpointsSpaced, LastTickPast, [Next]_vars
  PROVE  CheckpointsSpaced' /\ LastTickPast'
<1>1. ASSUME NEW c \in DOMAIN cells, NEW writes \in Deltas, NEW arrivals \in Arrivals,
             \/ CycleFaults(c, writes, arrivals)
             \/ CycleRuns(c, writes, arrivals)
             \/ CycleCheckpoints(c, writes, arrivals)
             \/ CycleStreams(c, writes, arrivals)
             \/ CycleBackpressure(c, writes, arrivals)
      PROVE  CheckpointsSpaced' /\ LastTickPast'
  <2> DEFINE e == cells[c].entries
  <2> DEFINE last == cells[c].last_checkpoint_tick
  <2> DEFINE f == cells'[c].entries
  <2>1. /\ clock' = clock + 1
        /\ clock \in Nat
        /\ c \in CellIds
    BY <1>1, CycleShape, DispatchFacts DEF IInv, TypeOK
  <2>2. /\ DOMAIN cells' = DOMAIN cells
        /\ \A x \in DOMAIN cells : x # c => cells'[x] = cells[x]
    BY <1>1, CycleShape
  <2>3. e \in Seq(CheckpointEntry) /\ last \in Nat /\ last <= clock /\ Interval[c] \in Nat
    BY <2>1, IntervalAssumption DEF IInv, TypeOK, Cell, LastTickPast
  <2>4. Spaced(cells[c], Interval[c])
    BY DEF CheckpointsSpaced, Spaced
  <2>5. Spaced(cells'[c], Interval[c]) /\ cells'[c].last_checkpoint_tick <= clock'
    <3>1. CASE f = e /\ cells'[c].last_checkpoint_tick = last
      BY <2>1, <2>3, <2>4, <3>1 DEF Spaced
    <3>2. CASE /\ Due(c)
               /\ f = Append(e, [tick |-> clock', smt_root |-> cells'[c].memory])
               /\ cells'[c].last_checkpoint_tick = clock'
      <4>1. clock' - last >= Interval[c] /\ clock' > last
        BY <2>1, <2>3, <3>2 DEF Due, CheckpointDue, SaturatingSub
      <4>2. /\ Len(f) = Len(e) + 1
            /\ f[Len(e) + 1].tick = clock'
            /\ \A i \in 1..Len(e) : f[i] = e[i]
            /\ Len(e) \in Nat
        BY <2>3, <3>2
      <4> HIDE DEF e, f, last
      <4>3. \A i \in 1..(Len(f) - 1) : /\ f[i].tick < f[i + 1].tick
                                       /\ f[i + 1].tick - f[i].tick >= Interval[c]
        <5>1. TAKE i \in 1..(Len(f) - 1)
        <5>2. CASE i = Len(e)
          <6>1. e # << >> /\ f[i].tick = last
            BY <2>3, <2>4, <4>2, <5>2 DEF Spaced, e, last
          <6> QED
            BY <4>1, <4>2, <5>2, <6>1
        <5>3. CASE i # Len(e)
          <6>1. i \in 1..(Len(e) - 1) /\ f[i] = e[i] /\ f[i + 1] = e[i + 1]
            BY <4>2, <5>3
          <6> QED
            BY <2>4, <6>1 DEF Spaced, e
        <5> QED
          BY <5>2, <5>3
      <4>4. cells'[c].last_checkpoint_tick = f[Len(f)].tick
        BY <3>2, <4>2
      <4>5. cells'[c].last_checkpoint_tick <= clock'
        BY <2>1, <3>2
      <4> QED
        BY <4>3, <4>4, <4>5 DEF Spaced, f
    <3> QED
      BY <1>1, <3>1, <3>2, CycleShape
  <2>6. CheckpointsSpaced'
    BY <2>2, <2>5 DEF CheckpointsSpaced, Spaced
  <2>7. LastTickPast'
    <3>1. \A x \in DOMAIN cells : cells[x].last_checkpoint_tick \in Nat
      BY DEF IInv, TypeOK, Cell
    <3> QED
      BY <2>1, <2>2, <2>5, <3>1 DEF LastTickPast
  <2> QED
    BY <2>6, <2>7
<1>2. ASSUME NEW id \in CellIds, SpawnCell(id) PROVE CheckpointsSpaced' /\ LastTickPast'
  <2>1. /\ DOMAIN cells' = DOMAIN cells \cup {id}
        /\ cells'[id] = NewCell
        /\ \A x \in DOMAIN cells : cells'[x] = cells[x]
        /\ clock' = clock
        /\ clock \in Nat
    BY <1>2 DEF SpawnCell, RegisterCell, IInv, TypeOK
  <2>2. NewCell.entries = << >> /\ NewCell.last_checkpoint_tick = 0
    BY DEF NewCell
  <2>3. Spaced(NewCell, Interval[id])
    BY <2>2 DEF Spaced
  <2> QED
    BY <2>1, <2>2, <2>3 DEF CheckpointsSpaced, LastTickPast, Spaced
<1>3. CASE UNCHANGED <<cells, order, clock>>
  BY <1>3 DEF CheckpointsSpaced, LastTickPast
<1> QED
  BY <1>1, <1>2, <1>3, NextShape

(* Two checkpoints of a cell are at least its interval apart, in tick      *)
(* order, whatever the ring answered in between.                           *)
THEOREM CheckpointsKeepTheirDistance == Spec => []CheckpointsSpaced
<1>1. Init => CheckpointsSpaced /\ LastTickPast
  BY DEF Init, CheckpointsSpaced, LastTickPast
<1>2. IInv /\ CheckpointsSpaced /\ LastTickPast /\ [Next]_vars
        => CheckpointsSpaced' /\ LastTickPast'
  BY SpacingStep
<1> QED
  BY <1>1, <1>2, AlwaysIInv, PTL DEF Spec

-----------------------------------------------------------------------------
(* The ticks between two checkpoints of a cell that runs at every tick:    *)
(* its interval, or one when the interval is zero.                         *)
Grace(c) == IF Interval[c] = 0 THEN 1 ELSE Interval[c]

(* Neither the checkpoint nor a queued completion of a cell with this many *)
(* turns to wait since its last one is overdue.                            *)
NotOverdue(cell, c, turns) ==
  /\ c \notin Faulty /\ cell.entries # << >>
       => clock - cell.last_checkpoint_tick <= Grace(c) - 1 + turns
  /\ \A j \in 1..Len(cell.pending_io) : clock - cell.pending_io[j] <= turns

(* The cell that ran last is at the back of the rotation: the cell at      *)
(* place i had its last turn Len(order) - i turns ago.                     *)
WaitBoundedByPlace ==
  \A i \in 1..Len(order) : NotOverdue(cells[order[i]], order[i], Len(order) - i)

(* What a cycle leaves in the dispatched cell: the completions that came   *)
(* during the quantum and, unless the cell faulted, either a checkpoint    *)
(* of this tick or the one it had, when none was due.                      *)
LEMMA CycleTiming ==
  ASSUME IInv, NEW c \in DOMAIN cells, NEW writes \in Deltas, NEW arrivals \in Arrivals,
         \/ CycleFaults(c, writes, arrivals)
         \/ CycleRuns(c, writes, arrivals)
         \/ CycleCheckpoints(c, writes, arrivals)
         \/ CycleStreams(c, writes, arrivals)
         \/ CycleBackpressure(c, writes, arrivals)
  PROVE  /\ cells'[c].pending_io = arrivals
         /\ \/ c \in Faulty
            \/ /\ ~Due(c)
               /\ cells'[c].last_checkpoint_tick = cells[c].last_checkpoint_tick
            \/ cells'[c].last_checkpoint_tick = clock'
<1>. DEFINE ran == RunQuantum(cells[c], writes, arrivals)
<1>. DEFINE saved == Checkpoint(ran, clock')
<1>1. cells[c] \in Cell
  BY DEF IInv, TypeOK
<1>2. /\ ran.pending_io = arrivals
      /\ ran.last_checkpoint_tick = cells[c].last_checkpoint_tick
      /\ DOMAIN ran = DOMAIN cells[c]
  BY <1>1 DEF RunQuantum, Cell
<1>3. \/ cells'[c] = ran /\ (c \in Faulty \/ ~Due(c))
      \/ cells'[c] = saved
      \/ cells'[c] = ClearDirtyPages(saved)
  BY DEF CycleFaults, CycleRuns, CycleCheckpoints, CycleStreams, CycleBackpressure
<1>. HIDE DEF ran
<1>4. /\ saved.pending_io = arrivals
      /\ saved.last_checkpoint_tick = clock'
      /\ DOMAIN saved = DOMAIN cells[c]
  BY <1>1, <1>2 DEF Checkpoint, Cell
<1>. HIDE DEF saved
<1>5. /\ ClearDirtyPages(saved).pending_io = arrivals
      /\ ClearDirtyPages(saved).last_checkpoint_tick = clock'
  BY <1>1, <1>4 DEF ClearDirtyPages, Cell
<1>. QED
  BY <1>2, <1>3, <1>4, <1>5

(* At most one more tick for a cell that did not run: it may have waited   *)
(* one turn more.                                                          *)
LEMMA WaitGrows ==
  ASSUME IInv, clock' = clock \/ clock' = clock + 1, NEW c \in DOMAIN cells, NEW turns \in Int,
         cells'[c] = cells[c], NotOverdue(cells[c], c, turns)
  PROVE  NotOverdue(cells[c], c, turns + 1)'
<1>1. /\ clock \in Nat /\ cells[c].last_checkpoint_tick \in Nat
      /\ cells[c].pending_io \in Seq(Nat) /\ c \in CellIds
  BY DEF IInv, TypeOK, Cell
<1>2. Interval[c] \in Nat
  BY <1>1, IntervalAssumption
<1>3. \A j \in 1..Len(cells[c].pending_io) : cells[c].pending_io[j] \in Nat
  BY <1>1
<1>4. Grace(c) \in Nat
  BY <1>2 DEF Grace
<1>. HIDE DEF Grace
<1>5. c \notin Faulty /\ cells[c].entries # << >>
        => clock' - cells[c].last_checkpoint_tick <= Grace(c) - 1 + (turns + 1)
  BY <1>1, <1>4 DEF NotOverdue
<1>6. \A j \in 1..Len(cells[c].pending_io) : clock' - cells[c].pending_io[j] <= turns + 1
  <2>. TAKE j \in 1..Len(cells[c].pending_io)
  <2>. DEFINE arrival == cells[c].pending_io[j]
  <2>1. clock - arrival <= turns
    BY DEF NotOverdue
  <2>2. arrival \in Nat /\ clock \in Nat
    BY <1>1, <1>3
  <2>. HIDE DEF arrival
  <2>3. clock' - arrival <= turns + 1
    BY <2>1, <2>2
  <2>. QED
    BY <2>3 DEF arrival
<1>. QED
  BY <1>5, <1>6 DEF NotOverdue

(* The cell that just ran is not overdue, with no turn waited.             *)
LEMMA NotOverdueAfterTurn ==
  ASSUME IInv, LastTickPast, NEW c \in DOMAIN cells, NEW writes \in Deltas,
         NEW arrivals \in Arrivals,
         \/ CycleFaults(c, writes, arrivals)
         \/ CycleRuns(c, writes, arrivals)
         \/ CycleCheckpoints(c, writes, arrivals)
         \/ CycleStreams(c, writes, arrivals)
         \/ CycleBackpressure(c, writes, arrivals)
  PROVE  NotOverdue(cells[c], c, 0)'
<1>1. /\ clock \in Nat /\ clock' = clock + 1 /\ c \in CellIds
      /\ cells[c].last_checkpoint_tick \in Nat /\ cells[c].last_checkpoint_tick <= clock
  BY CycleShape, DispatchFacts DEF IInv, TypeOK, Cell, LastTickPast
<1>2. Interval[c] \in Nat
  BY <1>1, IntervalAssumption
<1>3. \A j \in 1..Len(arrivals) : clock' - arrivals[j] <= 0
  BY <1>1 DEF Arrivals
<1>4. c \notin Faulty => clock' - cells'[c].last_checkpoint_tick <= Grace(c) - 1
  BY <1>1, <1>2, CycleTiming DEF Grace, Due, CheckpointDue, SaturatingSub
<1>5. Grace(c) - 1 = Grace(c) - 1 + 0
  BY <1>2 DEF Grace
<1>6. cells'[c].pending_io = arrivals
  BY CycleTiming
<1>. QED
  BY <1>3, <1>4, <1>5, <1>6 DEF NotOverdue

(* Dispatching moves everyone one place forward and costs one tick.        *)
LEMMA WaitStep ==
  ASSUME IInv, LastTickPast, RosterMatchesCells, WaitBoundedByPlace, [Next]_vars
  PROVE  WaitBoundedByPlace'
<1>0. order \in Seq(CellIds) /\ Len(order) \in Nat /\ clock \in Nat
  BY DEF IInv, TypeOK
<1>1. ASSUME NEW c \in DOMAIN cells, NEW writes \in Deltas, NEW arrivals \in Arrivals,
             \/ CycleFaults(c, writes, arrivals)
             \/ CycleRuns(c, writes, arrivals)
             \/ CycleCheckpoints(c, writes, arrivals)
             \/ CycleStreams(c, writes, arrivals)
             \/ CycleBackpressure(c, writes, arrivals)
      PROVE  WaitBoundedByPlace'
  <2>1. /\ \A x \in DOMAIN cells : x # c => cells'[x] = cells[x]
        /\ Dispatch(c)
    BY <1>1, CycleShape
  <2>2. /\ order # << >> /\ order' = Append(Tail(order), Head(order))
        /\ clock' = clock + 1 /\ c = order[1]
    BY <1>0, <2>1, DispatchFacts DEF Dispatch, NextDispatch
  <2>3. /\ Len(order') = Len(order)
        /\ \A i \in 1..(Len(order) - 1) : order'[i] = order[i + 1]
        /\ order'[Len(order)] = order[1]
    BY <1>0, <2>2, RotationPositions
  <2>4. ASSUME NEW i \in 1..Len(order') PROVE NotOverdue(cells[order[i]], order[i], Len(order) - i)'
    <3>1. CASE i = Len(order)
      <4>1. NotOverdue(cells[c], c, 0)'
        BY <1>1, NotOverdueAfterTurn
      <4>2. order'[i] = c /\ Len(order') - i = 0
        BY <1>0, <2>2, <2>3, <3>1
      <4>. QED
        BY <4>1, <4>2
    <3>2. CASE i # Len(order)
      <4>1. i \in 1..(Len(order) - 1) /\ i + 1 \in 1..Len(order) /\ 1 \in 1..Len(order)
        BY <1>0, <2>3, <3>2
      <4>2. PICK x \in DOMAIN cells : x = order[i + 1] /\ x = order'[i]
        BY <2>3, <4>1 DEF RosterMatchesCells
      <4>3. x # c
        BY <2>2, <4>1, <4>2 DEF RosterMatchesCells
      <4>4. PICK turns \in Int : turns = Len(order) - (i + 1)
        <5>1. Len(order) - (i + 1) \in Int
          BY <1>0, <4>1
        <5>. QED
          BY <5>1, Zenon
      <4>5. NotOverdue(cells[x], x, turns)
        BY <4>1, <4>2, <4>4 DEF WaitBoundedByPlace
      <4>6. NotOverdue(cells[x], x, turns + 1)'
        BY <2>1, <2>2, <4>3, <4>5, WaitGrows
      <4>7. Len(order') - i = turns + 1
        BY <1>0, <2>3, <4>1, <4>4
      <4>. QED
        BY <4>2, <4>6, <4>7
    <3>. QED
      BY <3>1, <3>2
  <2>. QED
    BY <2>4 DEF WaitBoundedByPlace
<1>2. ASSUME NEW id \in CellIds, SpawnCell(id) PROVE WaitBoundedByPlace'
  <2>1. /\ id \notin DOMAIN cells /\ cells'[id] = NewCell
        /\ \A x \in DOMAIN cells : cells'[x] = cells[x]
        /\ order' = Append(order, id) /\ clock' = clock
    BY <1>2 DEF SpawnCell, RegisterCell
  <2>2. /\ Len(order') = Len(order) + 1
        /\ order'[Len(order) + 1] = id
        /\ \A i \in 1..Len(order) : order'[i] = order[i]
    BY <1>0, <2>1
  <2>3. ASSUME NEW i \in 1..Len(order') PROVE NotOverdue(cells[order[i]], order[i], Len(order) - i)'
    <3>1. CASE i = Len(order) + 1
      BY <1>0, <2>1, <2>2, <3>1 DEF NotOverdue, NewCell
    <3>2. CASE i \in 1..Len(order)
      <4>1. PICK x \in DOMAIN cells : x = order[i] /\ x = order'[i]
        BY <2>2, <3>2 DEF RosterMatchesCells
      <4>2. PICK turns \in Int : turns = Len(order) - i /\ Len(order') - i = turns + 1
        <5>1. Len(order) - i \in Int /\ Len(order') - i = (Len(order) - i) + 1
          BY <1>0, <2>2, <3>2
        <5>. QED
          BY <5>1, Zenon
      <4>3. NotOverdue(cells[x], x, turns)
        BY <3>2, <4>1, <4>2 DEF WaitBoundedByPlace
      <4>4. NotOverdue(cells[x], x, turns + 1)'
        BY <2>1, <4>3, WaitGrows
      <4>. QED
        BY <4>1, <4>2, <4>4
    <3>. QED
      BY <1>0, <2>2, <3>1, <3>2
  <2>. QED
    BY <2>3 DEF WaitBoundedByPlace
<1>3. CASE UNCHANGED <<cells, order, clock>>
  BY <1>3 DEF WaitBoundedByPlace, NotOverdue
<1>. QED
  BY <1>1, <1>2, <1>3, NextShape

(* The waits by place, with the roster and the chains they rest on.        *)
WaitInv == RosterMatchesCells /\ CheckpointsSpaced /\ LastTickPast /\ WaitBoundedByPlace

(* Cycles turn the rotation, spawns put a cell without history at its end. *)
LEMMA AlwaysWaitInv == Spec => []WaitInv
<1>1. Init => WaitInv
  BY DEF Init, SchedInit, WaitInv, RosterMatchesCells, CheckpointsSpaced, LastTickPast,
         WaitBoundedByPlace
<1>2. IInv /\ WaitInv /\ [Next]_vars => WaitInv'
  BY RosterStep, SpacingStep, WaitStep DEF WaitInv
<1>. QED
  BY <1>1, <1>2, AlwaysIInv, PTL DEF Spec

(* supervisor.rs:131: neither the faults of other cells nor a full ring    *)
(* delay a cell's checkpoint beyond its first turn after the interval.     *)
THEOREM CheckpointsAreTimely == Spec => []CheckpointsTimely
<1>1. IInv /\ WaitInv => CheckpointsTimely
  <2>. SUFFICES ASSUME IInv, WaitInv, NEW c \in DOMAIN cells \ Faulty, cells[c].entries # << >>
                PROVE  clock - cells[c].last_checkpoint_tick <= Grace(c) + Len(order) - 2
    BY DEF CheckpointsTimely, Grace
  <2>1. PICK i \in 1..Len(order) : order[i] = c
    BY DEF WaitInv, RosterMatchesCells
  <2>2. /\ Len(order) \in Nat /\ clock \in Nat /\ cells[c].last_checkpoint_tick \in Nat
        /\ Interval[c] \in Nat
    BY IntervalAssumption DEF IInv, TypeOK, Cell
  <2>3. clock - cells[c].last_checkpoint_tick <= Grace(c) - 1 + (Len(order) - i)
    BY <2>1 DEF WaitInv, WaitBoundedByPlace, NotOverdue
  <2>4. Grace(c) \in Nat
    BY <2>2 DEF Grace
  <2>5. \A last, grace, n \in Nat : \A k \in 1..n :
          clock - last <= grace - 1 + (n - k) => clock - last <= grace + n - 2
    BY <2>2
  <2>. QED
    BY <2>2, <2>3, <2>4, <2>5
<1>. QED
  BY <1>1, AlwaysIInv, AlwaysWaitInv, PTL

(* ARCHITECTURE.md section 5: a completion waits in pending_io for less    *)
(* than one rotation, however many cells share the supervisor.             *)
THEOREM CompletionsAreTaken == Spec => []CompletionsTakenAtBoundary
<1>1. IInv /\ WaitInv => CompletionsTakenAtBoundary
  <2>. SUFFICES ASSUME IInv, WaitInv, NEW c \in DOMAIN cells,
                       NEW j \in 1..Len(cells[c].pending_io)
                PROVE  clock - cells[c].pending_io[j] < Len(order)
    BY DEF CompletionsTakenAtBoundary
  <2>1. PICK i \in 1..Len(order) : order[i] = c
    BY DEF WaitInv, RosterMatchesCells
  <2>2. /\ Len(order) \in Nat /\ clock \in Nat /\ cells[c].pending_io \in Seq(Nat)
    BY DEF IInv, TypeOK, Cell
  <2>3. cells[c].pending_io[j] \in Nat
    BY <2>2
  <2>4. clock - cells[c].pending_io[j] <= Len(order) - i
    BY <2>1 DEF WaitInv, WaitBoundedByPlace, NotOverdue
  <2>. QED
    BY <2>1, <2>2, <2>3, <2>4
<1>. QED
  BY <1>1, AlwaysIInv, AlwaysWaitInv, PTL

-----------------------------------------------------------------------------
(* The scheduler by itself, with evictions, which the supervisor does not  *)
(* use.                                                                    *)

(* The clock stays within its width and an eviction leaves known ids only. *)
LEMMA SchedTypeStep == SchedTypeOK /\ [SchedNext]_schedVars => SchedTypeOK'
<1>. SUFFICES ASSUME SchedTypeOK, [SchedNext]_schedVars PROVE SchedTypeOK'
  OBVIOUS
<1>. USE DEF SchedTypeOK
<1>1. ASSUME NEW id \in CellIds, RegisterCell(id) PROVE SchedTypeOK'
  BY <1>1, AppendType DEF RegisterCell
<1>2. ASSUME NEW id \in CellIds, DeregisterCell(id) PROVE SchedTypeOK'
  <2>1. PICK n \in 0..Len(order) : \E at \in [1..n -> 1..Len(order)] :
               order' = [k \in 1..n |-> order[at[k]]]
    BY <1>2 DEF DeregisterCell
  <2>2. PICK at \in [1..n -> 1..Len(order)] : order' = [k \in 1..n |-> order[at[k]]]
    BY <2>1
  <2>3. n \in Nat /\ \A k \in 1..n : order[at[k]] \in CellIds
    OBVIOUS
  <2>4. order' \in Seq(CellIds)
    BY <2>2, <2>3
  <2>. QED
    BY <1>2, <2>4 DEF DeregisterCell
<1>3. ASSUME NEW id \in CellIds, NextDispatch(id) PROVE SchedTypeOK'
  <2>1. order # << >> /\ order' = Append(Tail(order), id) /\ outcome' = id
        /\ clock' = (clock + 1) % ClockModulus
    BY <1>3 DEF NextDispatch, Advance
  <2>2. order' \in Seq(CellIds)
    BY <2>1, AppendType
  <2>3. ClockModulus \in Nat \ {0}
    BY BoundAssumption
  <2>4. clock' \in 0..(ClockModulus - 1)
    BY <2>1, <2>3
  <2>. QED
    BY <2>1, <2>2, <2>4
<1>4. CASE UNCHANGED schedVars
  BY <1>4 DEF schedVars
<1>. QED
  BY <1>1, <1>2, <1>3, <1>4
     DEF SchedNext, SchedDispatch, NothingToDispatch, schedVars

(* scheduler.rs, clock.rs: whatever is registered, evicted and dispatched, *)
(* the rotation holds known ids and the clock wraps within its width.      *)
THEOREM SchedulerTypes == SchedSpec => []SchedTypeOK
<1>1. SchedInit => SchedTypeOK
  BY BoundAssumption DEF SchedInit, SchedTypeOK
<1>. QED
  BY <1>1, SchedTypeStep, PTL DEF SchedSpec

(* retain keeps the order of those it keeps.                               *)
LEMMA EvictionKeepsOrder ==
  ASSUME order \in Seq(CellIds), NEW id \in CellIds, DeregisterCell(id),
         NEW a, NEW b, Before(b, a)'
  PROVE  Before(b, a)
<1>0. PICK n \in 0..Len(order) : \E at \in [1..n -> 1..Len(order)] :
             /\ \A j, k \in 1..n : j < k => at[j] < at[k]
             /\ order' = [k \in 1..n |-> order[at[k]]]
  BY DEF DeregisterCell, InOrder
<1>1. PICK at \in [1..n -> 1..Len(order)] :
             /\ \A j, k \in 1..n : j < k => at[j] < at[k]
             /\ order' = [k \in 1..n |-> order[at[k]]]
  BY <1>0
<1>2. Len(order') = n
  BY <1>1
<1>3. PICK i \in 1..n, j \in 1..n : i < j /\ order'[i] = b /\ order'[j] = a
  BY <1>2 DEF Before
<1>4. at[i] \in 1..Len(order) /\ at[j] \in 1..Len(order) /\ at[i] < at[j]
  BY <1>1, <1>3
<1>5. order[at[i]] = b /\ order[at[j]] = a
  BY <1>1, <1>3
<1>. QED
  BY <1>4, <1>5 DEF Before

(* A dispatch of another cell moves that cell behind everyone, so who was  *)
(* in front of a now was so before.                                        *)
LEMMA DispatchKeepsOrder ==
  ASSUME order \in Seq(CellIds), NEW id \in CellIds, NextDispatch(id),
         NEW a, NEW b, a # id, Before(b, a)'
  PROVE  Before(b, a)
<1>1. order # << >> /\ order' = Append(Tail(order), Head(order)) /\ id = order[1]
  BY DEF NextDispatch
<1>2. /\ Len(order') = Len(order) /\ Len(order) \in Nat
      /\ \A i \in 1..(Len(order) - 1) : order'[i] = order[i + 1]
      /\ order'[Len(order)] = order[1]
  BY <1>1, RotationPositions
<1>3. PICK i \in 1..Len(order'), j \in 1..Len(order') : i < j /\ order'[i] = b /\ order'[j] = a
  BY DEF Before
<1>4. j # Len(order)
  BY <1>1, <1>2, <1>3
<1>5. i \in 1..(Len(order) - 1) /\ j \in 1..(Len(order) - 1)
  BY <1>2, <1>3, <1>4
<1>6. i + 1 \in 1..Len(order) /\ j + 1 \in 1..Len(order) /\ i + 1 < j + 1
  BY <1>2, <1>3, <1>5
<1>7. order[i + 1] = b /\ order[j + 1] = a
  BY <1>2, <1>3, <1>5
<1>. QED
  BY <1>6, <1>7 DEF Before

(* A newcomer is last.                                                     *)
LEMMA RegisterKeepsOrder ==
  ASSUME order \in Seq(CellIds), NEW id \in CellIds, RegisterCell(id),
         NEW a, NEW b, a # id, Before(b, a)'
  PROVE  Before(b, a)
<1>1. /\ Len(order') = Len(order) + 1 /\ Len(order) \in Nat
      /\ order'[Len(order) + 1] = id
      /\ \A i \in 1..Len(order) : order'[i] = order[i]
  BY DEF RegisterCell
<1>2. PICK i \in 1..Len(order'), j \in 1..Len(order') : i < j /\ order'[i] = b /\ order'[j] = a
  BY DEF Before
<1>3. i \in 1..Len(order) /\ j \in 1..Len(order)
  BY <1>1, <1>2
<1>. QED
  BY <1>1, <1>2, <1>3 DEF Before

(* scheduler.rs:3, "does *not* reorder": nobody gets in front of a waiting *)
(* cell, for any number of cells and any registrations and evictions.      *)
THEOREM NobodyOvertakes == SchedSpec => NoOvertaking
<1>1. SchedTypeOK /\ [SchedNext]_schedVars => WaitersKeepTheirPlace
  <2>. SUFFICES ASSUME SchedTypeOK, [SchedNext]_schedVars,
                       NEW a \in CellIds, NEW b \in CellIds,
                       Registered(a), ~NextDispatch(a), Before(b, a)'
                PROVE  Before(b, a)
    BY DEF WaitersKeepTheirPlace
  <2>0. order \in Seq(CellIds)
    BY DEF SchedTypeOK
  <2>1. ASSUME NEW id \in CellIds, ~Registered(id), RegisterCell(id)
        PROVE  Before(b, a)
    <3>1. a # id
      BY <2>1
    <3>. QED
      BY <2>0, <2>1, <3>1, RegisterKeepsOrder
  <2>2. ASSUME NEW id \in CellIds, DeregisterCell(id) PROVE Before(b, a)
    BY <2>0, <2>2, EvictionKeepsOrder
  <2>3. ASSUME NEW id \in CellIds, NextDispatch(id) PROVE Before(b, a)
    <3>1. a # id
      BY <2>3
    <3>. QED
      BY <2>0, <2>3, <3>1, DispatchKeepsOrder
  <2>4. CASE UNCHANGED schedVars
    BY <2>4 DEF schedVars, Before
  <2>. QED
    BY <2>1, <2>2, <2>3, <2>4
       DEF SchedNext, SchedDispatch, NothingToDispatch, schedVars
<1>2. SchedTypeOK /\ [SchedNext]_schedVars => [WaitersKeepTheirPlace]_schedVars
  BY <1>1
<1>. QED
  BY <1>2, SchedulerTypes, PTL DEF SchedSpec, NoOvertaking
=============================================================================
