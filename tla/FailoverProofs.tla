---------------------------- MODULE FailoverProofs ----------------------------
(***************************************************************************)
(* The replication path.  First, for any number of cells and pages, any    *)
(* transport faults and any re-enabling of replication: the order of       *)
(* ticks.  Then, in the deployment the path is right for, and for any      *)
(* pages, contents, interval, ring capacity and number of batches in       *)
(* flight: the standby always holds a checkpoint of the primary.           *)
(***************************************************************************)
EXTENDS Failover, SupervisorProofs

(* The inductive invariant: ticks fall, from the clock over the ring and   *)
(* the wire to what the standby applied, and 0 is nobody's tick.           *)
TickInv ==
  /\ IInv
  /\ RingInTickOrder
  /\ wire \in Seq(TickBatch)
  /\ last_applied_tick \in Nat /\ last_applied_tick <= clock
  /\ page_tick \in [Pages -> Nat]
  /\ \A p \in Pages : page_tick[p] <= last_applied_tick
  /\ \A t \in Ticks(queue) : t > 0
  /\ \A u \in Ticks(wire) : u > 0 /\ u <= clock
  /\ QueuedIsNewest

-----------------------------------------------------------------------------
(* The ticks of a sequence of batches are numbers.                         *)
LEMMA TicksAreNat ==
  ASSUME NEW s \in Seq(TickBatch)
  PROVE  /\ Ticks(s) \subseteq Nat
         /\ \A i \in 1..Len(s) : s[i].tick \in Ticks(s)
<1>1. \A i \in 1..Len(s) : s[i] \in TickBatch
  OBVIOUS
<1>2. \A b \in TickBatch : b.tick \in Nat
  BY DEF TickBatch
<1>. QED
  BY <1>1, <1>2 DEF Ticks

(* Appending a batch adds its tick.                                        *)
LEMMA TicksOfAppend ==
  ASSUME NEW s \in Seq(TickBatch), NEW b \in TickBatch
  PROVE  Ticks(Append(s, b)) = Ticks(s) \cup {b.tick}
<1>1. /\ Len(Append(s, b)) = Len(s) + 1 /\ Len(s) \in Nat
      /\ Append(s, b)[Len(s) + 1] = b
      /\ \A i \in 1..Len(s) : Append(s, b)[i] = s[i]
  OBVIOUS
<1>2. 1..(Len(s) + 1) = (1..Len(s)) \cup {Len(s) + 1}
  BY <1>1
<1>. HIDE DEF Ticks
<1>3. ASSUME NEW t PROVE t \in Ticks(Append(s, b)) <=> t \in Ticks(s) \cup {b.tick}
  BY <1>1, <1>2 DEF Ticks
<1>. QED
  BY <1>3

(* Removing the head adds no tick.                                         *)
LEMMA TicksOfTail ==
  ASSUME NEW s \in Seq(TickBatch), s # << >>
  PROVE  /\ Head(s) \in TickBatch
         /\ Tail(s) \in Seq(TickBatch)
         /\ Head(s).tick \in Ticks(s)
         /\ Ticks(Tail(s)) \subseteq Ticks(s)
<1>1. /\ Head(s) = s[1] /\ Head(s) \in TickBatch
      /\ Tail(s) \in Seq(TickBatch)
      /\ Len(s) \in Nat \ {0}
      /\ Len(Tail(s)) = Len(s) - 1
      /\ \A i \in 1..(Len(s) - 1) : Tail(s)[i] = s[i + 1]
  OBVIOUS
<1>2. \A i \in 1..Len(Tail(s)) : i + 1 \in 1..Len(s) /\ Tail(s)[i] = s[i + 1]
  BY <1>1
<1>. QED
  BY <1>1, <1>2 DEF Ticks

(* No batch in the ring is from the future, and its head is the oldest.    *)
LEMMA RingTicks ==
  ASSUME IInv, RingInTickOrder
  PROVE  /\ \A t \in Ticks(queue) : t <= clock
         /\ queue # << >> => \A t \in Ticks(Tail(queue)) : t > Head(queue).tick
<1>1. /\ queue \in Seq(TickBatch) /\ clock \in Nat /\ last_pushed_tick \in Nat
      /\ Len(queue) \in Nat
  BY DEF IInv, TypeOK
<1>2. \A i \in 1..Len(queue) : queue[i].tick \in Nat
  BY <1>1, TicksAreNat
<1>3. ASSUME NEW i \in 1..Len(queue) PROVE queue[i].tick <= clock
  <2>1. Len(queue) \in 1..Len(queue) /\ queue # << >>
    BY <1>1
  <2>2. i = Len(queue) \/ queue[i].tick < queue[Len(queue)].tick
    BY <1>1, <2>1 DEF RingInTickOrder
  <2>. QED
    BY <1>1, <1>2, <2>1, <2>2 DEF RingInTickOrder
<1>4. ASSUME queue # << >>, NEW i \in 1..Len(Tail(queue))
      PROVE  Tail(queue)[i].tick > Head(queue).tick
  <2>1. /\ i + 1 \in 1..Len(queue) /\ 1 \in 1..Len(queue) /\ 1 < i + 1
        /\ Tail(queue)[i] = queue[i + 1] /\ Head(queue) = queue[1]
    BY <1>1, <1>4
  <2>. QED
    BY <1>2, <2>1 DEF RingInTickOrder
<1>. QED
  BY <1>3, <1>4 DEF Ticks

(* What the primary does to the ring: nothing new, or a batch of a tick    *)
(* nobody has seen.                                                        *)
LEMMA PrimaryTicks ==
  ASSUME IInv, SupervisorStep
  PROVE  /\ clock' \in Nat /\ clock <= clock'
         /\ \/ Ticks(queue') \subseteq Ticks(queue)
            \/ Ticks(queue') = Ticks(queue) \cup {clock'} /\ clock < clock'
<1>1. clock \in Nat /\ queue \in Seq(TickBatch)
  BY DEF IInv, TypeOK
<1>2. ASSUME NEW c \in DOMAIN cells, NEW writes \in Deltas, NEW arrivals \in Arrivals,
             CycleStreams(c, writes, arrivals)
      PROVE  clock' = clock + 1 /\ Ticks(queue') = Ticks(queue) \cup {clock'}
  <2> DEFINE ran == RunQuantum(cells[c], writes, arrivals)
  <2>1. Dispatch(c) /\ queue' = Append(queue, BatchOf(ran, clock'))
    BY <1>2 DEF CycleStreams, Push
  <2>2. clock' = clock + 1 /\ clock' \in Nat /\ cells[c] \in Cell
    BY <2>1, DispatchFacts
  <2>3. ran \in Cell
    BY <1>1, <2>2, ArrivalsAreTicks, RunQuantumFields
  <2>. HIDE DEF ran
  <2>4. BatchOf(ran, clock') \in TickBatch /\ BatchOf(ran, clock').tick = clock'
    BY <2>2, <2>3, BatchType
  <2>. QED
    BY <1>1, <2>1, <2>2, <2>4, TicksOfAppend
<1>3. ASSUME NEW c, Dispatch(c), UNCHANGED queue
      PROVE  clock' = clock + 1 /\ queue' = queue
  BY <1>3, DispatchFacts
<1>4. CASE EnableReplication
  BY <1>1, <1>4 DEF EnableReplication, Ticks
<1>5. CASE UNCHANGED <<clock, queue>>
  BY <1>1, <1>5
<1>6. \/ \E c \in DOMAIN cells, writes \in Deltas, arrivals \in Arrivals :
           CycleStreams(c, writes, arrivals)
      \/ \E c \in DOMAIN cells : Dispatch(c) /\ UNCHANGED queue
      \/ EnableReplication
      \/ UNCHANGED <<clock, queue>>
  BY DEF SupervisorStep, RunOneCycle, ringVars, SpawnCell, RegisterCell,
         SpawnDuplicate, SpawnFails, CycleIdle, CycleFaults, CycleRuns, CycleCheckpoints,
         CycleBackpressure
<1>7. CASE clock' = clock + 1 /\ queue' = queue
  BY <1>1, <1>7
<1>8. CASE clock' = clock + 1 /\ Ticks(queue') = Ticks(queue) \cup {clock'}
  BY <1>1, <1>8
<1>. QED
  BY <1>2, <1>3, <1>4, <1>5, <1>6, <1>7, <1>8, Zenon

-----------------------------------------------------------------------------
(* Every start, with replication on or off, satisfies the invariant.       *)
LEMMA TickInit == FailoverInit => TickInv
<1>. SUFFICES ASSUME FailoverInit PROVE TickInv
  OBVIOUS
<1>1. /\ DOMAIN cells = {} /\ order = << >> /\ clock = 0 /\ outcome = NoCell
      /\ queue = << >> /\ last_pushed_tick = 0 /\ wire = << >> /\ last_applied_tick = 0
      /\ page_tick = [p \in Pages |-> 0]
      /\ result \in {"new", "enabled"}
  BY DEF FailoverInit, SchedInit
<1>2. replication \in BOOLEAN
  BY WireAssumption DEF FailoverInit
<1>3. IInv
  <2>1. order \in Seq(CellIds) /\ queue \in Seq(TickBatch)
    BY <1>1
  <2>. QED
    BY <1>1, <1>2, <2>1, BoundAssumption DEF IInv, TypeOK, CleanPagesHashed, Results
<1>4. RingInTickOrder
  BY <1>1, CapacityAssumption DEF RingInTickOrder
<1>5. Ticks(queue) = {} /\ Ticks(wire) = {}
  BY <1>1 DEF Ticks
<1>6. wire \in Seq(TickBatch)
  BY <1>1
<1>. QED
  BY <1>1, <1>3, <1>4, <1>5, <1>6 DEF TickInv, QueuedIsNewest

(* The supervisor's own invariants hold in the composition.                *)
LEMMA ComposedSupervisor ==
  ASSUME TickInv, [FailoverNext]_allVars
  PROVE  IInv' /\ RingInTickOrder'
<1>1. [Next]_vars
  BY DEF FailoverNext, Primary, StreamBatch, LoseBatch, DuplicateBatch, ReorderBatches,
         ApplyBatch, RejectBatch, Next, allVars
<1>. QED
  BY <1>1, NextIInv, RingStep DEF TickInv

(* Steps that keep the standby and add nothing to the wire.                *)
LEMMA WireShrinks ==
  ASSUME TickInv, UNCHANGED <<vars, standbyVars>>,
         wire' \in Seq(TickBatch), Ticks(wire') \subseteq Ticks(wire),
         IInv', RingInTickOrder'
  PROVE  TickInv'
<1>1. UNCHANGED <<clock, queue, last_applied_tick, page_tick>>
  BY DEF vars, standbyVars
<1>2. Ticks(queue') = Ticks(queue)
  BY <1>1
<1>. QED
  BY <1>1, <1>2 DEF TickInv, QueuedIsNewest

(* An accepted batch is newer than everything the standby has.             *)
LEMMA AcceptedIsNewer ==
  ASSUME TickInv, ApplyBatch
  PROVE  /\ Head(wire) \in TickBatch
         /\ Head(wire).tick \in Ticks(wire)
         /\ Ticks(Tail(wire)) \subseteq Ticks(wire)
         /\ Tail(wire) \in Seq(TickBatch)
         /\ last_applied_tick' = Head(wire).tick
         /\ last_applied_tick' \in Nat
         /\ last_applied_tick < last_applied_tick'
         /\ last_applied_tick' <= clock
         /\ page_tick' \in [Pages -> Nat]
         /\ \A p \in Pages : page_tick[p] <= page_tick'[p] /\ page_tick'[p] <= last_applied_tick'
<1>1. /\ wire # << >> /\ wire \in Seq(TickBatch) /\ Accepts(Head(wire))
      /\ last_applied_tick' = Head(wire).tick
      /\ page_tick' = [p \in Pages |-> IF p \in DOMAIN Head(wire).deltas THEN Head(wire).tick
                                       ELSE page_tick[p]]
  BY DEF ApplyBatch, TickInv
<1>2. /\ Head(wire) \in TickBatch /\ Tail(wire) \in Seq(TickBatch)
      /\ Head(wire).tick \in Ticks(wire) /\ Ticks(Tail(wire)) \subseteq Ticks(wire)
  BY <1>1, TicksOfTail
<1>3. Head(wire).tick \in Nat /\ Head(wire).tick > 0 /\ Head(wire).tick <= clock
  BY <1>1, <1>2, TicksAreNat DEF TickInv
<1>4. last_applied_tick \in Nat /\ last_applied_tick < Head(wire).tick
  BY <1>1, <1>3 DEF Accepts, TickInv
<1>5. page_tick' \in [Pages -> Nat]
  BY <1>1, <1>3 DEF TickInv
<1>6. ASSUME NEW p \in Pages
      PROVE  page_tick[p] <= page_tick'[p] /\ page_tick'[p] <= last_applied_tick'
  <2>1. page_tick[p] \in Nat /\ page_tick[p] <= last_applied_tick
    BY DEF TickInv
  <2>2. page_tick'[p] = Head(wire).tick \/ page_tick'[p] = page_tick[p]
    BY <1>1
  <2>. QED
    BY <1>1, <1>3, <1>4, <2>1, <2>2
<1>. QED
  BY <1>1, <1>2, <1>3, <1>4, <1>5, <1>6

(* Every step of primary, streaming task, transport and standby keeps it.  *)
LEMMA TickStep == TickInv /\ [FailoverNext]_allVars => TickInv'
<1>. SUFFICES ASSUME TickInv, [FailoverNext]_allVars PROVE TickInv'
  OBVIOUS
<1>0. IInv' /\ RingInTickOrder'
  BY ComposedSupervisor
<1>a. /\ wire \in Seq(TickBatch) /\ queue \in Seq(TickBatch) /\ clock \in Nat
      /\ last_applied_tick \in Nat /\ last_applied_tick <= clock
      /\ Ticks(wire) \subseteq Nat /\ Ticks(queue) \subseteq Nat
  BY TicksAreNat DEF TickInv, IInv, TypeOK
<1>1. CASE Primary
  <2>1. UNCHANGED <<wire, last_applied_tick, page_tick>> /\ SupervisorStep
    BY <1>1 DEF Primary, standbyVars
  <2>2. /\ clock' \in Nat /\ clock <= clock'
        /\ \/ Ticks(queue') \subseteq Ticks(queue)
           \/ Ticks(queue') = Ticks(queue) \cup {clock'} /\ clock < clock'
    BY <2>1, PrimaryTicks DEF TickInv
  <2>3. \A t \in Ticks(queue') : t > 0
    BY <1>a, <2>2 DEF TickInv
  <2>4. \A u \in Ticks(wire') : u > 0 /\ u <= clock'
    BY <1>a, <2>1, <2>2 DEF TickInv
  <2>5. QueuedIsNewest'
    <3>1. ASSUME NEW t \in Ticks(queue')
          PROVE  t > last_applied_tick /\ \A u \in Ticks(wire) : t > u
      BY <1>a, <2>2 DEF TickInv, QueuedIsNewest
    <3>. QED
      BY <2>1, <3>1 DEF QueuedIsNewest
  <2>. QED
    BY <1>0, <1>a, <2>1, <2>2, <2>3, <2>4, <2>5 DEF TickInv
<1>2. CASE StreamBatch
  <2>1. /\ queue # << >> /\ queue' = Tail(queue) /\ wire' = Append(wire, Head(queue))
        /\ UNCHANGED <<clock, last_applied_tick, page_tick>>
    BY <1>2 DEF StreamBatch, PopBatch, standbyVars
  <2>2. /\ Head(queue) \in TickBatch /\ Head(queue).tick \in Ticks(queue)
        /\ Ticks(queue') \subseteq Ticks(queue)
    BY <1>a, <2>1, TicksOfTail
  <2>3. Ticks(wire') = Ticks(wire) \cup {Head(queue).tick} /\ wire' \in Seq(TickBatch)
    BY <1>a, <2>1, <2>2, TicksOfAppend, AppendType
  <2>4. Head(queue).tick <= clock /\ \A t \in Ticks(queue') : t > Head(queue).tick
    BY <2>1, <2>2, RingTicks DEF TickInv
  <2>. QED
    BY <1>0, <2>1, <2>2, <2>3, <2>4 DEF TickInv, QueuedIsNewest
<1>3. CASE LoseBatch \/ RejectBatch
  <2>1. wire # << >> /\ wire' = Tail(wire) /\ UNCHANGED <<vars, standbyVars>>
    BY <1>3 DEF LoseBatch, RejectBatch
  <2>. QED
    BY <1>0, <1>a, <2>1, TicksOfTail, WireShrinks
<1>4. CASE DuplicateBatch
  <2>1. wire # << >> /\ wire' = Append(wire, Head(wire)) /\ UNCHANGED <<vars, standbyVars>>
    BY <1>4 DEF DuplicateBatch
  <2>2. Head(wire) \in TickBatch /\ Head(wire).tick \in Ticks(wire)
    BY <1>a, <2>1, TicksOfTail
  <2>3. wire' \in Seq(TickBatch) /\ Ticks(wire') \subseteq Ticks(wire)
    BY <1>a, <2>1, <2>2, TicksOfAppend, AppendType
  <2>. QED
    BY <1>0, <2>1, <2>3, WireShrinks
<1>5. CASE ReorderBatches
  <2>1. wire # << >> /\ wire' = Append(Tail(wire), Head(wire)) /\ UNCHANGED <<vars, standbyVars>>
    BY <1>5, <1>a DEF ReorderBatches
  <2>2. /\ Head(wire) \in TickBatch /\ Head(wire).tick \in Ticks(wire)
        /\ Tail(wire) \in Seq(TickBatch) /\ Ticks(Tail(wire)) \subseteq Ticks(wire)
    BY <1>a, <2>1, TicksOfTail
  <2>3. wire' \in Seq(TickBatch) /\ Ticks(wire') \subseteq Ticks(wire)
    <3>1. Ticks(Append(Tail(wire), Head(wire))) = Ticks(Tail(wire)) \cup {Head(wire).tick}
      BY <2>2, TicksOfAppend
    <3>2. Append(Tail(wire), Head(wire)) \in Seq(TickBatch)
      BY <2>2, AppendType
    <3>. QED
      BY <2>1, <2>2, <3>1, <3>2, Zenon
  <2>. QED
    BY <1>0, <2>1, <2>3, WireShrinks
<1>6. CASE ApplyBatch
  <2>1. wire' = Tail(wire) /\ UNCHANGED <<clock, queue>>
    BY <1>6 DEF ApplyBatch, vars
  <2>2. \A t \in Ticks(queue) : t > last_applied_tick'
    BY <1>6, AcceptedIsNewer DEF TickInv, QueuedIsNewest
  <2>3. Ticks(queue') = Ticks(queue) /\ Ticks(wire') \subseteq Ticks(wire)
    BY <1>6, <2>1, AcceptedIsNewer
  <2>4. QueuedIsNewest'
    BY <2>2, <2>3 DEF TickInv, QueuedIsNewest
  <2>. QED
    BY <1>0, <1>6, <2>1, <2>3, <2>4, AcceptedIsNewer DEF TickInv
<1>7. CASE UNCHANGED allVars
  <2>1. UNCHANGED <<vars, standbyVars>> /\ wire' = wire
    BY <1>7 DEF allVars
  <2>. QED
    BY <1>0, <1>a, <2>1, WireShrinks
<1>. QED
  BY <1>1, <1>2, <1>3, <1>4, <1>5, <1>6, <1>7 DEF FailoverNext

(* The invariant holds throughout.                                         *)
THEOREM AlwaysTickInv == FailoverSafety => []TickInv
  BY TickInit, TickStep, PTL DEF FailoverSafety

(* Types: no batch, however it was lost, doubled or overtaken, leaves the  *)
(* standby with pages or ticks its Rust types rule out.                    *)
THEOREM StandbyTypes == FailoverSafety => []StandbyTypeOK
<1>. DEFINE HeapOK == baseline \in Heap
<1>1. FailoverInit => HeapOK
  BY ZeroAssumption DEF FailoverInit, ZeroHeap, Heap
<1>2. TickInv /\ HeapOK /\ [FailoverNext]_allVars => HeapOK'
  <2>. SUFFICES ASSUME TickInv, baseline \in Heap, [FailoverNext]_allVars
                PROVE  baseline' \in Heap
    OBVIOUS
  <2>1. CASE ApplyBatch
    <3>1. Head(wire).deltas \in Deltas /\ baseline' = Apply(Head(wire).deltas)
      BY <2>1, AcceptedIsNewer DEF TickBatch, ApplyBatch
    <3>. QED
      BY <3>1, DeltasAreWrites DEF Apply, Heap
  <2>2. CASE UNCHANGED baseline
    BY <2>2
  <2>. QED
    BY <2>1, <2>2
       DEF FailoverNext, Primary, StreamBatch, LoseBatch, DuplicateBatch, ReorderBatches,
           RejectBatch, allVars, standbyVars
<1>3. TickInv /\ HeapOK => StandbyTypeOK
  BY DEF TickInv, StandbyTypeOK
<1>. HIDE DEF HeapOK
<1>. QED
  BY <1>1, <1>2, <1>3, AlwaysTickInv, PTL DEF FailoverSafety

(* lib.rs:76-86: a batch in the ring is newer than all that left it, for   *)
(* any number of cells and whatever the transport does.                    *)
THEOREM RingHoldsTheNewest == FailoverSafety => []QueuedIsNewest
<1>1. TickInv => QueuedIsNewest
  BY DEF TickInv
<1>. QED
  BY <1>1, AlwaysTickInv, PTL

(* lib.rs:153-157: the tick check of apply_batch is enough, under every    *)
(* loss, duplication and reordering, to keep each page of the standby from *)
(* going back to an older version.                                         *)
THEOREM PagesNeverGoBack == FailoverSafety => NoStaleOverwrite
<1>. DEFINE Forward ==
       /\ \A p \in Pages : page_tick'[p] >= page_tick[p]
       /\ page_tick' # page_tick => last_applied_tick' > last_applied_tick
<1>1. TickInv /\ [FailoverNext]_allVars => Forward
  <2>. SUFFICES ASSUME TickInv, [FailoverNext]_allVars PROVE Forward
    OBVIOUS
  <2>1. \A p \in Pages : page_tick[p] \in Nat
    BY DEF TickInv
  <2>2. CASE ApplyBatch
    <3>1. page_tick' \in [Pages -> Nat] /\ last_applied_tick' \in Nat /\ last_applied_tick \in Nat
      BY <2>2, AcceptedIsNewer DEF TickInv
    <3>. QED
      BY <2>1, <2>2, <3>1, AcceptedIsNewer
  <2>3. CASE UNCHANGED page_tick
    BY <2>1, <2>3
  <2>. QED
    BY <2>2, <2>3
       DEF FailoverNext, Primary, StreamBatch, LoseBatch, DuplicateBatch, ReorderBatches,
           RejectBatch, allVars, standbyVars
<1>2. TickInv /\ [FailoverNext]_allVars => [Forward]_allVars
  BY <1>1
<1>. QED
  BY <1>2, AlwaysTickInv, PTL DEF FailoverSafety, NoStaleOverwrite

-----------------------------------------------------------------------------
(* One cell, replication on from the start, and a transport that may       *)
(* duplicate batches but neither loses nor reorders them.                  *)
SoleCellDeployment ==
  /\ \E c : CellIds = {c}
  /\ TransportFaults \subseteq {"duplicate"}
  /\ ~LateEnable

(* The heap that a checkpoint of tick t recorded; 0 is before the first.   *)
HeapAt(cs, t, h) ==
  IF t = 0 THEN h = ZeroHeap
  ELSE \E c \in DOMAIN cs : \E i \in 1..Len(cs[c].entries) :
         cs[c].entries[i].tick = t /\ cs[c].entries[i].smt_root = h

Overlay(g, deltas) == [p \in Pages |-> IF p \in DOMAIN deltas THEN deltas[p] ELSE g[p]]

(* A batch takes any copy of the checkpoint of tick u to that of its own.  *)
Links(cs, u, b) ==
  /\ u \in Nat
  /\ u < b.tick
  /\ \A g : HeapAt(cs, u, g) => HeapAt(cs, b.tick, Overlay(g, b.deltas))

NoneBetween(T, u, v) == \A t \in T : ~(u < t /\ t < v)

InFlight == Ticks(wire) \cup Ticks(queue)

(* What of the wire is not stale continues what the standby has or what    *)
(* arrives before it.                                                      *)
WireLinked ==
  \A i \in 1..Len(wire) : wire[i].tick > last_applied_tick =>
    \E u : /\ Links(cells, u, wire[i])
           /\ NoneBetween(InFlight, u, wire[i].tick)
           /\ \/ u = last_applied_tick
              \/ u > last_applied_tick /\ \E j \in 1..(i - 1) : wire[j].tick = u

(* A batch continues what the standby has or one of the batches in flight. *)
Continues(cs, T, applied, b) ==
  \E u : /\ Links(cs, u, b)
         /\ NoneBetween(T, u, b.tick)
         /\ u = applied \/ (u > applied /\ u \in T)

(* The ring continues the wire.                                            *)
QueueLinked ==
  \A i \in 1..Len(queue) : Continues(cells, InFlight, last_applied_tick, queue[i])

(* Clean pages are as they were at the checkpoint of tick t.               *)
CleanSince(cs, t) ==
  \A c \in DOMAIN cs : \A g : HeapAt(cs, t, g) =>
    \A p \in Pages \ cs[c].dirty : cs[c].memory[p] = g[p]

(* The cell's clean pages are those of the last batch that was pushed.     *)
PrimaryLinked ==
  /\ replication = TRUE
  /\ last_pushed_tick = last_applied_tick
       \/ (last_pushed_tick > last_applied_tick /\ last_pushed_tick \in InFlight)
  /\ \A t \in InFlight : t <= last_pushed_tick
  /\ DOMAIN cells = {} => last_pushed_tick = 0
  /\ CleanSince(cells, last_pushed_tick)

(* No checkpoint is from the future.                                       *)
EntriesPast ==
  \A c \in DOMAIN cells : \A i \in 1..Len(cells[c].entries) : cells[c].entries[i].tick <= clock

(* The inductive invariant.                                                *)
LinkInv ==
  /\ TickInv
  /\ HeapAt(cells, last_applied_tick, baseline)
  /\ WireLinked
  /\ QueueLinked
  /\ PrimaryLinked
  /\ EntriesPast

-----------------------------------------------------------------------------
(* The head's tick and those of the tail are all the ticks there are.      *)
LEMMA TicksSplit ==
  ASSUME NEW s \in Seq(TickBatch), s # << >>
  PROVE  Ticks(s) = {Head(s).tick} \cup Ticks(Tail(s))
<1>1. /\ Head(s) = s[1] /\ Len(s) \in Nat \ {0} /\ Len(Tail(s)) = Len(s) - 1
      /\ \A i \in 1..(Len(s) - 1) : Tail(s)[i] = s[i + 1]
  OBVIOUS
<1>2. ASSUME NEW i \in 1..Len(s)
      PROVE  s[i].tick \in {Head(s).tick} \cup Ticks(Tail(s))
  <2>1. CASE i = 1
    BY <1>1, <2>1
  <2>2. CASE i # 1
    <3>1. i - 1 \in 1..Len(Tail(s)) /\ Tail(s)[i - 1] = s[i]
      BY <1>1, <2>2
    <3>. QED
      BY <3>1 DEF Ticks
  <2>. QED
    BY <2>1, <2>2
<1>3. Ticks(s) \subseteq {Head(s).tick} \cup Ticks(Tail(s))
  BY <1>2 DEF Ticks
<1>. QED
  BY <1>3, TicksOfTail

(* Any one of these cells' histories is the history.                       *)
LEMMA OneCell ==
  ASSUME SoleCellDeployment, TypeOK, NEW c \in DOMAIN cells
  PROVE  DOMAIN cells = {c} /\ CellIds = {c}
  BY DEF SoleCellDeployment, TypeOK

(* The three ways a cycle with replication on can end, for the one cell.   *)
Advances(c) ==
  /\ cells'[c].entries = Append(cells[c].entries, [tick |-> clock', smt_root |-> cells'[c].memory])
  /\ clock' = clock + 1

KeepsUnpushed(c) ==
  /\ UNCHANGED <<queue, last_pushed_tick>>
  /\ \A p \in Pages \ cells'[c].dirty :
       p \notin cells[c].dirty /\ cells'[c].memory[p] = cells[c].memory[p]

PushesRest(c, b) ==
  /\ queue' = Append(queue, b)
  /\ b \in TickBatch
  /\ b.tick = clock'
  /\ last_pushed_tick' = clock'
  /\ cells'[c].memory \in Heap
  /\ \A p \in DOMAIN b.deltas : b.deltas[p] = cells'[c].memory[p]
  /\ \A p \in Pages \ DOMAIN b.deltas :
       p \notin cells[c].dirty /\ cells'[c].memory[p] = cells[c].memory[p]

(* Every cycle is one of them: replicas hear of a checkpoint at once, or   *)
(* its pages stay dirty.                                                   *)
LEMMA CycleEffect ==
  ASSUME IInv, replication = TRUE,
         NEW c \in DOMAIN cells, NEW writes \in Deltas, NEW arrivals \in Arrivals,
         \/ CycleFaults(c, writes, arrivals)
         \/ CycleRuns(c, writes, arrivals)
         \/ CycleCheckpoints(c, writes, arrivals)
         \/ CycleStreams(c, writes, arrivals)
         \/ CycleBackpressure(c, writes, arrivals)
  PROVE  /\ DOMAIN cells' = DOMAIN cells
         /\ replication' = TRUE
         /\ clock' = clock + 1
         /\ \/ cells'[c].entries = cells[c].entries /\ KeepsUnpushed(c)
            \/ Advances(c) /\ KeepsUnpushed(c)
            \/ Advances(c) /\ \E b : PushesRest(c, b)
<1> DEFINE ran == RunQuantum(cells[c], writes, arrivals)
<1> DEFINE saved == Checkpoint(ran, clock')
<1>1. Dispatch(c)
  BY DEF CycleFaults, CycleRuns, CycleCheckpoints, CycleStreams, CycleBackpressure
<1>2. cells[c] \in Cell /\ Clean(cells[c]) /\ clock' \in Nat /\ clock' = clock + 1
  BY <1>1, DispatchFacts
<1>3. arrivals \in Seq(Nat)
  BY ArrivalsAreTicks DEF IInv, TypeOK
<1>4. /\ ran \in Cell
      /\ Clean(ran)
      /\ ran.entries = cells[c].entries
      /\ ran.dirty = cells[c].dirty \cup DOMAIN writes
      /\ \A p \in Pages : p \notin DOMAIN writes => ran.memory[p] = cells[c].memory[p]
  <2>1. Clean(ran)
    BY <1>2, <1>3, RunQuantumKeepsClean
  <2>. QED
    BY <1>2, <1>3, <2>1, RunQuantumFields
<1>5. \A p \in Pages \ ran.dirty : p \notin cells[c].dirty /\ ran.memory[p] = cells[c].memory[p]
  BY <1>4
<1>6. \/ cells' = [cells EXCEPT ![c] = ran] /\ UNCHANGED ringVars
      \/ cells' = [cells EXCEPT ![c] = saved] /\ UNCHANGED ringVars
      \/ /\ cells' = [cells EXCEPT ![c] = ClearDirtyPages(saved)]
         /\ UNCHANGED replication
         /\ queue' = Append(queue, BatchOf(ran, clock'))
         /\ last_pushed_tick' = BatchOf(ran, clock').tick
  BY DEF CycleFaults, CycleRuns, CycleCheckpoints, CycleStreams, CycleBackpressure, Push
<1> HIDE DEF ran
<1>7. /\ saved \in Cell
      /\ saved.memory = ran.memory
      /\ saved.dirty = ran.dirty
      /\ saved.entries = Append(ran.entries, [tick |-> clock', smt_root |-> ran.memory])
  <2>1. LET after == Checkpoint(ran, clock')
        IN  /\ after \in Cell
            /\ after.memory = ran.memory
            /\ after.dirty = ran.dirty
            /\ after.entries = Append(ran.entries, [tick |-> clock', smt_root |-> after.tree])
            /\ Clean(ran) => after.tree = ran.memory
    BY <1>2, <1>4, CheckpointFields, Zenon
  <2>2. saved.tree = ran.memory
    BY <2>1, <1>4
  <2> QED
    BY <2>1, <2>2, Zenon
<1> HIDE DEF saved
<1>8. /\ ClearDirtyPages(saved).memory = saved.memory
      /\ ClearDirtyPages(saved).entries = saved.entries
  BY <1>7, ClearDirtyFields
<1>9. DOMAIN cells' = DOMAIN cells /\ replication' = TRUE
  BY <1>6 DEF ringVars
<1>10. CASE cells' = [cells EXCEPT ![c] = ran] /\ UNCHANGED ringVars
  <2>1. cells'[c] = ran /\ UNCHANGED <<queue, last_pushed_tick>>
    BY <1>10 DEF ringVars
  <2>. QED
    BY <1>2, <1>4, <1>5, <1>9, <2>1 DEF KeepsUnpushed
<1>11. CASE cells' = [cells EXCEPT ![c] = saved] /\ UNCHANGED ringVars
  <2>1. cells'[c] = saved /\ UNCHANGED <<queue, last_pushed_tick>>
    BY <1>11 DEF ringVars
  <2>. QED
    BY <1>2, <1>4, <1>5, <1>7, <1>9, <2>1 DEF KeepsUnpushed, Advances
<1>12. CASE /\ cells' = [cells EXCEPT ![c] = ClearDirtyPages(saved)]
            /\ queue' = Append(queue, BatchOf(ran, clock'))
            /\ last_pushed_tick' = BatchOf(ran, clock').tick
  <2>1. cells'[c] = ClearDirtyPages(saved)
    BY <1>12
  <2>2. cells'[c].memory = ran.memory /\ ran.memory \in Heap /\ ran.dirty \in SUBSET Pages
    BY <1>4, <1>7, <1>8, <2>1 DEF Cell
  <2>3. BatchOf(ran, clock') \in TickBatch /\ BatchOf(ran, clock').tick = clock'
    BY <1>2, <1>4, BatchType
  <2>4. /\ DOMAIN BatchOf(ran, clock').deltas = ran.dirty
        /\ \A p \in ran.dirty : BatchOf(ran, clock').deltas[p] = ran.memory[p]
    BY DEF BatchOf
  <2>5. PushesRest(c, BatchOf(ran, clock'))
    BY <1>5, <1>12, <2>2, <2>3, <2>4 DEF PushesRest
  <2>6. Advances(c)
    BY <1>2, <1>4, <1>7, <1>8, <2>1, <2>2 DEF Advances
  <2>. QED
    BY <1>2, <1>9, <2>5, <2>6
<1> QED
  BY <1>6, <1>10, <1>11, <1>12

-----------------------------------------------------------------------------
(* Chains that keep their entries up to a tick keep every link up to it.   *)
LEMMA LinksStable ==
  ASSUME NEW cs, NEW ds, NEW n \in Nat,
         \A t \in Nat : \A g : t <= n => (HeapAt(ds, t, g) <=> HeapAt(cs, t, g)),
         NEW b, b.tick \in Nat, b.tick <= n, NEW u, Links(cs, u, b)
  PROVE  Links(ds, u, b)
<1>1. u \in Nat /\ u < b.tick /\ u <= n
  BY DEF Links
<1>. QED
  BY <1>1 DEF Links

(* Fewer batches in flight leave fewer between two ticks.                  *)
LEMMA FewerBetween ==
  ASSUME NEW T, NEW S, S \subseteq T, NEW u, NEW v, NoneBetween(T, u, v)
  PROVE  NoneBetween(S, u, v)
  BY DEF NoneBetween

(* Facts about types that every step below uses.                           *)
LEMMA LinkTypes ==
  ASSUME TickInv
  PROVE  /\ wire \in Seq(TickBatch) /\ Len(wire) \in Nat
         /\ queue \in Seq(TickBatch) /\ Len(queue) \in Nat
         /\ clock \in Nat /\ last_applied_tick \in Nat /\ last_pushed_tick \in Nat
         /\ last_applied_tick <= clock /\ last_pushed_tick <= clock
         /\ InFlight \subseteq Nat
         /\ \A t \in InFlight : t > 0 /\ t <= clock
         /\ \A i \in 1..Len(wire) : wire[i].tick \in InFlight
         /\ \A i \in 1..Len(queue) : queue[i].tick \in InFlight
<1>1. /\ wire \in Seq(TickBatch) /\ queue \in Seq(TickBatch) /\ clock \in Nat
      /\ last_applied_tick \in Nat /\ last_pushed_tick \in Nat /\ last_applied_tick <= clock
      /\ last_pushed_tick <= clock
  BY DEF TickInv, IInv, TypeOK, RingInTickOrder
<1>2. Ticks(wire) \subseteq Nat /\ \A i \in 1..Len(wire) : wire[i].tick \in Ticks(wire)
  BY <1>1, TicksAreNat
<1>3. Ticks(queue) \subseteq Nat /\ \A i \in 1..Len(queue) : queue[i].tick \in Ticks(queue)
  BY <1>1, TicksAreNat
<1>4. \A t \in Ticks(queue) : t <= clock
  BY RingTicks DEF TickInv
<1>. QED
  BY <1>1, <1>2, <1>3, <1>4 DEF InFlight, TickInv

(* A checkpoint adds an entry of a new tick to the only chain.             *)
LEMMA AdvanceKeepsHistory ==
  ASSUME NEW c, TickInv, DOMAIN cells = {c}, DOMAIN cells' = {c}, EntriesPast, Advances(c)
  PROVE  /\ \A t \in Nat : \A g : t <= clock => (HeapAt(cells', t, g) <=> HeapAt(cells, t, g))
         /\ \A g : HeapAt(cells', clock', g) <=> g = cells'[c].memory
         /\ EntriesPast'
<1>. DEFINE e == cells[c].entries
<1>. DEFINE f == cells'[c].entries
<1>. DEFINE new == [tick |-> clock', smt_root |-> cells'[c].memory]
<1>1. e \in Seq(CheckpointEntry) /\ Len(e) \in Nat /\ clock \in Nat /\ clock' = clock + 1
  <2>1. clock \in Nat /\ cells[c] \in Cell
    BY DEF TickInv, IInv, TypeOK
  <2>2. e \in Seq(CheckpointEntry)
    BY <2>1 DEF Cell
  <2>3. clock' = clock + 1
    BY DEF Advances
  <2>. HIDE DEF e
  <2>. QED
    BY <2>1, <2>2, <2>3
<1>2. f = Append(e, new)
  BY DEF Advances
<1>3. /\ Len(f) = Len(e) + 1
      /\ f[Len(e) + 1] = new
      /\ \A i \in 1..Len(e) : f[i] = e[i]
  BY <1>1, <1>2
<1>4. \A i \in 1..Len(e) : e[i].tick <= clock /\ e[i].tick \in Nat
  <2>1. \A i \in 1..Len(e) : e[i] \in CheckpointEntry
    BY <1>1
  <2>2. \A i \in 1..Len(e) : e[i].tick <= clock
    BY DEF EntriesPast
  <2>. QED
    BY <2>1, <2>2 DEF CheckpointEntry
<1>5. new.tick = clock' /\ new.smt_root = cells'[c].memory
  OBVIOUS
<1>6. \A t, g :
        /\ t = 0 => (HeapAt(cells, t, g) <=> g = ZeroHeap)
        /\ t # 0 => (HeapAt(cells, t, g) <=>
                       \E i \in 1..Len(e) : e[i].tick = t /\ e[i].smt_root = g)
  BY DEF HeapAt
<1>7. \A t, g :
        /\ t = 0 => (HeapAt(cells', t, g) <=> g = ZeroHeap)
        /\ t # 0 => (HeapAt(cells', t, g) <=>
                       \E i \in 1..Len(f) : f[i].tick = t /\ f[i].smt_root = g)
  BY DEF HeapAt
<1>. HIDE DEF e, f, new
<1>8. 1..Len(f) = (1..Len(e)) \cup {Len(e) + 1}
  BY <1>1, <1>3
<1>9. ASSUME NEW t \in Nat, NEW g, t <= clock
      PROVE  HeapAt(cells', t, g) <=> HeapAt(cells, t, g)
  <2>1. f[Len(e) + 1].tick # t
    BY <1>1, <1>3, <1>5, <1>9
  <2>2. (\E i \in 1..Len(f) : f[i].tick = t /\ f[i].smt_root = g)
          <=> (\E i \in 1..Len(e) : e[i].tick = t /\ e[i].smt_root = g)
    BY <1>3, <1>8, <2>1
  <2>. QED
    BY <1>6, <1>7, <2>2
<1>10. ASSUME NEW g PROVE HeapAt(cells', clock', g) <=> g = cells'[c].memory
  <2>1. clock' # 0 /\ \A i \in 1..Len(e) : e[i].tick # clock'
    BY <1>1, <1>4
  <2>. QED
    BY <1>3, <1>5, <1>7, <1>8, <2>1
<1>11. \A i \in 1..Len(f) : f[i].tick <= clock'
  BY <1>1, <1>3, <1>4, <1>5, <1>8
<1>. QED
  BY <1>9, <1>10, <1>11 DEF EntriesPast, f

-----------------------------------------------------------------------------
(* While the wire and the standby stay and ticks in flight only gain a     *)
(* newer one, what was linked stays linked.                                *)
LEMMA WireStaysLinked ==
  ASSUME LinkInv, UNCHANGED <<wire, last_applied_tick, baseline>>,
         \A t \in Nat : \A g : t <= clock => (HeapAt(cells', t, g) <=> HeapAt(cells, t, g)),
         \A t \in InFlight' : t \in InFlight \/ (t \in Nat /\ t > clock)
  PROVE  /\ HeapAt(cells', last_applied_tick', baseline')
         /\ WireLinked'
         /\ \A b \in TickBatch : \A u : b.tick \in InFlight /\ Links(cells, u, b)
                                      /\ NoneBetween(InFlight, u, b.tick)
                => Links(cells', u, b) /\ NoneBetween(InFlight', u, b.tick)
<1>0. /\ wire \in Seq(TickBatch) /\ Len(wire) \in Nat /\ clock \in Nat
      /\ last_applied_tick \in Nat /\ last_applied_tick <= clock
      /\ InFlight \subseteq Nat /\ \A t \in InFlight : t <= clock
      /\ \A i \in 1..Len(wire) : wire[i].tick \in InFlight
  BY LinkTypes DEF LinkInv
<1>1. HeapAt(cells', last_applied_tick, baseline)
  BY <1>0 DEF LinkInv
<1>2. ASSUME NEW b \in TickBatch, NEW u, b.tick \in InFlight, Links(cells, u, b),
             NoneBetween(InFlight, u, b.tick)
      PROVE  Links(cells', u, b) /\ NoneBetween(InFlight', u, b.tick)
  <2>1. b.tick \in Nat /\ b.tick <= clock
    BY <1>0, <1>2
  <2>2. Links(cells', u, b)
    BY <1>0, <1>2, <2>1, LinksStable
  <2>3. u \in Nat
    BY <1>2 DEF Links
  <2>4. ASSUME NEW t \in InFlight' PROVE ~(u < t /\ t < b.tick)
    BY <1>0, <1>2, <2>1, <2>3 DEF NoneBetween
  <2>. QED
    BY <2>2, <2>4 DEF NoneBetween
<1>3. ASSUME NEW i \in 1..Len(wire), wire[i].tick > last_applied_tick
      PROVE  \E u : /\ Links(cells', u, wire[i])
                    /\ NoneBetween(InFlight', u, wire[i].tick)
                    /\ \/ u = last_applied_tick
                       \/ u > last_applied_tick /\ \E j \in 1..(i - 1) : wire[j].tick = u
  <2>1. PICK u : /\ Links(cells, u, wire[i])
                 /\ NoneBetween(InFlight, u, wire[i].tick)
                 /\ \/ u = last_applied_tick
                    \/ u > last_applied_tick /\ \E j \in 1..(i - 1) : wire[j].tick = u
    BY <1>3 DEF LinkInv, WireLinked
  <2>2. wire[i] \in TickBatch /\ wire[i].tick \in InFlight
    BY <1>0
  <2>3. Links(cells', u, wire[i]) /\ NoneBetween(InFlight', u, wire[i].tick)
    BY <1>2, <2>1, <2>2
  <2>. QED
    BY <2>1, <2>3
<1>4. WireLinked'
  BY <1>3 DEF WireLinked
<1>. QED
  BY <1>1, <1>2, <1>4

(* The same for the ring when nothing is pushed.                           *)
LEMMA RingStaysLinked ==
  ASSUME LinkInv, UNCHANGED <<wire, queue, last_applied_tick, baseline>>,
         \A t \in Nat : \A g : t <= clock => (HeapAt(cells', t, g) <=> HeapAt(cells, t, g))
  PROVE  /\ HeapAt(cells', last_applied_tick', baseline')
         /\ WireLinked'
         /\ QueueLinked'
         /\ InFlight' = InFlight
<1>1. InFlight' = InFlight
  BY DEF InFlight
<1>2. /\ queue \in Seq(TickBatch) /\ Len(queue) \in Nat
      /\ \A i \in 1..Len(queue) : queue[i].tick \in InFlight
  BY LinkTypes DEF LinkInv
<1>3. /\ HeapAt(cells', last_applied_tick', baseline')
      /\ WireLinked'
      /\ \A b \in TickBatch : \A u : b.tick \in InFlight /\ Links(cells, u, b)
                                   /\ NoneBetween(InFlight, u, b.tick)
             => Links(cells', u, b) /\ NoneBetween(InFlight', u, b.tick)
  BY <1>1, WireStaysLinked
<1>4. ASSUME NEW i \in 1..Len(queue)
      PROVE  Continues(cells', InFlight', last_applied_tick, queue[i])
  <2>1. PICK u : /\ Links(cells, u, queue[i])
                 /\ NoneBetween(InFlight, u, queue[i].tick)
                 /\ u = last_applied_tick \/ (u > last_applied_tick /\ u \in InFlight)
    BY DEF LinkInv, QueueLinked, Continues
  <2>2. queue[i] \in TickBatch /\ queue[i].tick \in InFlight
    BY <1>2
  <2>3. Links(cells', u, queue[i]) /\ NoneBetween(InFlight', u, queue[i].tick)
    BY <1>3, <2>1, <2>2
  <2>. QED
    BY <1>1, <2>1, <2>3 DEF Continues
<1>. QED
  BY <1>1, <1>3, <1>4 DEF QueueLinked

-----------------------------------------------------------------------------
(* The first and only cell starts with the empty heap that the standby has.*)
LEMMA SpawnKeepsLinks ==
  ASSUME SoleCellDeployment, LinkInv, TickInv', NEW id \in CellIds, SpawnCell(id),
         UNCHANGED <<wire, last_applied_tick, baseline>>
  PROVE  LinkInv'
<1>1. /\ DOMAIN cells = {}
      /\ cells' = [c \in {id} |-> NewCell]
      /\ UNCHANGED <<clock, queue, last_pushed_tick, replication>>
  <2>1. \A c \in DOMAIN cells : c = id
    BY DEF SoleCellDeployment, LinkInv, TickInv, IInv, TypeOK
  <2>2. id \notin DOMAIN cells
    BY DEF SpawnCell
  <2>3. DOMAIN cells = {}
    BY <2>1, <2>2
  <2>. QED
    BY <2>3 DEF SpawnCell, ringVars, RegisterCell
<1>2. cells'[id].entries = << >> /\ cells'[id].memory = ZeroHeap
  BY <1>1 DEF NewCell
<1>3. \A t, g : HeapAt(cells', t, g) <=> HeapAt(cells, t, g)
  BY <1>1, <1>2 DEF HeapAt
<1>4. /\ HeapAt(cells', last_applied_tick', baseline')
      /\ WireLinked' /\ QueueLinked' /\ InFlight' = InFlight
  BY <1>1, <1>3, RingStaysLinked
<1>5. last_pushed_tick = 0
  BY <1>1 DEF LinkInv, PrimaryLinked
<1>6. ASSUME NEW g, HeapAt(cells', last_pushed_tick, g), NEW p \in Pages
      PROVE  cells'[id].memory[p] = g[p]
  BY <1>2, <1>5, <1>6 DEF HeapAt
<1>7. PrimaryLinked'
  <2>1. DOMAIN cells' = {id}
    BY <1>1
  <2>2. CleanSince(cells', last_pushed_tick)
    BY <1>6, <2>1, Zenon DEF CleanSince
  <2>. QED
    BY <1>1, <1>4, <2>2 DEF LinkInv, PrimaryLinked
<1>8. EntriesPast'
  BY <1>1, <1>2 DEF EntriesPast
<1>. QED
  BY <1>4, <1>7, <1>8 DEF LinkInv

(* A cycle of the only cell whose pages stay dirty, with or without a      *)
(* checkpoint.                                                             *)
LEMMA QuietCycleKeepsLinks ==
  ASSUME LinkInv, TickInv', NEW c, DOMAIN cells = {c}, DOMAIN cells' = {c},
         clock' = clock + 1, replication' = TRUE, KeepsUnpushed(c),
         cells'[c].entries = cells[c].entries \/ Advances(c),
         UNCHANGED <<wire, last_applied_tick, baseline>>
  PROVE  LinkInv'
<1>0. clock \in Nat /\ last_pushed_tick \in Nat /\ last_pushed_tick <= clock
  BY LinkTypes DEF LinkInv
<1>1. /\ \A t \in Nat : \A g : t <= clock => (HeapAt(cells', t, g) <=> HeapAt(cells, t, g))
      /\ EntriesPast'
  <2>1. CASE Advances(c)
    BY <2>1, AdvanceKeepsHistory DEF LinkInv
  <2>2. CASE cells'[c].entries = cells[c].entries
    <3>1. cells[c].entries \in Seq(CheckpointEntry)
      BY DEF LinkInv, TickInv, IInv, TypeOK, Cell
    <3>2. \A i \in 1..Len(cells[c].entries) : cells[c].entries[i] \in CheckpointEntry
      BY <3>1
    <3>3. \A i \in 1..Len(cells[c].entries) :
            cells[c].entries[i].tick \in Nat /\ cells[c].entries[i].tick <= clock
      BY <3>2 DEF CheckpointEntry, LinkInv, EntriesPast
    <3>4. EntriesPast'
      <4>1. clock \in Nat
        BY <1>0
      <4>2. \A i \in 1..Len(cells'[c].entries) : cells'[c].entries[i].tick <= clock'
        BY <2>2, <3>3, <4>1
      <4>. QED
        BY <4>2 DEF EntriesPast
    <3>. QED
      BY <2>2, <3>4 DEF HeapAt
  <2>. QED
    BY <2>1, <2>2
<1>2. UNCHANGED <<queue, last_pushed_tick>>
  BY DEF KeepsUnpushed
<1>3. /\ HeapAt(cells', last_applied_tick', baseline')
      /\ WireLinked' /\ QueueLinked' /\ InFlight' = InFlight
  BY <1>1, <1>2, RingStaysLinked
<1>4. ASSUME NEW g, HeapAt(cells', last_pushed_tick, g), NEW p \in Pages \ cells'[c].dirty
      PROVE  cells'[c].memory[p] = g[p]
  <2>1. HeapAt(cells, last_pushed_tick, g)
    BY <1>0, <1>1, <1>4
  <2>2. p \notin cells[c].dirty /\ cells'[c].memory[p] = cells[c].memory[p]
    BY <1>4 DEF KeepsUnpushed
  <2>3. CleanSince(cells, last_pushed_tick)
    BY DEF LinkInv, PrimaryLinked
  <2>. QED
    BY <2>1, <2>2, <2>3 DEF CleanSince
<1>5. PrimaryLinked'
  <2>1. CleanSince(cells', last_pushed_tick)
    BY <1>4 DEF CleanSince
  <2>. QED
    BY <1>2, <1>3, <2>1 DEF LinkInv, PrimaryLinked
<1>. QED
  BY <1>1, <1>3, <1>5 DEF LinkInv

(* A cycle of the only cell whose batch the ring accepts: the batch leads  *)
(* from the last pushed checkpoint to the one just taken.                  *)
LEMMA PushKeepsLinks ==
  ASSUME LinkInv, TickInv', NEW c, DOMAIN cells = {c}, DOMAIN cells' = {c},
         replication' = TRUE, Advances(c), NEW b, PushesRest(c, b),
         UNCHANGED <<wire, last_applied_tick, baseline>>
  PROVE  LinkInv'
<1>0. /\ clock \in Nat /\ last_pushed_tick \in Nat /\ last_pushed_tick <= clock
      /\ last_applied_tick \in Nat /\ last_applied_tick <= clock
      /\ queue \in Seq(TickBatch) /\ Len(queue) \in Nat
      /\ InFlight \subseteq Nat /\ \A t \in InFlight : t <= clock
      /\ \A i \in 1..Len(queue) : queue[i].tick \in InFlight
  BY LinkTypes DEF LinkInv
<1>1. /\ queue' = Append(queue, b) /\ b \in TickBatch
      /\ b.tick = clock' /\ last_pushed_tick' = clock' /\ clock' = clock + 1
  BY DEF PushesRest, Advances
<1>2. /\ \A t \in Nat : \A g : t <= clock => (HeapAt(cells', t, g) <=> HeapAt(cells, t, g))
      /\ \A g : HeapAt(cells', clock', g) <=> g = cells'[c].memory
      /\ EntriesPast'
  BY AdvanceKeepsHistory DEF LinkInv
<1>3. InFlight' = InFlight \cup {clock'}
  <2>1. Ticks(queue') = Ticks(queue) \cup {clock'}
    BY <1>0, <1>1, TicksOfAppend
  <2>. QED
    BY <2>1 DEF InFlight
<1>4. /\ HeapAt(cells', last_applied_tick', baseline')
      /\ WireLinked'
      /\ \A x \in TickBatch : \A u : x.tick \in InFlight /\ Links(cells, u, x)
                                   /\ NoneBetween(InFlight, u, x.tick)
             => Links(cells', u, x) /\ NoneBetween(InFlight', u, x.tick)
  <2>0. clock \in Nat /\ clock' = clock + 1
    BY <1>0, <1>1
  <2>1. \A t \in InFlight' : t \in InFlight \/ (t \in Nat /\ t > clock)
    BY <1>3, <2>0
  <2>. QED
    BY <1>2, <2>1, WireStaysLinked
<1>5. Links(cells', last_pushed_tick, b)
  <2>1. ASSUME NEW g, HeapAt(cells', last_pushed_tick, g)
        PROVE  HeapAt(cells', b.tick, Overlay(g, b.deltas))
    <3>1. \A p \in Pages \ cells[c].dirty : cells[c].memory[p] = g[p]
      <4>1. HeapAt(cells, last_pushed_tick, g)
        BY <1>0, <1>2, <2>1
      <4>2. CleanSince(cells, last_pushed_tick)
        BY DEF LinkInv, PrimaryLinked
      <4>. QED
        BY <4>1, <4>2 DEF CleanSince
    <3>2. \A p \in Pages : cells'[c].memory[p] = IF p \in DOMAIN b.deltas THEN b.deltas[p] ELSE g[p]
      BY <3>1 DEF PushesRest
    <3>3. cells'[c].memory = [p \in Pages |-> cells'[c].memory[p]]
      BY DEF PushesRest, Heap
    <3>4. Overlay(g, b.deltas) = cells'[c].memory
      BY <3>2, <3>3 DEF Overlay
    <3>. QED
      BY <1>1, <1>2, <3>4
  <2>2. last_pushed_tick \in Nat /\ last_pushed_tick < b.tick
    BY <1>0, <1>1
  <2>. QED
    BY <2>1, <2>2 DEF Links
<1>6. NoneBetween(InFlight', last_pushed_tick, b.tick)
  <2>1. \A t \in InFlight : t \in Nat /\ t <= last_pushed_tick
    BY <1>0 DEF LinkInv, PrimaryLinked
  <2>2. last_pushed_tick \in Nat /\ clock' \in Nat /\ b.tick = clock'
    BY <1>0, <1>1
  <2>. QED
    BY <1>3, <2>1, <2>2 DEF NoneBetween
<1>7. QueueLinked'
  <2>1. ASSUME NEW i \in 1..Len(queue')
        PROVE  Continues(cells', InFlight', last_applied_tick, queue'[i])
    <3>0. /\ Len(queue') = Len(queue) + 1 /\ Len(queue) \in Nat /\ queue'[Len(queue) + 1] = b
          /\ \A j \in 1..Len(queue) : queue'[j] = queue[j]
      <4>1. queue \in Seq(TickBatch) /\ Len(queue) \in Nat
        BY <1>0
      <4>. QED
        BY <1>1, <4>1
    <3>1. CASE i = Len(queue) + 1
      <4>1. queue'[i] = b
        BY <3>0, <3>1
      <4>2. last_pushed_tick = last_applied_tick
              \/ (last_pushed_tick > last_applied_tick /\ last_pushed_tick \in InFlight')
        BY <1>3 DEF LinkInv, PrimaryLinked
      <4>. QED
        BY <1>5, <1>6, <4>1, <4>2 DEF Continues
    <3>2. CASE i # Len(queue) + 1
      <4>0. i \in 1..Len(queue)
        BY <3>0, <3>2
      <4>1. i \in 1..Len(queue) /\ queue'[i] = queue[i]
        BY <3>0, <4>0, Zenon
      <4>2. PICK u : /\ Links(cells, u, queue[i])
                     /\ NoneBetween(InFlight, u, queue[i].tick)
                     /\ u = last_applied_tick \/ (u > last_applied_tick /\ u \in InFlight)
        BY <4>1 DEF LinkInv, QueueLinked, Continues
      <4>3. queue[i] \in TickBatch /\ queue[i].tick \in InFlight
        BY <1>0, <4>1
      <4>4. Links(cells', u, queue[i]) /\ NoneBetween(InFlight', u, queue[i].tick)
        BY <1>4, <4>2, <4>3
      <4>. QED
        BY <1>3, <4>1, <4>2, <4>4 DEF Continues
    <3>. QED
      BY <3>1, <3>2
  <2>. QED
    BY <2>1 DEF QueueLinked
<1>8. PrimaryLinked'
  <2>1. clock' > last_applied_tick /\ clock' \in InFlight'
    BY <1>0, <1>1, <1>3
  <2>2. \A t \in InFlight' : t <= clock'
    BY <1>0, <1>1, <1>3
  <2>3. \A g : HeapAt(cells', clock', g) => \A p \in Pages : cells'[c].memory[p] = g[p]
    BY <1>2
  <2>4. CleanSince(cells', clock')
    BY <2>3 DEF CleanSince
  <2>. QED
    BY <1>1, <2>1, <2>2, <2>4 DEF PrimaryLinked
<1>. QED
  BY <1>2, <1>4, <1>7, <1>8 DEF LinkInv

(* Whatever the supervisor's owner calls.                                  *)
LEMMA PrimaryKeepsLinks ==
  ASSUME SoleCellDeployment, LinkInv, TickInv', Primary
  PROVE  LinkInv'
<1>1. UNCHANGED <<wire, last_applied_tick, baseline>> /\ SupervisorStep /\ ~EnableReplication
  BY DEF Primary, standbyVars, SoleCellDeployment, EnableReplication
<1>2. IInv /\ TypeOK /\ replication = TRUE
  BY DEF LinkInv, TickInv, IInv, PrimaryLinked
<1>3. ASSUME NEW id \in CellIds, SpawnCell(id) PROVE LinkInv'
  BY <1>1, <1>3, SpawnKeepsLinks
<1>4. ASSUME NEW c \in DOMAIN cells, NEW writes \in Deltas, NEW arrivals \in Arrivals,
             \/ CycleFaults(c, writes, arrivals)
             \/ CycleRuns(c, writes, arrivals)
             \/ CycleCheckpoints(c, writes, arrivals)
             \/ CycleStreams(c, writes, arrivals)
             \/ CycleBackpressure(c, writes, arrivals)
      PROVE  LinkInv'
  <2>1. /\ DOMAIN cells' = DOMAIN cells
        /\ replication' = TRUE
        /\ clock' = clock + 1
        /\ \/ cells'[c].entries = cells[c].entries /\ KeepsUnpushed(c)
           \/ Advances(c) /\ KeepsUnpushed(c)
           \/ Advances(c) /\ \E b : PushesRest(c, b)
    BY <1>2, <1>4, CycleEffect
  <2>2. DOMAIN cells = {c}
    BY <1>2, OneCell
  <2>3. CASE KeepsUnpushed(c) /\ (cells'[c].entries = cells[c].entries \/ Advances(c))
    BY <1>1, <2>1, <2>2, <2>3, QuietCycleKeepsLinks
  <2>4. ASSUME Advances(c), NEW b, PushesRest(c, b) PROVE LinkInv'
    BY <1>1, <2>1, <2>2, <2>4, PushKeepsLinks
  <2>. QED
    BY <2>1, <2>3, <2>4
<1>5. CASE UNCHANGED <<cells, clock, queue, last_pushed_tick, replication>>
  <2>1. /\ HeapAt(cells', last_applied_tick', baseline')
        /\ WireLinked' /\ QueueLinked' /\ InFlight' = InFlight
    BY <1>1, <1>5, RingStaysLinked
  <2>2. PrimaryLinked'
    BY <1>5, <1>1, <2>1 DEF LinkInv, PrimaryLinked
  <2>3. EntriesPast'
    BY <1>5 DEF LinkInv, EntriesPast
  <2>. QED
    BY <2>1, <2>2, <2>3 DEF LinkInv
<1>. QED
  BY <1>1, <1>3, <1>4, <1>5
     DEF SupervisorStep, RunOneCycle, SpawnDuplicate, SpawnFails, CycleIdle

(* The streaming task moves the oldest batch of the ring behind the wire.  *)
LEMMA StreamKeepsLinks ==
  ASSUME LinkInv, TickInv', StreamBatch
  PROVE  LinkInv'
<1>0. /\ wire \in Seq(TickBatch) /\ Len(wire) \in Nat
      /\ queue \in Seq(TickBatch) /\ Len(queue) \in Nat
  BY LinkTypes DEF LinkInv
<1>1. /\ queue # << >> /\ queue' = Tail(queue) /\ wire' = Append(wire, Head(queue))
      /\ UNCHANGED <<cells, clock, replication, last_pushed_tick, last_applied_tick, baseline>>
  BY DEF StreamBatch, PopBatch, standbyVars
<1>2. Head(queue) \in TickBatch /\ Head(queue) = queue[1] /\ 1 \in 1..Len(queue)
  BY <1>0, <1>1
<1>3. InFlight' = InFlight
  <2>1. Ticks(queue) = {Head(queue).tick} \cup Ticks(Tail(queue))
    BY <1>0, <1>1, TicksSplit
  <2>2. Ticks(wire') = Ticks(wire) \cup {Head(queue).tick}
    BY <1>0, <1>1, <1>2, TicksOfAppend
  <2>3. Ticks(queue') = Ticks(Tail(queue))
    BY <1>1
  <2>. QED
    BY <2>1, <2>2, <2>3, Zenon DEF InFlight
<1>4. /\ Len(wire') = Len(wire) + 1 /\ wire'[Len(wire) + 1] = queue[1]
      /\ \A i \in 1..Len(wire) : wire'[i] = wire[i]
  BY <1>0, <1>1, <1>2
<1>5. ASSUME NEW i \in 1..Len(wire'), wire'[i].tick > last_applied_tick
      PROVE  \E u : /\ Links(cells, u, wire'[i])
                    /\ NoneBetween(InFlight, u, wire'[i].tick)
                    /\ \/ u = last_applied_tick
                       \/ u > last_applied_tick /\ \E j \in 1..(i - 1) : wire'[j].tick = u
  <2>1. CASE i \in 1..Len(wire)
    <3>1. wire'[i] = wire[i]
      BY <1>4, <2>1
    <3>2. \A j \in 1..(i - 1) : wire'[j] = wire[j]
      BY <1>0, <1>4, <2>1
    <3>. QED
      BY <1>5, <2>1, <3>1, <3>2 DEF LinkInv, WireLinked
  <2>2. CASE i = Len(wire) + 1
    <3>1. PICK u : /\ Links(cells, u, queue[1])
                   /\ NoneBetween(InFlight, u, queue[1].tick)
                   /\ u = last_applied_tick \/ (u > last_applied_tick /\ u \in InFlight)
      BY <1>2 DEF LinkInv, QueueLinked, Continues
    <3>2. u \notin Ticks(queue)
      <4>1. u \in Nat /\ u < queue[1].tick /\ queue[1].tick \in Nat
        BY <1>0, <1>2, <3>1, TicksAreNat DEF Links
      <4>2. \A t \in Ticks(Tail(queue)) : t > queue[1].tick /\ t \in Nat
        <5>1. \A t \in Ticks(Tail(queue)) : t > queue[1].tick
          BY <1>1, <1>2, RingTicks DEF LinkInv, TickInv
        <5>2. Tail(queue) \in Seq(TickBatch)
          BY <1>0, <1>1
        <5>. QED
          BY <5>1, <5>2, TicksAreNat
      <4>3. Ticks(queue) = {queue[1].tick} \cup Ticks(Tail(queue))
        BY <1>0, <1>1, <1>2, TicksSplit
      <4>. QED
        BY <4>1, <4>2, <4>3
    <3>3. u \in Ticks(wire) => \E j \in 1..Len(wire) : wire'[j].tick = u
      BY <1>4 DEF Ticks
    <3>4. 1..(i - 1) = 1..Len(wire)
      BY <1>0, <2>2
    <3>5. wire'[i] = queue[1]
      BY <1>4, <2>2
    <3>. QED
      BY <3>1, <3>2, <3>3, <3>4, <3>5 DEF InFlight
  <2>3. i \in 1..Len(wire) \/ i = Len(wire) + 1
    <3>1. Len(wire) \in Nat /\ Len(wire') = Len(wire) + 1
      BY <1>0, <1>4
    <3>. QED
      BY <3>1
  <2>. QED
    BY <2>1, <2>2, <2>3
<1>6. WireLinked'
  BY <1>1, <1>3, <1>5 DEF WireLinked
<1>7. QueueLinked'
  <2>1. \A i \in 1..Len(queue') : i + 1 \in 1..Len(queue) /\ queue'[i] = queue[i + 1]
    BY <1>0, <1>1
  <2>2. ASSUME NEW i \in 1..Len(queue')
        PROVE  Continues(cells, InFlight, last_applied_tick, queue'[i])
    BY <2>1 DEF LinkInv, QueueLinked
  <2>. QED
    BY <1>1, <1>3, <2>2 DEF QueueLinked
<1>8. PrimaryLinked'
  BY <1>1, <1>3 DEF LinkInv, PrimaryLinked
<1>9. EntriesPast'
  BY <1>1 DEF LinkInv, EntriesPast
<1>. QED
  BY <1>1, <1>6, <1>7, <1>8, <1>9 DEF LinkInv

(* A copy of the head of the wire: stale once it arrives, and until then   *)
(* linked like the head itself.                                            *)
LEMMA DuplicateKeepsLinks ==
  ASSUME LinkInv, TickInv', DuplicateBatch
  PROVE  LinkInv'
<1>0. wire \in Seq(TickBatch) /\ Len(wire) \in Nat
  BY LinkTypes DEF LinkInv
<1>1. /\ wire # << >> /\ wire' = Append(wire, Head(wire))
      /\ UNCHANGED <<cells, clock, queue, replication, last_pushed_tick, last_applied_tick, baseline>>
  BY DEF DuplicateBatch, vars, standbyVars
<1>2. Head(wire) \in TickBatch /\ Head(wire) = wire[1] /\ 1 \in 1..Len(wire)
  BY <1>0, <1>1
<1>3. InFlight' = InFlight
  <2>1. Ticks(wire') = Ticks(wire) \cup {Head(wire).tick}
    BY <1>0, <1>1, <1>2, TicksOfAppend
  <2>2. Head(wire).tick \in Ticks(wire)
    BY <1>0, <1>1, TicksOfTail
  <2>. QED
    BY <1>1, <2>1, <2>2 DEF InFlight
<1>4. /\ Len(wire') = Len(wire) + 1 /\ wire'[Len(wire) + 1] = wire[1]
      /\ \A i \in 1..Len(wire) : wire'[i] = wire[i]
  BY <1>0, <1>1, <1>2
<1>5. ASSUME NEW i \in 1..Len(wire'), wire'[i].tick > last_applied_tick
      PROVE  \E u : /\ Links(cells, u, wire'[i])
                    /\ NoneBetween(InFlight, u, wire'[i].tick)
                    /\ \/ u = last_applied_tick
                       \/ u > last_applied_tick /\ \E j \in 1..(i - 1) : wire'[j].tick = u
  <2>1. CASE i \in 1..Len(wire)
    <3>1. wire'[i] = wire[i]
      BY <1>4, <2>1
    <3>2. \A j \in 1..(i - 1) : wire'[j] = wire[j]
      BY <1>0, <1>4, <2>1
    <3>. QED
      BY <1>5, <2>1, <3>1, <3>2 DEF LinkInv, WireLinked
  <2>2. CASE i = Len(wire) + 1
    <3>1. wire'[i] = wire[1]
      BY <1>4, <2>2
    <3>2. PICK u : /\ Links(cells, u, wire[1])
                   /\ NoneBetween(InFlight, u, wire[1].tick)
                   /\ \/ u = last_applied_tick
                      \/ u > last_applied_tick /\ \E j \in 1..(1 - 1) : wire[j].tick = u
      BY <1>2, <1>5, <3>1 DEF LinkInv, WireLinked
    <3>3. u = last_applied_tick
      BY <3>2
    <3>. QED
      BY <3>1, <3>2, <3>3
  <2>3. i \in 1..Len(wire) \/ i = Len(wire) + 1
    <3>1. Len(wire) \in Nat /\ Len(wire') = Len(wire) + 1
      BY <1>0, <1>4
    <3>. QED
      BY <3>1
  <2>. QED
    BY <2>1, <2>2, <2>3
<1>6. WireLinked'
  BY <1>1, <1>3, <1>5 DEF WireLinked
<1>7. QueueLinked'
  BY <1>1, <1>3 DEF LinkInv, QueueLinked
<1>8. PrimaryLinked'
  BY <1>1, <1>3 DEF LinkInv, PrimaryLinked
<1>9. EntriesPast'
  BY <1>1 DEF LinkInv, EntriesPast
<1>. QED
  BY <1>1, <1>6, <1>7, <1>8, <1>9 DEF LinkInv

(* The head of the wire leaves it.                                         *)
LEMMA HeadLeaves ==
  ASSUME TickInv, wire # << >>, wire' = Tail(wire), UNCHANGED queue
  PROVE  /\ InFlight = {wire[1].tick} \cup InFlight'
         /\ wire[1] \in TickBatch /\ wire[1].tick \in Nat /\ 1 \in 1..Len(wire)
         /\ \A i \in 1..Len(wire') : i + 1 \in 1..Len(wire) /\ wire'[i] = wire[i + 1]
         /\ \A i \in 1..Len(wire') : \A j \in 1..i : j # 1 =>
              j - 1 \in 1..(i - 1) /\ wire'[j - 1] = wire[j]
<1>1. wire \in Seq(TickBatch) /\ Len(wire) \in Nat \ {0} /\ Len(wire') = Len(wire) - 1
  BY LinkTypes
<1>2. Head(wire) = wire[1] /\ wire[1] \in TickBatch /\ 1 \in 1..Len(wire)
  BY <1>1
<1>3. Ticks(wire) = {wire[1].tick} \cup Ticks(wire')
  BY <1>1, <1>2, TicksSplit
<1>4. InFlight = {wire[1].tick} \cup InFlight'
  BY <1>3, Zenon DEF InFlight
<1>5. wire[1].tick \in Nat
  BY <1>2 DEF TickBatch
<1>6. \A i \in 1..Len(wire') : i + 1 \in 1..Len(wire) /\ wire'[i] = wire[i + 1]
  BY <1>1
<1>7. ASSUME NEW i \in 1..Len(wire'), NEW j \in 1..i, j # 1
      PROVE  j - 1 \in 1..(i - 1) /\ wire'[j - 1] = wire[j]
  <2>1. j - 1 \in 1..Len(wire') /\ j - 1 \in 1..(i - 1) /\ (j - 1) + 1 = j
    BY <1>1, <1>7
  <2>. QED
    BY <1>6, <2>1
<1>. QED
  BY <1>2, <1>4, <1>5, <1>6, <1>7

(* apply_batch accepts the head: it continues exactly what the standby     *)
(* has, and the rest of the wire continues it.                             *)
LEMMA ApplyKeepsLinks ==
  ASSUME LinkInv, TickInv', ApplyBatch
  PROVE  LinkInv'
<1>. DEFINE t == wire[1].tick
<1>0. /\ clock \in Nat /\ last_applied_tick \in Nat /\ last_pushed_tick \in Nat
      /\ InFlight \subseteq Nat /\ wire \in Seq(TickBatch) /\ Len(wire) \in Nat
      /\ \A i \in 1..Len(wire) : wire[i].tick \in InFlight
  BY LinkTypes DEF LinkInv
<1>1. /\ wire # << >> /\ wire' = Tail(wire) /\ Head(wire) = wire[1]
      /\ UNCHANGED <<cells, clock, queue, replication, last_pushed_tick>>
      /\ last_applied_tick' = t
      /\ baseline' = Overlay(baseline, wire[1].deltas)
  <2>1. wire # << >> /\ wire' = Tail(wire)
    BY DEF ApplyBatch
  <2>2. Head(wire) = wire[1]
    BY <1>0, <2>1
  <2>3. UNCHANGED <<cells, clock, queue, replication, last_pushed_tick>>
    BY DEF ApplyBatch, vars
  <2>4. last_applied_tick' = t
    BY <2>2 DEF ApplyBatch
  <2>5. baseline' = Overlay(baseline, wire[1].deltas)
    BY <2>2 DEF ApplyBatch, Apply, Overlay
  <2>. QED
    BY <2>1, <2>2, <2>3, <2>4, <2>5
<1>2. last_applied_tick < t /\ t \in Nat
  BY <1>1, AcceptedIsNewer DEF LinkInv
<1>3. /\ InFlight = {t} \cup InFlight'
      /\ 1 \in 1..Len(wire)
      /\ \A i \in 1..Len(wire') : i + 1 \in 1..Len(wire) /\ wire'[i] = wire[i + 1]
      /\ \A i \in 1..Len(wire') : \A j \in 1..i : j # 1 =>
           j - 1 \in 1..(i - 1) /\ wire'[j - 1] = wire[j]
  BY <1>1, HeadLeaves DEF LinkInv
<1>. HIDE DEF t
<1>4. HeapAt(cells, t, baseline')
  <2>1. PICK u : /\ Links(cells, u, wire[1])
                 /\ \/ u = last_applied_tick
                    \/ u > last_applied_tick /\ \E j \in 1..(1 - 1) : wire[j].tick = u
    BY <1>2, <1>3 DEF LinkInv, WireLinked, t
  <2>2. u = last_applied_tick
    BY <2>1
  <2>. QED
    BY <1>1, <2>1, <2>2 DEF LinkInv, Links, t
<1>5. ASSUME NEW i \in 1..Len(wire'), wire'[i].tick > t
      PROVE  \E u : /\ Links(cells, u, wire'[i])
                    /\ NoneBetween(InFlight', u, wire'[i].tick)
                    /\ \/ u = t
                       \/ u > t /\ \E j \in 1..(i - 1) : wire'[j].tick = u
  <2>1. /\ wire'[i] = wire[i + 1] /\ i + 1 \in 1..Len(wire) /\ (i + 1) - 1 = i
        /\ wire[i + 1].tick \in Nat /\ wire[i + 1].tick > last_applied_tick
        /\ wire[i + 1].tick > t
    <3>1. wire'[i] = wire[i + 1] /\ i + 1 \in 1..Len(wire)
      BY <1>3
    <3>2. wire[i + 1].tick \in Nat
      BY <1>0, <3>1
    <3>3. wire[i + 1].tick > t
      BY <1>5, <3>1
    <3>4. wire[i + 1].tick > last_applied_tick
      BY <1>0, <1>2, <3>2, <3>3
    <3>. QED
      BY <3>1, <3>2, <3>3, <3>4
  <2>2. PICK u : /\ Links(cells, u, wire[i + 1])
                 /\ NoneBetween(InFlight, u, wire[i + 1].tick)
                 /\ \/ u = last_applied_tick
                    \/ u > last_applied_tick /\ \E j \in 1..i : wire[j].tick = u
    BY <2>1 DEF LinkInv, WireLinked
  <2>3. u \in Nat /\ ~(u < t)
    BY <1>2, <1>3, <2>1, <2>2 DEF Links, NoneBetween
  <2>4. NoneBetween(InFlight', u, wire[i + 1].tick)
    BY <1>3, <2>2, FewerBetween
  <2>5. u # t => u > t /\ \E j \in 1..(i - 1) : wire'[j].tick = u
    <3>1. SUFFICES ASSUME u # t PROVE u > t /\ \E j \in 1..(i - 1) : wire'[j].tick = u
      OBVIOUS
    <3>2. u > t
      BY <1>2, <2>3, <3>1
    <3>3. PICK j \in 1..i : wire[j].tick = u
      BY <1>0, <1>2, <2>2, <3>2
    <3>4. j # 1
      BY <3>1, <3>3 DEF t
    <3>. QED
      BY <1>3, <3>2, <3>3, <3>4
  <2>. QED
    BY <2>1, <2>2, <2>4, <2>5
<1>6. WireLinked'
  BY <1>1, <1>5 DEF WireLinked
<1>7. QueueLinked'
  <2>1. ASSUME NEW i \in 1..Len(queue)
        PROVE  Continues(cells, InFlight', t, queue[i])
    <3>1. PICK u : /\ Links(cells, u, queue[i])
                   /\ NoneBetween(InFlight, u, queue[i].tick)
                   /\ u = last_applied_tick \/ (u > last_applied_tick /\ u \in InFlight)
      BY DEF LinkInv, QueueLinked, Continues
    <3>2. t < queue[i].tick
      <4>1. queue \in Seq(TickBatch)
        BY LinkTypes DEF LinkInv
      <4>2. queue[i].tick \in Ticks(queue) /\ t \in Ticks(wire)
        BY <1>0, <1>3, <4>1, TicksAreNat DEF t
      <4>3. Ticks(queue) \subseteq Nat
        BY <4>1, TicksAreNat
      <4>. QED
        BY <1>2, <4>2, <4>3 DEF LinkInv, TickInv, QueuedIsNewest
    <3>3. u \in Nat /\ ~(u < t)
      BY <1>2, <1>3, <3>1, <3>2 DEF Links, NoneBetween
    <3>4. NoneBetween(InFlight', u, queue[i].tick)
      BY <1>3, <3>1, FewerBetween
    <3>5. u = t \/ (u > t /\ u \in InFlight')
      BY <1>0, <1>2, <1>3, <3>1, <3>3
    <3>. QED
      BY <3>1, <3>4, <3>5 DEF Continues
  <2>. QED
    BY <1>1, <2>1 DEF QueueLinked
<1>8. PrimaryLinked'
  <2>1. t <= last_pushed_tick
    BY <1>3 DEF LinkInv, PrimaryLinked
  <2>2. last_pushed_tick = t \/ (last_pushed_tick > t /\ last_pushed_tick \in InFlight')
    BY <1>0, <1>2, <1>3, <2>1 DEF LinkInv, PrimaryLinked
  <2>. QED
    BY <1>1, <1>3, <2>2 DEF LinkInv, PrimaryLinked
<1>. QED
  BY <1>1, <1>4, <1>6, <1>7, <1>8 DEF LinkInv, EntriesPast

(* apply_batch refuses a stale head: nothing that follows rested on it.    *)
LEMMA RejectKeepsLinks ==
  ASSUME LinkInv, TickInv', RejectBatch
  PROVE  LinkInv'
<1>0. /\ last_applied_tick \in Nat /\ last_pushed_tick \in Nat /\ InFlight \subseteq Nat
      /\ wire \in Seq(TickBatch) /\ Len(wire) \in Nat
  BY LinkTypes DEF LinkInv
<1>1. /\ wire # << >> /\ wire' = Tail(wire) /\ Head(wire) = wire[1]
      /\ UNCHANGED <<cells, clock, queue, replication, last_pushed_tick, last_applied_tick, baseline>>
  BY <1>0 DEF RejectBatch, vars, standbyVars
<1>2. /\ InFlight = {wire[1].tick} \cup InFlight'
      /\ wire[1].tick \in Nat
      /\ \A i \in 1..Len(wire') : i + 1 \in 1..Len(wire) /\ wire'[i] = wire[i + 1]
      /\ \A i \in 1..Len(wire') : \A j \in 1..i : j # 1 =>
           j - 1 \in 1..(i - 1) /\ wire'[j - 1] = wire[j]
  BY <1>1, HeadLeaves DEF LinkInv
<1>3. ~(wire[1].tick > last_applied_tick)
  BY <1>1 DEF RejectBatch, Accepts
<1>4. ASSUME NEW i \in 1..Len(wire'), wire'[i].tick > last_applied_tick
      PROVE  \E u : /\ Links(cells, u, wire'[i])
                    /\ NoneBetween(InFlight', u, wire'[i].tick)
                    /\ \/ u = last_applied_tick
                       \/ u > last_applied_tick /\ \E j \in 1..(i - 1) : wire'[j].tick = u
  <2>1. wire'[i] = wire[i + 1] /\ i + 1 \in 1..Len(wire) /\ (i + 1) - 1 = i
    <3>1. wire'[i] = wire[i + 1] /\ i + 1 \in 1..Len(wire)
      BY <1>2
    <3>. QED
      BY <3>1
  <2>2. PICK u : /\ Links(cells, u, wire[i + 1])
                 /\ NoneBetween(InFlight, u, wire[i + 1].tick)
                 /\ \/ u = last_applied_tick
                    \/ u > last_applied_tick /\ \E j \in 1..i : wire[j].tick = u
    BY <1>4, <2>1 DEF LinkInv, WireLinked
  <2>3. NoneBetween(InFlight', u, wire[i + 1].tick)
    BY <1>2, <2>2, FewerBetween
  <2>4. ASSUME u > last_applied_tick, NEW j \in 1..i, wire[j].tick = u
        PROVE  \E k \in 1..(i - 1) : wire'[k].tick = u
    BY <1>2, <1>3, <2>4
  <2>. QED
    BY <2>1, <2>2, <2>3, <2>4
<1>5. WireLinked'
  BY <1>1, <1>4 DEF WireLinked
<1>6. \A u \in InFlight : u > last_applied_tick => u \in InFlight'
  BY <1>2, <1>3
<1>7. QueueLinked'
  <2>1. ASSUME NEW i \in 1..Len(queue)
        PROVE  Continues(cells, InFlight', last_applied_tick, queue[i])
    <3>1. PICK u : /\ Links(cells, u, queue[i])
                   /\ NoneBetween(InFlight, u, queue[i].tick)
                   /\ u = last_applied_tick \/ (u > last_applied_tick /\ u \in InFlight)
      BY DEF LinkInv, QueueLinked, Continues
    <3>2. NoneBetween(InFlight', u, queue[i].tick)
      BY <1>2, <3>1, FewerBetween
    <3>3. u = last_applied_tick \/ (u > last_applied_tick /\ u \in InFlight')
      BY <1>6, <3>1
    <3>. QED
      BY <3>1, <3>2, <3>3 DEF Continues
  <2>. QED
    BY <1>1, <2>1 DEF QueueLinked
<1>8. PrimaryLinked'
  <2>1. \A t \in InFlight' : t \in InFlight
    BY <1>2
  <2>. QED
    BY <1>1, <1>6, <2>1 DEF LinkInv, PrimaryLinked
<1>9. EntriesPast'
  BY <1>1 DEF LinkInv, EntriesPast
<1>. QED
  BY <1>1, <1>5, <1>7, <1>8, <1>9 DEF LinkInv

-----------------------------------------------------------------------------
(* Before the first cell is spawned both ends have the empty heap.         *)
LEMMA LinkInit == SoleCellDeployment /\ FailoverInit => LinkInv
<1>. SUFFICES ASSUME SoleCellDeployment, FailoverInit PROVE LinkInv
  OBVIOUS
<1>1. TickInv
  BY TickInit
<1>2. /\ DOMAIN cells = {} /\ queue = << >> /\ wire = << >> /\ last_applied_tick = 0
      /\ last_pushed_tick = 0 /\ baseline = ZeroHeap
  BY DEF FailoverInit
<1>3. replication = TRUE
  BY DEF FailoverInit, SoleCellDeployment
<1>4. InFlight = {}
  BY <1>2 DEF InFlight, Ticks
<1>5. HeapAt(cells, last_applied_tick, baseline)
  BY <1>2 DEF HeapAt
<1>6. WireLinked /\ QueueLinked
  <2>1. 1..Len(wire) = {} /\ 1..Len(queue) = {}
    BY <1>2
  <2>. QED
    BY <2>1, Zenon DEF WireLinked, QueueLinked
<1>7. PrimaryLinked /\ EntriesPast
  BY <1>2, <1>3, <1>4 DEF PrimaryLinked, CleanSince, EntriesPast
<1>. QED
  BY <1>1, <1>5, <1>6, <1>7 DEF LinkInv

(* Every step of the deployment keeps the links.                           *)
LEMMA LinkStep == SoleCellDeployment /\ LinkInv /\ [FailoverNext]_allVars => LinkInv'
<1>. SUFFICES ASSUME SoleCellDeployment, LinkInv, [FailoverNext]_allVars PROVE LinkInv'
  OBVIOUS
<1>0. TickInv'
  BY TickStep DEF LinkInv
<1>1. CASE Primary
  BY <1>0, <1>1, PrimaryKeepsLinks
<1>2. CASE StreamBatch
  BY <1>0, <1>2, StreamKeepsLinks
<1>3. CASE LoseBatch \/ ReorderBatches
  BY <1>3 DEF LoseBatch, ReorderBatches, SoleCellDeployment
<1>4. CASE DuplicateBatch
  BY <1>0, <1>4, DuplicateKeepsLinks
<1>5. CASE ApplyBatch
  BY <1>0, <1>5, ApplyKeepsLinks
<1>6. CASE RejectBatch
  BY <1>0, <1>6, RejectKeepsLinks
<1>7. CASE UNCHANGED allVars
  <2>1. UNCHANGED <<cells, clock, queue, replication, last_pushed_tick, wire, last_applied_tick,
                    baseline>>
    BY <1>7 DEF allVars, vars, standbyVars
  <2>2. InFlight' = InFlight
    BY <2>1 DEF InFlight
  <2>3. HeapAt(cells', last_applied_tick', baseline')
    BY <2>1 DEF LinkInv
  <2>4. WireLinked'
    BY <2>1, <2>2 DEF LinkInv, WireLinked
  <2>5. QueueLinked'
    BY <2>1, <2>2 DEF LinkInv, QueueLinked
  <2>6. PrimaryLinked'
    BY <2>1, <2>2 DEF LinkInv, PrimaryLinked
  <2>7. EntriesPast'
    BY <2>1 DEF LinkInv, EntriesPast
  <2>. QED
    BY <1>0, <2>3, <2>4, <2>5, <2>6, <2>7 DEF LinkInv
<1>. QED
  BY <1>1, <1>2, <1>3, <1>4, <1>5, <1>6, <1>7 DEF FailoverNext

(* The links hold throughout.                                              *)
THEOREM AlwaysLinkInv == SoleCellDeployment => (FailoverSafety => []LinkInv)
<1>. SUFFICES ASSUME SoleCellDeployment PROVE FailoverSafety => []LinkInv
  OBVIOUS
<1>1. FailoverInit => LinkInv
  BY LinkInit
<1>2. LinkInv /\ [FailoverNext]_allVars => LinkInv'
  BY LinkStep
<1>. QED
  BY <1>1, <1>2, PTL DEF FailoverSafety

(* ARCHITECTURE.md section 7: at every moment, whatever a full ring        *)
(* refused, a faulting quantum skipped or the transport duplicated, the    *)
(* standby's heap is the primary's at its checkpoint of last_applied_tick. *)
THEOREM StandbyIsACheckpoint ==
  SoleCellDeployment => (FailoverSafety => []StandbyHoldsACheckpoint)
<1>. SUFFICES ASSUME SoleCellDeployment PROVE FailoverSafety => []StandbyHoldsACheckpoint
  OBVIOUS
<1>1. LinkInv => StandbyHoldsACheckpoint
  <2>. SUFFICES ASSUME LinkInv, last_applied_tick > 0
                PROVE  \E c \in DOMAIN cells : \E i \in 1..Len(cells[c].entries) :
                         /\ cells[c].entries[i].tick = last_applied_tick
                         /\ cells[c].entries[i].smt_root = baseline
    BY DEF StandbyHoldsACheckpoint
  <2>1. last_applied_tick # 0
    BY LinkTypes DEF LinkInv
  <2>. QED
    BY <2>1 DEF LinkInv, HeapAt
<1>2. FailoverSafety => []LinkInv
  BY AlwaysLinkInv
<1>. QED
  BY <1>1, <1>2, PTL

-----------------------------------------------------------------------------
(* The published chain is the chain of the only cell.                      *)
LEMMA TheChain ==
  ASSUME NEW c
  PROVE  /\ DOMAIN cells = {c} => SoleChain = cells[c].entries
         /\ DOMAIN cells' = {c} => SoleChain' = cells'[c].entries
  BY DEF SoleChain

(* A step of the primary publishes a checkpoint or nothing.                *)
LEMMA PrimaryPublishes ==
  ASSUME SoleCellDeployment, LinkInv, Primary
  PROVE  Replica!Publish \/ UNCHANGED SoleChain
<1>1. SupervisorStep /\ ~EnableReplication /\ UNCHANGED <<last_applied_tick, baseline>>
  BY DEF Primary, SoleCellDeployment, EnableReplication, standbyVars
<1>2. IInv /\ TypeOK /\ replication = TRUE /\ clock \in Nat
  BY DEF LinkInv, TickInv, IInv, TypeOK, PrimaryLinked
<1>3. ASSUME NEW id \in CellIds, SpawnCell(id) PROVE UNCHANGED SoleChain
  <2>1. DOMAIN cells = {} /\ DOMAIN cells' = {id} /\ cells'[id].entries = << >>
    <3>1. \A c \in DOMAIN cells : c = id
      BY <1>2 DEF SoleCellDeployment, TypeOK
    <3>2. DOMAIN cells = {}
      BY <1>3, <3>1 DEF SpawnCell
    <3>. QED
      BY <1>3, <3>2 DEF SpawnCell, NewCell
  <2>2. SoleChain' = << >>
    BY <2>1, TheChain
  <2>3. SoleChain = << >>
    BY <2>1 DEF SoleChain
  <2>. QED
    BY <2>2, <2>3
<1>4. ASSUME NEW c \in DOMAIN cells, NEW writes \in Deltas, NEW arrivals \in Arrivals,
             \/ CycleFaults(c, writes, arrivals)
             \/ CycleRuns(c, writes, arrivals)
             \/ CycleCheckpoints(c, writes, arrivals)
             \/ CycleStreams(c, writes, arrivals)
             \/ CycleBackpressure(c, writes, arrivals)
      PROVE  Replica!Publish \/ UNCHANGED SoleChain
  <2>1. DOMAIN cells = {c} /\ DOMAIN cells' = {c}
    BY <1>2, <1>4, OneCell, CycleShape
  <2>2. SoleChain = cells[c].entries /\ SoleChain' = cells'[c].entries
    BY <2>1, TheChain
  <2>3. CASE cells'[c].entries = cells[c].entries
    BY <2>2, <2>3
  <2>4. CASE Advances(c)
    <3>. DEFINE e == cells[c].entries
    <3>. DEFINE new == [tick |-> clock', smt_root |-> cells'[c].memory]
    <3>1. e \in Seq(CheckpointEntry) /\ Len(e) \in Nat
      BY <1>2 DEF TypeOK, Cell
    <3>2. SoleChain' = Append(e, new) /\ clock' = clock + 1
      BY <2>2, <2>4 DEF Advances
    <3>3. cells'[c].memory \in Heap
      <4>1. IInv'
        BY <1>1, <1>2, NextIInv DEF Next
      <4>. QED
        BY <2>1, <4>1 DEF IInv, TypeOK, Cell
    <3>4. new \in Replica!Checkpoints /\ new.tick > 0
      BY <1>2, <3>2, <3>3 DEF Replica!Checkpoints
    <3>5. \A i \in 1..Len(e) : e[i].tick < new.tick
      <4>1. \A i \in 1..Len(e) : e[i] \in CheckpointEntry
        BY <3>1
      <4>2. \A i \in 1..Len(e) : e[i].tick \in Nat /\ e[i].tick <= clock
        BY <2>1, <4>1 DEF LinkInv, EntriesPast, CheckpointEntry
      <4>3. new.tick = clock + 1 /\ clock \in Nat
        BY <1>2, <3>2
      <4>. HIDE DEF e, new
      <4>. QED
        BY <4>2, <4>3
    <3>. HIDE DEF e, new
    <3>6. Len(SoleChain') = Len(e) + 1 /\ SoleChain'[Len(SoleChain')] = new
      BY <3>1, <3>2
    <3>7. SoleChain = e
      BY <2>2 DEF e
    <3>. QED
      BY <1>1, <3>2, <3>4, <3>5, <3>6, <3>7 DEF Replica!Publish
  <2>. QED
    BY <1>2, <1>4, <2>3, <2>4, CycleEffect
<1>5. CASE UNCHANGED cells
  BY <1>5 DEF SoleChain
<1>. QED
  BY <1>1, <1>3, <1>4, <1>5
     DEF SupervisorStep, RunOneCycle, SpawnDuplicate, SpawnFails, CycleIdle

(* apply_batch moves the replica to a later checkpoint of the chain.       *)
LEMMA ApplyCatchesUp ==
  ASSUME SoleCellDeployment, LinkInv, ApplyBatch
  PROVE  Replica!CatchUp
<1>. DEFINE t == last_applied_tick'
<1>1. t \in Nat /\ last_applied_tick \in Nat /\ last_applied_tick < t
  BY AcceptedIsNewer DEF LinkInv, TickInv
<1>2. LinkInv' /\ cells' = cells
  <2>1. [FailoverNext]_allVars
    BY DEF FailoverNext
  <2>. QED
    BY <2>1, LinkStep DEF ApplyBatch, vars
<1>a. PICK c \in DOMAIN cells :
        \E i \in 1..Len(cells[c].entries) :
          cells[c].entries[i].tick = t /\ cells[c].entries[i].smt_root = baseline'
  <2>1. HeapAt(cells, t, baseline') /\ t # 0
    BY <1>1, <1>2 DEF LinkInv
  <2>. QED
    BY <2>1 DEF HeapAt
<1>3. PICK i \in 1..Len(cells[c].entries) :
        cells[c].entries[i].tick = t /\ cells[c].entries[i].smt_root = baseline'
  BY <1>a
<1>4. TypeOK
  BY DEF LinkInv, TickInv, IInv
<1>5. SoleChain = cells[c].entries
  BY <1>4, OneCell, TheChain
<1>6. cells[c].entries[i] = [tick |-> t, smt_root |-> baseline']
  <2>1. cells[c].entries \in Seq(CheckpointEntry)
    BY <1>4 DEF TypeOK, Cell
  <2>2. \A s \in Seq(CheckpointEntry) : \A j \in 1..Len(s) : s[j] \in CheckpointEntry
    OBVIOUS
  <2>3. cells[c].entries[i] \in CheckpointEntry
    BY <2>1, <2>2, Zenon
  <2>. QED
    BY <1>3, <2>3 DEF CheckpointEntry
<1>7. UNCHANGED SoleChain
  BY <1>2 DEF SoleChain
<1>. QED
  BY <1>1, <1>3, <1>5, <1>6, <1>7 DEF Replica!CatchUp

(* The composed system implements CheckpointReplica: the standby only ever *)
(* moves from one published checkpoint to a later one.                     *)
THEOREM StandbyImplementsReplica ==
  SoleCellDeployment => (FailoverSafety => ImplementsReplica)
<1>. SUFFICES ASSUME SoleCellDeployment PROVE FailoverSafety => ImplementsReplica
  OBVIOUS
<1>1. FailoverInit => Replica!ReplicaInit
  BY DEF FailoverInit, Replica!ReplicaInit, SoleChain
<1>2. LinkInv /\ [FailoverNext]_allVars
        => [Replica!ReplicaNext]_<<SoleChain, [tick |-> last_applied_tick, smt_root |-> baseline]>>
  <2>. SUFFICES ASSUME LinkInv, [FailoverNext]_allVars
                PROVE  \/ Replica!ReplicaNext
                       \/ UNCHANGED <<SoleChain, [tick |-> last_applied_tick, smt_root |-> baseline]>>
    OBVIOUS
  <2>1. CASE Primary
    <3>1. UNCHANGED <<last_applied_tick, baseline>>
      BY <2>1 DEF Primary, standbyVars
    <3>. QED
      BY <2>1, <3>1, PrimaryPublishes DEF Replica!ReplicaNext
  <2>2. CASE ApplyBatch
    BY <2>2, ApplyCatchesUp DEF Replica!ReplicaNext
  <2>3. CASE UNCHANGED <<cells, last_applied_tick, baseline>>
    BY <2>3 DEF SoleChain
  <2>. QED
    BY <2>1, <2>2, <2>3
       DEF FailoverNext, StreamBatch, PopBatch, LoseBatch, DuplicateBatch, ReorderBatches,
           RejectBatch, allVars, vars, standbyVars
<1>3. FailoverSafety => []LinkInv
  BY AlwaysLinkInv
<1>. QED
  BY <1>1, <1>2, <1>3, PTL DEF FailoverSafety, ImplementsReplica, Replica!ReplicaSpec
=============================================================================
