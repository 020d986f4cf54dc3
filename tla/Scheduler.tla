------------------------------ MODULE Scheduler ------------------------------
(***************************************************************************)
(* The deterministic scheduler of chronos-core (scheduler.rs, clock.rs): a *)
(* strict round-robin queue of cell ids and one logical clock that ticks   *)
(* once per dispatched quantum.                                            *)
(*                                                                         *)
(*   order    the VecDeque<CellId>; its head is the next cell to run       *)
(*   clock    LogicalClock::tick, an unsigned integer of bounded width     *)
(*   outcome  the cell id of the last DispatchOutcome handed out           *)
(*                                                                         *)
(* The supervisor composes this module (see Supervisor); here it runs on   *)
(* its own, with registrations and evictions at any time.                  *)
(***************************************************************************)
EXTENDS Naturals, Sequences

CONSTANTS
  CellIds,       \* the ids that callers may register
  ClockModulus,  \* 2^64 in the code; a release build wraps there
  NoCell         \* "no dispatch yet"

ASSUME ClockAssumption == ClockModulus \in Nat \ {0}
ASSUME NoCellAssumption == NoCell \notin CellIds

VARIABLES order, clock, outcome

schedVars == <<order, clock, outcome>>

Registered(id) == \E i \in 1..Len(order) : order[i] = id

-----------------------------------------------------------------------------
(* A clock that leaves its width; used like the other faults below.        *)
AdvanceUnbounded(t) == t + 1

(* LogicalClock::advance: one quantum, one tick.                           *)
Advance(t) == (t + 1) % ClockModulus

-----------------------------------------------------------------------------
(* Faults a maintainer could introduce; used only to show that the         *)
(* properties below notice them.                                           *)
NextDispatchWithoutRotation(id) ==
  /\ order # << >>
  /\ id = Head(order)
  /\ clock' = Advance(clock)
  /\ outcome' = id
  /\ UNCHANGED order

RegisterCellAtFront(id) ==
  /\ order' = <<id>> \o order
  /\ UNCHANGED <<clock, outcome>>

-----------------------------------------------------------------------------
SchedInit ==
  /\ order = << >>
  /\ clock = 0
  /\ outcome = NoCell

(* Scheduler::register_cell: a newcomer joins the back of the rotation.    *)
RegisterCell(id) ==
  /\ order' = Append(order, id)
  /\ UNCHANGED <<clock, outcome>>

(* The numbers in S, n of them, in increasing order.                       *)
InOrder(at, n, S) ==
  /\ \A j, k \in 1..n : j < k => at[j] < at[k]
  /\ S = {at[k] : k \in 1..n}

(* Scheduler::deregister_cell: retain() keeps everyone else, in order.     *)
DeregisterCell(id) ==
  LET kept == {i \in 1..Len(order) : order[i] # id}
  IN  /\ \E n \in 0..Len(order) : \E at \in [1..n -> kept] :
           /\ InOrder(at, n, kept)
           /\ order' = [k \in 1..n |-> order[at[k]]]
      /\ UNCHANGED <<clock, outcome>>

(* Scheduler::next_dispatch: pop the front, push it to the back, tick.     *)
NextDispatch(id) ==
  /\ order # << >>
  /\ id = Head(order)
  /\ order' = Append(Tail(order), id)
  /\ clock' = Advance(clock)
  /\ outcome' = id

(* next_dispatch with an empty rotation returns None and changes nothing.  *)
NothingToDispatch ==
  /\ order = << >>
  /\ UNCHANGED schedVars

SchedDispatch == \E id \in CellIds : NextDispatch(id)

(* spawn_cell, the only caller of register_cell, refuses a known id.       *)
SchedNext ==
  \/ \E id \in CellIds : ~Registered(id) /\ RegisterCell(id)
  \/ \E id \in CellIds : Registered(id) /\ DeregisterCell(id)
  \/ SchedDispatch
  \/ NothingToDispatch

(* The dispatch loop is called again and again by its owner.               *)
SchedSpec == SchedInit /\ [][SchedNext]_schedVars /\ WF_schedVars(SchedDispatch)

-----------------------------------------------------------------------------
(* The rotation holds known ids only and the clock stays within its width. *)
SchedTypeOK ==
  /\ order \in Seq(CellIds)
  /\ clock \in 0..(ClockModulus - 1)
  /\ outcome \in CellIds \cup {NoCell}

(* Some turn of a comes before some turn of b in the rotation.             *)
Before(a, b) == \E i, j \in 1..Len(order) : i < j /\ order[i] = a /\ order[j] = b

(* A step in which nobody gets in front of a cell that does not run in it. *)
WaitersKeepTheirPlace ==
  \A a, b \in CellIds :
    (Registered(a) /\ ~Before(b, a) /\ Registered(a)' /\ ~NextDispatch(a)) => ~Before(b, a)'

(* scheduler.rs:3, "does *not* reorder": while a cell waits for its turn   *)
(* nobody gets in front of it, neither a cell that was behind it nor a     *)
(* newcomer, whatever registrations and evictions happen.                  *)
NoOvertaking == [][WaitersKeepTheirPlace]_schedVars

(* Every cell in the rotation eventually gets a quantum, unless it is      *)
(* evicted first: newcomers and evictions cannot starve it.                *)
EveryCellGetsATurn ==
  \A id \in CellIds : Registered(id) ~> (outcome = id \/ ~Registered(id))
=============================================================================
