------------------------------ MODULE EventLog -------------------------------
(***************************************************************************)
(* Non-determinism capture and replay: the EventRecorder of chronos-core   *)
(* (event_log.rs), first recording a cell's host calls on the primary,     *)
(* then, loaded with the exported log, replaying them elsewhere.           *)
(*                                                                         *)
(*   mode, log, current_tick, current_ordinal    the recorder's fields     *)
(*   tick       the scheduler's tick of the quantum the cell is running    *)
(*   history    what the recording run was given: [tick, call, value]      *)
(*   kept       how many of those calls survived export and transfer       *)
(*   replayed   what the replaying run was given: [tick, call, result]     *)
(*                                                                         *)
(* A call is a kind and, for random_bytes, a buffer length; a value is an  *)
(* opaque member of Values.                                                *)
(***************************************************************************)
EXTENDS Naturals, Sequences, FiniteSets

CONSTANTS
  Values,     \* clock readings and random byte strings
  Lengths,    \* buffer lengths asked of random_bytes
  MaxTick,    \* bound of the model on ticks
  MaxCalls    \* bound of the model on calls per run

ASSUME EventBounds == MaxTick \in Nat /\ MaxCalls \in Nat

VARIABLES mode, log, current_tick, current_ordinal, tick, history, kept, replayed

recorderVars == <<mode, log, current_tick, current_ordinal>>
eventVars == <<recorderVars, tick, history, kept, replayed>>

Calls == {[kind |-> "clock", len |-> 0]} \cup [kind : {"random"}, len : Lengths]

Ok(v) == [status |-> "ok", value |-> v]
MissingEntry == [status |-> "missing_entry"]
TypeMismatch == [status |-> "type_mismatch"]

-----------------------------------------------------------------------------
(* Faults a maintainer could introduce.                                    *)
OrdinalNeverReset(t) == current_ordinal

LookupIgnoringLength(key, call) ==
  IF key \notin DOMAIN log THEN MissingEntry
  ELSE IF log[key].call.kind # call.kind THEN TypeMismatch
  ELSE Ok(log[key].value)

-----------------------------------------------------------------------------
(* EventRecorder::new in either mode.  A cell spawned in Replay mode gets  *)
(* an empty log.                                                           *)
EventInit ==
  /\ mode \in {"Record", "Replay"}
  /\ log = [key \in {} |-> 0]
  /\ current_tick = 0
  /\ current_ordinal = 0
  /\ tick = 0
  /\ history = << >>
  /\ kept = 0
  /\ replayed = << >>

(* next_ordinal: the ordinal it returns, and what it leaves behind.        *)
Ordinal(t) == IF t # current_tick THEN 0 ELSE current_ordinal

NextOrdinal(t) ==
  /\ current_tick' = t
  /\ current_ordinal' = Ordinal(t) + 1

(* wall_clock_now and random_bytes in Record mode: the real source answers *)
(* v, which is logged and returned.                                        *)
RecordCall(call, v) ==
  LET key == <<tick, Ordinal(tick)>>
  IN  /\ mode = "Record"
      /\ Len(history) < MaxCalls
      /\ NextOrdinal(tick)
      /\ log' = [k \in DOMAIN log \cup {key} |->
                   IF k = key THEN [call |-> call, value |-> v] ELSE log[k]]
      /\ history' = Append(history, [tick |-> tick, call |-> call, value |-> v])
      /\ UNCHANGED <<mode, tick, kept, replayed>>

(* The match on the log entry, with random_bytes' length check.            *)
Lookup(key, call) ==
  IF key \notin DOMAIN log THEN MissingEntry
  ELSE IF log[key].call # call THEN TypeMismatch
  ELSE Ok(log[key].value)

(* The same calls in Replay mode.                                          *)
ReplayCall(call) ==
  /\ mode = "Replay"
  /\ Len(replayed) < MaxCalls
  /\ NextOrdinal(tick)
  /\ replayed' = Append(replayed, [tick |-> tick, call |-> call,
                                   result |-> Lookup(<<tick, Ordinal(tick)>>, call)])
  /\ UNCHANGED <<mode, log, tick, history, kept>>

(* The cell's next quantum; other cells may have had the ticks between.    *)
NextQuantum(t) ==
  /\ t > tick
  /\ tick' = t
  /\ UNCHANGED <<recorderVars, history, kept, replayed>>

KeyOf(i) ==
  <<history[i].tick, Cardinality({j \in 1..(i - 1) : history[j].tick = history[i].tick})>>

(* Another such fault: the log swapped into a recorder already in use.     *)
ReplayWithoutReset(n) ==
  /\ mode = "Record"
  /\ mode' = "Replay"
  /\ kept' = n
  /\ log' = [key \in DOMAIN log \ {KeyOf(i) : i \in (n + 1)..Len(history)} |-> log[key]]
  /\ tick' = 0
  /\ UNCHANGED <<current_tick, current_ordinal, history, replayed>>

(* export_log on the primary, from_replay_log elsewhere: a new recorder    *)
(* with the entries of the first n calls, the rest being lost on the way.  *)
ExportAndReplay(n) ==
  /\ mode = "Record"
  /\ mode' = "Replay"
  /\ kept' = n
  /\ log' = [key \in DOMAIN log \ {KeyOf(i) : i \in (n + 1)..Len(history)} |-> log[key]]
  /\ current_tick' = 0
  /\ current_ordinal' = 0
  /\ tick' = 0
  /\ UNCHANGED <<history, replayed>>

EventNext ==
  \/ \E call \in Calls, v \in Values : RecordCall(call, v)
  \/ \E call \in Calls : ReplayCall(call)
  \/ \E t \in 1..MaxTick : NextQuantum(t)
  \/ \E n \in 0..Len(history) : ExportAndReplay(n)

EventSpec == EventInit /\ [][EventNext]_eventVars
-----------------------------------------------------------------------------
(* The recorder's fields and the two runs' traces have their types.        *)
EventTypeOK ==
  /\ mode \in {"Record", "Replay"}
  /\ DOMAIN log \subseteq (0..MaxTick) \X (0..MaxCalls)
  /\ \A key \in DOMAIN log : log[key] \in [call : Calls, value : Values]
  /\ current_tick \in 0..MaxTick
  /\ current_ordinal \in 0..MaxCalls
  /\ tick \in current_tick..MaxTick
  /\ kept \in 0..Len(history)

(* ARCHITECTURE.md section 2, "append-only": while recording, no entry is  *)
(* ever overwritten; the log is the whole history, each call under its own *)
(* tick and its position within that tick.                                 *)
LogHoldsHistory ==
  mode = "Record" =>
    /\ Cardinality(DOMAIN log) = Len(history)
    /\ \A i \in 1..Len(history) :
         /\ KeyOf(i) \in DOMAIN log
         /\ log[KeyOf(i)] = [call |-> history[i].call, value |-> history[i].value]

(* The replaying guest has made the recorded calls at the recorded ticks.  *)
Followed(n) ==
  \A i \in 1..n : /\ i <= Len(history)
                  /\ replayed[i].tick = history[i].tick
                  /\ replayed[i].call = history[i].call

(* A replay that follows the recording is given the recorded values, one   *)
(* by one, and a hard MissingEntry from the point where the log was cut:   *)
(* never a fresh value, never an earlier one.                              *)
ReplayIsVerbatim ==
  \A n \in 1..Len(replayed) :
    Followed(n) => replayed[n].result = IF n <= kept THEN Ok(history[n].value)
                                        ELSE MissingEntry

(* Even a replay that diverges is never answered with the value of another *)
(* call: an Ok result at the k-th call of a tick is the value recorded for *)
(* the k-th call of that tick, which was a call of the same kind and       *)
(* length.                                                                 *)
DivergenceIsDetected ==
  \A n \in 1..Len(replayed) :
    replayed[n].result.status = "ok" =>
      \E i \in 1..kept :
        /\ KeyOf(i) = <<replayed[n].tick,
                        Cardinality({j \in 1..(n - 1) : replayed[j].tick = replayed[n].tick})>>
        /\ history[i].call = replayed[n].call
        /\ history[i].value = replayed[n].result.value
=============================================================================
