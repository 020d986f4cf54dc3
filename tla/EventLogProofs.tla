---------------------------- MODULE EventLogProofs ----------------------------
(***************************************************************************)
(* The recorder's keys are distinct and are those of the replay, so that a *)
(* replay is given what was recorded: for any number of ticks and calls,   *)
(* any values and buffer lengths.                                          *)
(***************************************************************************)
EXTENDS EventLog, Integers, FiniteSetTheorems, SequenceTheorems, TLAPS

(* The calls of a run made before call i in the same tick, and the key     *)
(* that the position of call i among them gives it.                        *)
Earlier(run, i) == {j \in 1..(i - 1) : run[j].tick = run[i].tick}

KeyIn(run, i) == <<run[i].tick, Cardinality(Earlier(run, i))>>

CallsAt(run, t) == {j \in 1..Len(run) : run[j].tick = t}

(* A recorder's tick and ordinal say where the run is.                     *)
Counts(run, t, ordinal) ==
  /\ \A j \in 1..Len(run) : run[j].tick <= t
  /\ ordinal = Cardinality(CallsAt(run, t))

(* A log that is the first n calls of a run, each under its key.           *)
Holds(entries, run, n) ==
  /\ DOMAIN entries = {KeyIn(run, i) : i \in 1..n}
  /\ \A i \in 1..n : entries[KeyIn(run, i)] = [call |-> run[i].call, value |-> run[i].value]

Recorded == [tick : 0..MaxTick, call : Calls, value : Values]
Results == {MissingEntry, TypeMismatch} \cup {Ok(v) : v \in Values}
Replayed == [tick : 0..MaxTick, call : Calls, result : Results]

(* Every replayed call was answered with what the log has under its key.   *)
Answered ==
  \A n \in 1..Len(replayed) : replayed[n].result = Lookup(KeyIn(replayed, n), replayed[n].call)

EventInv ==
  /\ mode \in {"Record", "Replay"}
  /\ current_tick \in 0..MaxTick /\ tick \in current_tick..MaxTick
  /\ history \in Seq(Recorded) /\ Len(history) <= MaxCalls
  /\ replayed \in Seq(Replayed) /\ Len(replayed) <= MaxCalls
  /\ kept \in 0..Len(history)
  /\ mode = "Record" => /\ replayed = << >>
                        /\ Counts(history, current_tick, current_ordinal)
                        /\ Holds(log, history, Len(history))
  /\ mode = "Replay" => /\ Counts(replayed, current_tick, current_ordinal)
                        /\ Holds(log, history, kept)
  /\ Answered

-----------------------------------------------------------------------------
(* Keys.                                                                   *)
LEMMA EarlierCalls ==
  ASSUME NEW run, NEW i \in Nat \ {0}
  PROVE  /\ IsFiniteSet(Earlier(run, i)) /\ Cardinality(Earlier(run, i)) \in Nat
         /\ Cardinality(Earlier(run, i)) <= i - 1
<1>1. IsFiniteSet(1..(i - 1)) /\ Cardinality(1..(i - 1)) = i - 1
  <2>1. 1 \in Int /\ i - 1 \in Int
    OBVIOUS
  <2>2. /\ IsFiniteSet(1..(i - 1))
        /\ Cardinality(1..(i - 1)) = IF 1 > i - 1 THEN 0 ELSE (i - 1) - 1 + 1
    BY <2>1, FS_Interval
  <2>. QED
    BY <2>2
<1>2. Earlier(run, i) \in SUBSET (1..(i - 1))
  BY DEF Earlier
<1>3. IsFiniteSet(Earlier(run, i)) /\ Cardinality(Earlier(run, i)) <= Cardinality(1..(i - 1))
  BY <1>1, <1>2, FS_Subset
<1>. QED
  BY <1>1, <1>3, FS_CardinalityType

(* Two calls of one run never share a key.                                 *)
LEMMA KeysDiffer ==
  ASSUME NEW run, NEW i \in Nat \ {0}, NEW j \in Nat \ {0}, KeyIn(run, i) = KeyIn(run, j)
  PROVE  i = j
<1>1. ASSUME NEW m \in Nat \ {0}, NEW n \in Nat \ {0}, m < n, run[m].tick = run[n].tick
      PROVE  Cardinality(Earlier(run, m)) < Cardinality(Earlier(run, n))
  <2>1. IsFiniteSet(Earlier(run, m)) /\ IsFiniteSet(Earlier(run, n))
        /\ Cardinality(Earlier(run, m)) \in Nat /\ Cardinality(Earlier(run, n)) \in Nat
    BY EarlierCalls
  <2>2. m \notin Earlier(run, m) /\ m \in Earlier(run, n)
    BY <1>1 DEF Earlier
  <2>3. Earlier(run, m) \cup {m} \in SUBSET Earlier(run, n)
    BY <1>1 DEF Earlier
  <2>4. Cardinality(Earlier(run, m) \cup {m}) = Cardinality(Earlier(run, m)) + 1
    BY <2>1, <2>2, FS_AddElement
  <2>5. Cardinality(Earlier(run, m) \cup {m}) <= Cardinality(Earlier(run, n))
    BY <2>1, <2>3, FS_Subset
  <2>. QED
    BY <2>1, <2>4, <2>5
<1>2. /\ run[i].tick = run[j].tick
      /\ Cardinality(Earlier(run, i)) = Cardinality(Earlier(run, j))
      /\ Cardinality(Earlier(run, i)) \in Nat
  BY EarlierCalls DEF KeyIn
<1>3. CASE i < j
  BY <1>1, <1>2, <1>3
<1>4. CASE j < i
  BY <1>1, <1>2, <1>4
<1>. QED
  BY <1>3, <1>4

(* A key depends on the ticks up to its call only.                         *)
LEMMA SameTicksSameKey ==
  ASSUME NEW run, NEW other, NEW n \in Nat \ {0}, \A j \in 1..n : run[j].tick = other[j].tick
  PROVE  KeyIn(run, n) = KeyIn(other, n)
<1>1. run[n].tick = other[n].tick /\ \A j \in 1..(n - 1) : run[j].tick = other[j].tick
  OBVIOUS
<1>2. Earlier(run, n) = Earlier(other, n)
  BY <1>1 DEF Earlier
<1>. QED
  BY <1>1, <1>2 DEF KeyIn

(* A run and the same run with one more call, made in tick now.            *)
OneMore(run, other, now) ==
  /\ now \in Nat /\ Len(run) \in Nat /\ Len(other) = Len(run) + 1
  /\ other[Len(run) + 1].tick = now
  /\ \A j \in 1..Len(run) : run[j].tick \in Nat /\ other[j] = run[j]

(* The ordinal next_ordinal hands out is the number of calls the run made  *)
(* in the tick, so the key of the new call is the one its position gives.  *)
LEMMA OrdinalCounts ==
  ASSUME NEW run, NEW now, NEW other, OneMore(run, other, now),
         Counts(run, current_tick, current_ordinal), current_tick \in Nat, current_tick <= now
  PROVE  /\ KeyIn(other, Len(run) + 1) = <<now, Ordinal(now)>>
         /\ \A i \in 1..Len(run) : KeyIn(other, i) = KeyIn(run, i)
         /\ \A j \in 1..Len(other) : other[j].tick <= now
         /\ Cardinality(CallsAt(other, now)) = Ordinal(now) + 1
<1>. USE DEF OneMore
<1>0. Len(run) \in Nat
  OBVIOUS
<1>1. IsFiniteSet(CallsAt(run, now)) /\ Ordinal(now) = Cardinality(CallsAt(run, now))
  <2>1. IsFiniteSet(CallsAt(run, now))
    <3>1. IsFiniteSet(1..Len(run))
      BY <1>0, FS_Interval
    <3>2. CallsAt(run, now) \in SUBSET (1..Len(run))
      BY DEF CallsAt
    <3>. QED
      BY <3>1, <3>2, FS_Subset
  <2>2. CASE now = current_tick
    BY <2>1, <2>2 DEF Ordinal, Counts
  <2>3. CASE now # current_tick
    <3>1. \A j \in 1..Len(run) : run[j].tick # now
      BY <2>3 DEF Counts
    <3>2. CallsAt(run, now) = {}
      BY <3>1 DEF CallsAt
    <3>. QED
      BY <2>1, <2>3, <3>2, FS_EmptySet DEF Ordinal
  <2>. QED
    BY <2>2, <2>3
<1>2. Earlier(other, Len(run) + 1) = CallsAt(run, now)
  BY <1>0 DEF Earlier, CallsAt
<1>3. KeyIn(other, Len(run) + 1) = <<now, Ordinal(now)>>
  BY <1>1, <1>2 DEF KeyIn
<1>4. \A i \in 1..Len(run) : KeyIn(other, i) = KeyIn(run, i)
  <2>. SUFFICES ASSUME NEW i \in 1..Len(run) PROVE KeyIn(other, i) = KeyIn(run, i)
    OBVIOUS
  <2>1. \A j \in 1..i : other[j].tick = run[j].tick
    BY <1>0
  <2>. QED
    BY <1>0, <2>1, SameTicksSameKey
<1>5. \A j \in 1..Len(other) : other[j].tick <= now
  <2>1. \A j \in 1..Len(run) : other[j].tick <= now
    BY DEF Counts
  <2>2. \A j \in 1..Len(other) : j \in 1..Len(run) \/ j = Len(run) + 1
    BY <1>0
  <2>. QED
    BY <2>1, <2>2
<1>6. Cardinality(CallsAt(other, now)) = Ordinal(now) + 1
  <2>1. CallsAt(other, now) = CallsAt(run, now) \cup {Len(run) + 1}
    BY <1>0 DEF CallsAt
  <2>2. Len(run) + 1 \notin CallsAt(run, now)
    BY <1>0 DEF CallsAt
  <2>3. Cardinality(CallsAt(run, now) \cup {Len(run) + 1}) = Cardinality(CallsAt(run, now)) + 1
    BY <1>1, <2>2, FS_AddElement
  <2>. QED
    BY <1>1, <2>1, <2>3
<1>. QED
  BY <1>3, <1>4, <1>5, <1>6

(* The keys of history.                                                    *)
LEMMA KeysOfHistory == \A i : KeyOf(i) = KeyIn(history, i)
  BY DEF KeyOf, KeyIn, Earlier

(* An answer is one of the results.                                        *)
LEMMA LookupType ==
  ASSUME NEW n \in 0..Len(history), history \in Seq(Recorded), Holds(log, history, n), NEW key, NEW call
  PROVE  Lookup(key, call) \in Results
<1>1. ASSUME key \in DOMAIN log PROVE log[key].value \in Values
  <2>1. PICK i \in 1..n : key = KeyIn(history, i)
    BY <1>1 DEF Holds
  <2>2. history[i] \in Recorded
    BY <2>1
  <2>3. log[key] = [call |-> history[i].call, value |-> history[i].value]
    BY <2>1 DEF Holds
  <2>. QED
    BY <2>2, <2>3 DEF Recorded
<1>. QED
  BY <1>1 DEF Lookup, Results

(* Neither recorder has been asked anything.                               *)
LEMMA EventInvInit == EventInit => EventInv
<1>. SUFFICES ASSUME EventInit PROVE EventInv
  OBVIOUS
<1>. USE DEF EventInit
<1>1. /\ history \in Seq(Recorded) /\ Len(history) = 0
      /\ replayed \in Seq(Replayed) /\ Len(replayed) = 0
  OBVIOUS
<1>2. CallsAt(history, 0) = {} /\ CallsAt(replayed, 0) = {}
  BY <1>1 DEF CallsAt
<1>3. Counts(history, 0, 0) /\ Counts(replayed, 0, 0)
  BY <1>1, <1>2, FS_EmptySet DEF Counts
<1>4. Holds(log, history, 0)
  BY DEF Holds
<1>. QED
  BY <1>1, <1>3, <1>4, EventBounds DEF EventInv, Answered

(* A call while recording gets a key of its own at the end of the log.     *)
LEMMA RecordKeeps ==
  ASSUME EventInv, NEW call \in Calls, NEW v \in Values, RecordCall(call, v)
  PROVE  EventInv'
<1>. DEFINE e == [tick |-> tick, call |-> call, value |-> v]
            n == Len(history)
            key == <<tick, Ordinal(tick)>>
<1>1. /\ mode = "Record" /\ n < MaxCalls /\ history' = Append(history, e)
      /\ current_tick' = tick /\ current_ordinal' = Ordinal(tick) + 1
      /\ log' = [k \in DOMAIN log \cup {key} |->
                   IF k = key THEN [call |-> call, value |-> v] ELSE log[k]]
      /\ UNCHANGED <<mode, tick, kept, replayed>>
  BY DEF RecordCall, NextOrdinal
<1>2. /\ MaxTick \in Nat /\ MaxCalls \in Nat /\ current_tick \in Nat /\ tick \in 0..MaxTick
      /\ current_tick <= tick /\ history \in Seq(Recorded) /\ n \in Nat
      /\ replayed = << >> /\ Counts(history, current_tick, current_ordinal) /\ Holds(log, history, n)
  BY <1>1, EventBounds DEF EventInv
<1>3. e \in Recorded
  BY <1>2 DEF Recorded
<1>4. /\ history' \in Seq(Recorded) /\ Len(history') = n + 1 /\ history'[n + 1] = e
      /\ \A j \in 1..n : history'[j] = history[j]
  BY <1>1, <1>2, <1>3
<1>5. OneMore(history, history', tick)
  <2>1. \A j \in 1..n : history[j] \in Recorded
    BY <1>2
  <2>2. \A j \in 1..n : history[j].tick \in Nat
    BY <1>2, <2>1 DEF Recorded
  <2>. QED
    BY <1>2, <1>4, <2>2 DEF OneMore
<1>. HIDE DEF e, n
<1>6. /\ KeyIn(history', n + 1) = key
      /\ \A i \in 1..n : KeyIn(history', i) = KeyIn(history, i)
      /\ \A j \in 1..(n + 1) : history'[j].tick <= tick
      /\ Cardinality(CallsAt(history', tick)) = Ordinal(tick) + 1
  BY <1>2, <1>4, <1>5, OrdinalCounts DEF n
<1>. HIDE DEF key
<1>7. Counts(history', tick, current_ordinal')
  BY <1>1, <1>4, <1>6 DEF Counts
<1>8. \A i \in 1..n : KeyIn(history', i) # key
  BY <1>2, <1>6, KeysDiffer
<1>9. Holds(log', history', n + 1)
  <2>1. \A i \in 1..(n + 1) : i \in 1..n \/ i = n + 1
    BY <1>2
  <2>2. DOMAIN log' = DOMAIN log \cup {key}
    BY <1>1
  <2>3. DOMAIN log' = {KeyIn(history', i) : i \in 1..(n + 1)}
    <3>1. DOMAIN log = {KeyIn(history', i) : i \in 1..n}
      BY <1>2, <1>6 DEF Holds
    <3>2. {KeyIn(history', i) : i \in 1..(n + 1)} = {KeyIn(history', i) : i \in 1..n} \cup {key}
      BY <1>2, <1>6, <2>1
    <3>. QED
      BY <2>2, <3>1, <3>2
  <2>4. ASSUME NEW i \in 1..(n + 1)
        PROVE  log'[KeyIn(history', i)] = [call |-> history'[i].call, value |-> history'[i].value]
    <3>1. CASE i = n + 1
      BY <1>1, <1>4, <1>6, <3>1 DEF e
    <3>2. CASE i \in 1..n
      <4>1. KeyIn(history, i) \in DOMAIN log /\ KeyIn(history, i) # key
        BY <1>2, <1>6, <1>8, <3>2 DEF Holds
      <4>2. log'[KeyIn(history, i)] = log[KeyIn(history, i)]
        BY <1>1, <4>1
      <4>. QED
        BY <1>2, <1>4, <1>6, <3>2, <4>2 DEF Holds
    <3>. QED
      BY <2>1, <3>1, <3>2
  <2>. QED
    BY <2>3, <2>4 DEF Holds
<1>10. /\ replayed' \in Seq(Replayed) /\ Len(replayed') = 0
  BY <1>1, <1>2
<1>11. kept' \in 0..Len(history') /\ Len(history') <= MaxCalls
  BY <1>1, <1>2, <1>4 DEF EventInv, n
<1>. QED
  BY <1>1, <1>2, <1>4, <1>7, <1>9, <1>10, <1>11 DEF EventInv, Answered

(* A call while replaying is answered from the log under the key that its  *)
(* position gives it.                                                      *)
LEMMA ReplayKeeps ==
  ASSUME EventInv, NEW call \in Calls, ReplayCall(call)
  PROVE  EventInv'
<1>. DEFINE n == Len(replayed)
            key == <<tick, Ordinal(tick)>>
            e == [tick |-> tick, call |-> call, result |-> Lookup(key, call)]
<1>1. /\ mode = "Replay" /\ n < MaxCalls /\ replayed' = Append(replayed, e)
      /\ current_tick' = tick /\ current_ordinal' = Ordinal(tick) + 1
      /\ UNCHANGED <<mode, log, tick, history, kept>>
  BY DEF ReplayCall, NextOrdinal
<1>2. /\ MaxTick \in Nat /\ MaxCalls \in Nat /\ current_tick \in Nat /\ tick \in 0..MaxTick
      /\ current_tick <= tick /\ replayed \in Seq(Replayed) /\ n \in Nat
      /\ Counts(replayed, current_tick, current_ordinal) /\ Holds(log, history, kept)
  BY <1>1, EventBounds DEF EventInv
<1>3. e \in Replayed
  <2>1. Lookup(key, call) \in Results
    BY <1>2, LookupType DEF EventInv
  <2>. QED
    BY <1>2, <2>1 DEF Replayed
<1>4. /\ replayed' \in Seq(Replayed) /\ Len(replayed') = n + 1 /\ replayed'[n + 1] = e
      /\ \A j \in 1..n : replayed'[j] = replayed[j]
  BY <1>1, <1>2, <1>3
<1>5. OneMore(replayed, replayed', tick)
  <2>1. \A j \in 1..n : replayed[j] \in Replayed
    BY <1>2
  <2>2. \A j \in 1..n : replayed[j].tick \in Nat
    BY <1>2, <2>1 DEF Replayed
  <2>. QED
    BY <1>2, <1>4, <2>2 DEF OneMore
<1>6. e.tick = tick /\ e.call = call /\ e.result = Lookup(key, call)
  OBVIOUS
<1>. HIDE DEF e, n
<1>7. /\ KeyIn(replayed', n + 1) = key
      /\ \A i \in 1..n : KeyIn(replayed', i) = KeyIn(replayed, i)
      /\ \A j \in 1..(n + 1) : replayed'[j].tick <= tick
      /\ Cardinality(CallsAt(replayed', tick)) = Ordinal(tick) + 1
  BY <1>2, <1>4, <1>5, OrdinalCounts DEF n
<1>. HIDE DEF key
<1>8. Counts(replayed', tick, current_ordinal')
  BY <1>1, <1>4, <1>7 DEF Counts
<1>9. ASSUME NEW i \in 1..(n + 1)
      PROVE  replayed'[i].result = Lookup(KeyIn(replayed', i), replayed'[i].call)
  <2>1. CASE i = n + 1
    BY <1>4, <1>6, <1>7, <2>1
  <2>2. CASE i \in 1..n
    BY <1>4, <1>7, <2>2 DEF EventInv, Answered, n
  <2>. QED
    BY <1>2, <2>1, <2>2
<1>10. Answered'
  BY <1>1, <1>4, <1>9 DEF Answered, Lookup, MissingEntry, TypeMismatch, Ok
<1>11. Len(replayed') <= MaxCalls
  BY <1>1, <1>2, <1>4
<1>. QED
  BY <1>1, <1>2, <1>4, <1>8, <1>10, <1>11 DEF EventInv

(* The exported entries are those of the calls that survived; the new      *)
(* recorder starts from the beginning.                                     *)
LEMMA ExportKeeps ==
  ASSUME EventInv, NEW n \in 0..Len(history), ExportAndReplay(n)
  PROVE  EventInv'
<1>. DEFINE lost == {KeyOf(i) : i \in (n + 1)..Len(history)}
<1>1. /\ mode = "Record" /\ mode' = "Replay" /\ kept' = n
      /\ log' = [key \in DOMAIN log \ lost |-> log[key]]
      /\ current_tick' = 0 /\ current_ordinal' = 0 /\ tick' = 0
      /\ UNCHANGED <<history, replayed>>
  BY DEF ExportAndReplay
<1>2. /\ history \in Seq(Recorded) /\ Len(history) \in Nat /\ replayed = << >>
      /\ Holds(log, history, Len(history)) /\ MaxTick \in Nat
  BY <1>1, EventBounds DEF EventInv
<1>3. lost = {KeyIn(history, i) : i \in (n + 1)..Len(history)}
  BY KeysOfHistory
<1>. HIDE DEF lost
<1>4. Holds(log', history, n)
  <2>1. \A i \in 1..n : KeyIn(history, i) \in DOMAIN log /\ KeyIn(history, i) \notin lost
    <3>. SUFFICES ASSUME NEW i \in 1..n
                  PROVE  KeyIn(history, i) \in DOMAIN log /\ KeyIn(history, i) \notin lost
      OBVIOUS
    <3>1. i \in 1..Len(history) /\ i \in Nat \ {0}
      BY <1>2
    <3>2. KeyIn(history, i) \in DOMAIN log
      BY <1>2, <3>1 DEF Holds
    <3>3. ASSUME NEW j \in (n + 1)..Len(history) PROVE KeyIn(history, i) # KeyIn(history, j)
      <4>1. j \in Nat \ {0} /\ i # j
        BY <1>2
      <4>. QED
        BY <3>1, <4>1, KeysDiffer
    <3>. QED
      BY <1>3, <3>2, <3>3
  <2>2. \A i \in 1..Len(history) : i \in 1..n \/ KeyIn(history, i) \in lost
    <3>1. \A i \in 1..Len(history) : i \in 1..n \/ i \in (n + 1)..Len(history)
      BY <1>2
    <3>. QED
      BY <1>3, <3>1
  <2>3. DOMAIN log' = {KeyIn(history, i) : i \in 1..n}
    <3>1. DOMAIN log' = DOMAIN log \ lost
      BY <1>1
    <3>2. DOMAIN log = {KeyIn(history, i) : i \in 1..Len(history)}
      BY <1>2 DEF Holds
    <3>3. DOMAIN log' \subseteq {KeyIn(history, i) : i \in 1..n}
      BY <2>2, <3>1, <3>2
    <3>4. {KeyIn(history, i) : i \in 1..n} \subseteq DOMAIN log'
      BY <2>1, <3>1
    <3>. QED
      BY <3>3, <3>4
  <2>4. \A i \in 1..n : log'[KeyIn(history, i)] = log[KeyIn(history, i)]
    BY <1>1, <2>1
  <2>5. \A i \in 1..n : i \in 1..Len(history)
    BY <1>2
  <2>. QED
    BY <1>2, <2>3, <2>4, <2>5 DEF Holds
<1>5. replayed' \in Seq(Replayed) /\ Len(replayed') = 0
  BY <1>1, <1>2
<1>6. CallsAt(replayed', 0) = {}
  BY <1>5 DEF CallsAt
<1>7. Counts(replayed', 0, 0)
  BY <1>5, <1>6, FS_EmptySet DEF Counts
<1>8. Answered'
  BY <1>5 DEF Answered
<1>9. Holds(log', history', kept')
  BY <1>1, <1>4
<1>10. 0 <= MaxCalls /\ Len(history) <= MaxCalls
  BY EventBounds DEF EventInv
<1>. QED
  BY <1>1, <1>2, <1>5, <1>7, <1>8, <1>9, <1>10 DEF EventInv

(* Each step keeps the invariant; a new quantum changes the tick only.     *)
LEMMA EventInvStep == EventInv /\ [EventNext]_eventVars => EventInv'
<1>. SUFFICES ASSUME EventInv, [EventNext]_eventVars PROVE EventInv'
  OBVIOUS
<1>1. ASSUME NEW t \in 1..MaxTick, NextQuantum(t) PROVE EventInv'
  <2>1. tick' \in current_tick..MaxTick
    BY <1>1, EventBounds DEF NextQuantum, EventInv
  <2>2. UNCHANGED <<mode, log, current_tick, current_ordinal, history, kept, replayed>>
    BY <1>1 DEF NextQuantum, recorderVars
  <2>3. Answered'
    BY <2>2 DEF EventInv, Answered, Lookup, MissingEntry, TypeMismatch, Ok
  <2>. QED
    BY <2>1, <2>2, <2>3 DEF EventInv
<1>2. CASE UNCHANGED eventVars
  <2>1. UNCHANGED <<mode, log, current_tick, current_ordinal, tick, history, kept, replayed>>
    BY <1>2 DEF eventVars, recorderVars
  <2>2. Answered'
    BY <2>1 DEF EventInv, Answered, Lookup, MissingEntry, TypeMismatch, Ok
  <2>. QED
    BY <2>1, <2>2 DEF EventInv
<1>. QED
  BY <1>1, <1>2, RecordKeeps, ReplayKeeps, ExportKeeps DEF EventNext

(* The invariant along every behaviour.                                    *)
LEMMA AlwaysEventInv == EventSpec => []EventInv
  BY EventInvInit, EventInvStep, PTL DEF EventSpec

-----------------------------------------------------------------------------
(* event_log.rs:45-55: the recorder's fields keep to their types, and the  *)
(* tick it last saw is never ahead of the quantum that is running.         *)
THEOREM EventTypes == EventSpec => []EventTypeOK
<1>1. EventInv => EventTypeOK
  <2>. SUFFICES ASSUME EventInv PROVE EventTypeOK
    OBVIOUS
  <2>0. MaxTick \in Nat /\ MaxCalls \in Nat /\ history \in Seq(Recorded) /\ Len(history) \in Nat
        /\ Len(history) <= MaxCalls /\ Len(replayed) \in Nat /\ Len(replayed) <= MaxCalls
    BY EventBounds DEF EventInv
  <2>1. PICK n \in 0..Len(history) : Holds(log, history, n)
    BY <2>0 DEF EventInv
  <2>2. ASSUME NEW i \in 1..n
        PROVE  /\ KeyIn(history, i) \in (0..MaxTick) \X (0..MaxCalls)
               /\ log[KeyIn(history, i)] \in [call : Calls, value : Values]
    <3>1. history[i] \in Recorded
      BY <2>0
    <3>2. Cardinality(Earlier(history, i)) \in 0..MaxCalls
      <4>1. i \in Nat \ {0} /\ i <= MaxCalls
        BY <2>0
      <4>2. Cardinality(Earlier(history, i)) \in Nat /\ Cardinality(Earlier(history, i)) <= i - 1
        BY <4>1, EarlierCalls
      <4>. QED
        BY <2>0, <4>1, <4>2
    <3>3. log[KeyIn(history, i)] = [call |-> history[i].call, value |-> history[i].value]
      BY <2>1 DEF Holds
    <3>. QED
      BY <3>1, <3>2, <3>3 DEF Recorded, KeyIn
  <2>3. \A key \in DOMAIN log : \E i \in 1..n : key = KeyIn(history, i)
    BY <2>1 DEF Holds
  <2>4. current_ordinal \in 0..MaxCalls
    <3>1. ASSUME NEW run, Len(run) \in Nat, Len(run) <= MaxCalls, NEW t
          PROVE  Cardinality(CallsAt(run, t)) \in 0..MaxCalls
      <4>1. IsFiniteSet(1..Len(run)) /\ Cardinality(1..Len(run)) = Len(run)
        <5>1. 1 \in Int /\ Len(run) \in Int
          BY <3>1
        <5>2. /\ IsFiniteSet(1..Len(run))
              /\ Cardinality(1..Len(run)) = IF 1 > Len(run) THEN 0 ELSE Len(run) - 1 + 1
          BY <5>1, FS_Interval
        <5>. QED
          BY <3>1, <5>2
      <4>2. CallsAt(run, t) \in SUBSET (1..Len(run))
        BY DEF CallsAt
      <4>3. IsFiniteSet(CallsAt(run, t)) /\ Cardinality(CallsAt(run, t)) <= Len(run)
        BY <4>1, <4>2, FS_Subset
      <4>4. Cardinality(CallsAt(run, t)) \in Nat
        BY <4>3, FS_CardinalityType
      <4>. QED
        BY <2>0, <3>1, <4>3, <4>4
    <3>2. \/ current_ordinal = Cardinality(CallsAt(history, current_tick))
          \/ current_ordinal = Cardinality(CallsAt(replayed, current_tick))
      BY DEF EventInv, Counts
    <3>. QED
      BY <2>0, <3>1, <3>2
  <2>5. DOMAIN log \subseteq (0..MaxTick) \X (0..MaxCalls)
        /\ \A key \in DOMAIN log : log[key] \in [call : Calls, value : Values]
    BY <2>2, <2>3
  <2>. QED
    BY <2>4, <2>5 DEF EventInv, EventTypeOK
<1>. QED
  BY <1>1, AlwaysEventInv, PTL

(* ARCHITECTURE.md section 2, "append-only": for any number of ticks and   *)
(* calls the log loses no call and overwrites none.                        *)
THEOREM LogIsTheHistory == EventSpec => []LogHoldsHistory
<1>1. EventInv => LogHoldsHistory
  <2>. SUFFICES ASSUME EventInv, mode = "Record"
                PROVE  /\ Cardinality(DOMAIN log) = Len(history)
                       /\ \A i \in 1..Len(history) :
                            /\ KeyOf(i) \in DOMAIN log
                            /\ log[KeyOf(i)] = [call |-> history[i].call, value |-> history[i].value]
    BY DEF LogHoldsHistory
  <2>1. Len(history) \in Nat /\ Holds(log, history, Len(history))
    BY DEF EventInv
  <2>. DEFINE f == [i \in 1..Len(history) |-> KeyIn(history, i)]
  <2>2. f \in [1..Len(history) -> DOMAIN log]
    BY <2>1 DEF Holds
  <2>3. \A i, j \in 1..Len(history) : f[i] = f[j] => i = j
    BY <2>1, KeysDiffer
  <2>4. \A key \in DOMAIN log : \E i \in 1..Len(history) : f[i] = key
    BY <2>1 DEF Holds
  <2>. HIDE DEF f
  <2>5. f \in Bijection(1..Len(history), DOMAIN log)
    BY <2>2, <2>3, <2>4 DEF Bijection, Injection, Surjection, IsInjective
  <2>6. ExistsBijection(1..Len(history), DOMAIN log)
    BY <2>5 DEF ExistsBijection
  <2>7. Cardinality(DOMAIN log) = Len(history)
    BY <2>1, <2>6, FS_CountingElements
  <2>. QED
    BY <2>1, <2>7, KeysOfHistory DEF Holds
<1>. QED
  BY <1>1, AlwaysEventInv, PTL

(* What the log answers under the key of a recorded call.                  *)
LEMMA AnswersFromLog ==
  ASSUME EventInv, mode = "Replay", NEW n \in 1..Len(history)
  PROVE  Lookup(KeyOf(n), history[n].call) = IF n <= kept THEN Ok(history[n].value) ELSE MissingEntry
<1>1. Holds(log, history, kept) /\ kept \in 0..Len(history) /\ Len(history) \in Nat
  BY DEF EventInv
<1>2. KeyOf(n) = KeyIn(history, n)
  BY KeysOfHistory
<1>3. CASE n <= kept
  <2>1. n \in 1..kept
    BY <1>1, <1>3
  <2>2. /\ KeyOf(n) \in DOMAIN log
        /\ log[KeyOf(n)] = [call |-> history[n].call, value |-> history[n].value]
    BY <1>1, <1>2, <2>1 DEF Holds
  <2>. QED
    BY <1>3, <2>2 DEF Lookup
<1>4. CASE ~(n <= kept)
  <2>1. \A i \in 1..kept : i \in Nat \ {0} /\ i # n
    BY <1>1, <1>4
  <2>2. \A i \in 1..kept : KeyIn(history, i) # KeyIn(history, n)
    BY <1>1, <2>1, KeysDiffer
  <2>3. KeyOf(n) \notin DOMAIN log
    BY <1>1, <1>2, <2>2 DEF Holds
  <2>. QED
    BY <1>4, <2>3 DEF Lookup
<1>. QED
  BY <1>3, <1>4

(* event_log.rs:8, "so replay is host-independent": a replay of any length *)
(* that follows the recording is given the recorded values, and a hard     *)
(* error from the point where the log was cut.                             *)
THEOREM ReplayRepeats == EventSpec => []ReplayIsVerbatim
<1>1. EventInv => ReplayIsVerbatim
  <2>. SUFFICES ASSUME EventInv, NEW n \in 1..Len(replayed), Followed(n)
                PROVE  replayed[n].result = IF n <= kept THEN Ok(history[n].value) ELSE MissingEntry
    BY DEF ReplayIsVerbatim
  <2>1. /\ Len(replayed) \in Nat /\ Len(history) \in Nat /\ replayed # << >>
        /\ mode = "Replay" /\ Answered
    BY DEF EventInv
  <2>2. n \in 1..n /\ n \in Nat \ {0}
    BY <2>1
  <2>3. /\ n \in 1..Len(history) /\ replayed[n].call = history[n].call
        /\ \A j \in 1..n : replayed[j].tick = history[j].tick
    BY <2>1, <2>2 DEF Followed
  <2>4. KeyIn(replayed, n) = KeyIn(history, n)
    BY <2>2, <2>3, SameTicksSameKey
  <2>5. replayed[n].result = Lookup(KeyOf(n), history[n].call)
    BY <2>1, <2>3, <2>4, KeysOfHistory DEF Answered
  <2>. QED
    BY <2>1, <2>3, <2>5, AnswersFromLog
<1>. QED
  BY <1>1, AlwaysEventInv, PTL

(* event_log.rs:154-158, 176-186: a replay that goes its own way is never  *)
(* answered with the value of another call.                                *)
THEOREM DivergenceNeverPasses == EventSpec => []DivergenceIsDetected
<1>1. EventInv => DivergenceIsDetected
  <2>. SUFFICES ASSUME EventInv, NEW n \in 1..Len(replayed), replayed[n].result.status = "ok"
                PROVE  \E i \in 1..kept :
                         /\ KeyOf(i) = KeyIn(replayed, n)
                         /\ history[i].call = replayed[n].call
                         /\ history[i].value = replayed[n].result.value
    BY DEF DivergenceIsDetected, KeyIn, Earlier
  <2>. DEFINE key == KeyIn(replayed, n)
  <2>1. /\ Len(replayed) \in Nat /\ replayed # << >> /\ mode = "Replay"
        /\ replayed[n].result = Lookup(key, replayed[n].call) /\ Holds(log, history, kept)
    BY DEF EventInv, Answered
  <2>. HIDE DEF key
  <2>2. key \in DOMAIN log /\ log[key].call = replayed[n].call
        /\ replayed[n].result = Ok(log[key].value)
    BY <2>1 DEF Lookup, MissingEntry, TypeMismatch
  <2>3. replayed[n].result.value = log[key].value
    BY <2>2 DEF Ok
  <2>4. PICK i \in 1..kept : key = KeyIn(history, i)
    BY <2>1, <2>2 DEF Holds
  <2>5. log[key] = [call |-> history[i].call, value |-> history[i].value]
    BY <2>1, <2>4 DEF Holds
  <2>. QED
    BY <2>2, <2>3, <2>4, <2>5, KeysOfHistory DEF key
<1>. QED
  BY <1>1, AlwaysEventInv, PTL
=============================================================================
