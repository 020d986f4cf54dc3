----------------------------- MODULE DeltaStream ------------------------------
(***************************************************************************)
(* Page deltas from one DeltaEngine to another through a DeltaRing         *)
(* (chronos-mem delta.rs, chronos-replicate lib.rs), in the arrangement    *)
(* supervisor.rs:157-161 describes: one engine per cell that lives across  *)
(* ticks, so most deltas are relative to what was sent before.             *)
(*                                                                         *)
(*   engine, standby   the two DeltaEngines: baseline, have_baseline       *)
(*   memory, dirty     the cell's pages and the pages still to be flushed  *)
(*   pc, batch, tick   where the dispatch thread is in its cycle           *)
(*   queue, last_pushed_tick   DeltaRing; push writes one, then the other  *)
(*   out               batches popped by drain and not yet applied         *)
(*   missed            history: pages whose last delta the ring refused    *)
(*                     and that no raw delta has carried since             *)
(*                                                                         *)
(* A byte is the set of its one bits, so that XOR is a set operation.      *)
(***************************************************************************)
EXTENDS Naturals, Sequences, FiniteSets, FiniteSetsExt

CONSTANTS
  PageSize,    \* PAGE_SIZE, 4096 in the code
  Bits,        \* the bit positions of a byte
  RunHeader,   \* bytes that a run costs on the wire, 8 in the code
  Pages,       \* page indices
  Images,      \* page contents that the guest produces
  Capacity,    \* the ring's capacity
  MaxTick      \* bound of the model on flushes

ASSUME SizeAssumption == PageSize \in Nat \ {0} /\ RunHeader \in Nat /\ Capacity \in Nat \ {0}

Byte == SUBSET Bits
Page == [1..PageSize -> Byte]
ZeroPage == [i \in 1..PageSize |-> {}]

ASSUME ImageAssumption == Images \subseteq Page

VARIABLES engine, standby, memory, dirty, pc, batch, tick, queue, last_pushed_tick, out,
          last_applied_tick, missed

primaryVars == <<engine, memory, dirty, tick, missed>>
ringVars == <<queue, last_pushed_tick>>
standbyVars == <<standby, out, last_applied_tick>>
streamVars == <<primaryVars, pc, batch, ringVars, standbyVars>>

-----------------------------------------------------------------------------
XorPage(p, q) == [i \in 1..PageSize |-> (p[i] \ q[i]) \cup (q[i] \ p[i])]

(* The first position from i on whose byte is (not) zero, or the end.      *)
SkipWhile(buf, i, zero) ==
  Min({j \in i..PageSize : (buf[j] = {}) # zero} \cup {PageSize + 1})

(* rle_encode: runs of zero bytes, each followed by a run of others.       *)
RleEncode(buf) ==
  LET from[i \in 1..(PageSize + 1)] ==
        IF i > PageSize THEN << >>
        ELSE LET lit == SkipWhile(buf, i, TRUE)
                 end == SkipWhile(buf, lit, FALSE)
             IN  <<[zero_run |-> lit - i, literal |-> SubSeq(buf, lit, end - 1)]>> \o from[end]
  IN  from[1]

(* Faults a maintainer could introduce, here a decoder that ignores a      *)
(* literal at the start of the page, serve only to show that the           *)
(* properties notice them.                                                 *)
PlaceRunNotAtStart(acc, r) ==
  LET pos == acc.pos + r.zero_run
      end == Min({pos + Len(r.literal), PageSize})
  IN  [pos |-> end,
       page |-> [i \in 1..PageSize |->
                   IF 0 < pos /\ pos < i /\ i <= end THEN r.literal[i - pos] ELSE acc.page[i]]]

(* One turn of rle_decode's loop: the literal is copied to where the run   *)
(* leaves room for it.                                                     *)
PlaceRun(acc, r) ==
  LET pos == acc.pos + r.zero_run
      end == Min({pos + Len(r.literal), PageSize})
  IN  [pos |-> end,
       page |-> [i \in 1..PageSize |->
                   IF pos < i /\ i <= end THEN r.literal[i - pos] ELSE acc.page[i]]]

RleDecode(runs) ==
  LET acc[k \in 0..Len(runs)] ==
        IF k = 0 THEN [pos |-> 0, page |-> ZeroPage] ELSE PlaceRun(acc[k - 1], runs[k])
  IN  acc[Len(runs)].page

EncodedLen(runs) ==
  LET sum[k \in 0..Len(runs)] ==
        IF k = 0 THEN 0 ELSE sum[k - 1] + RunHeader + Len(runs[k].literal)
  IN  sum[Len(runs)]

(* DeltaEngine::new and the entries that ensure_capacity adds.             *)
NewEngine == [baseline |-> [p \in Pages |-> ZeroPage], have_baseline |-> {}]

(* diff_and_commit's result: raw at first sight, or when RLE does not win. *)
Diff(e, p, current) ==
  LET runs == RleEncode(XorPage(e.baseline[p], current))
  IN  IF p \in e.have_baseline /\ EncodedLen(runs) < PageSize
      THEN [kind |-> "Xor", runs |-> runs]
      ELSE [kind |-> "Raw", bytes |-> current]

(* An apply that forgets the standby's own copy of the page.               *)
ApplyToZeroPage(e, p, delta) ==
  IF delta.kind = "Raw" THEN delta.bytes ELSE RleDecode(delta.runs)

(* DeltaEngine::apply: the reconstructed page.                             *)
Apply(e, p, delta) ==
  IF delta.kind = "Raw" THEN delta.bytes
  ELSE XorPage(IF p \in e.have_baseline THEN e.baseline[p] ELSE ZeroPage, RleDecode(delta.runs))

ApplyAll(e, deltas) ==
  [baseline |-> [p \in Pages |-> IF p \in DOMAIN deltas THEN Apply(e, p, deltas[p])
                                 ELSE e.baseline[p]],
   have_baseline |-> e.have_baseline \cup DOMAIN deltas]

-----------------------------------------------------------------------------
StreamInit ==
  /\ engine = NewEngine /\ standby = NewEngine
  /\ memory = [p \in Pages |-> ZeroPage] /\ dirty = {}
  /\ pc = "run" /\ batch = [tick |-> 0, deltas |-> << >>] /\ tick = 0
  /\ queue = << >> /\ last_pushed_tick = 0
  /\ out = << >> /\ last_applied_tick = 0
  /\ missed = {}

(* External: the flush of a cycle, as the note in run_one_cycle describes  *)
(* it.  The guest's writes of the quantum come first; every dirty page is  *)
(* diffed, and the engine's baseline moves on before anything is sent.     *)
Flush(writes) ==
  LET now == [p \in Pages |-> IF p \in DOMAIN writes THEN writes[p] ELSE memory[p]]
      pages == dirty \cup DOMAIN writes
      deltas == [p \in pages |-> Diff(engine, p, now[p])]
  IN  /\ pc = "run" /\ tick < MaxTick
      /\ tick' = tick + 1
      /\ memory' = now
      /\ dirty' = pages
      /\ batch' = [tick |-> tick', deltas |-> deltas]
      /\ engine' = [baseline |-> [p \in Pages |-> IF p \in pages THEN now[p] ELSE engine.baseline[p]],
                    have_baseline |-> engine.have_baseline \cup pages]
      /\ missed' = missed \ {p \in pages : deltas[p].kind = "Raw"}
      /\ pc' = "push"
      /\ UNCHANGED <<ringVars, standbyVars>>

(* A push that stores the tick before it knows whether the ring has room.  *)
PushRefusedAfterStore ==
  /\ pc = "push" /\ Len(queue) = Capacity
  /\ missed' = missed \cup DOMAIN batch.deltas
  /\ last_pushed_tick' = batch.tick
  /\ pc' = "run"
  /\ UNCHANGED <<engine, memory, dirty, tick, batch, queue, standbyVars>>

(* DeltaRing::push and DeltaRingProducer::push: the queue has no room, the *)
(* batch is dropped and the pages stay dirty ...                           *)
PushRefused ==
  /\ pc = "push" /\ Len(queue) = Capacity
  /\ missed' = missed \cup DOMAIN batch.deltas
  /\ pc' = "run"
  /\ UNCHANGED <<engine, memory, dirty, tick, batch, ringVars, standbyVars>>

(* ... or the batch is in the queue, where the consumer sees it at once,   *)
PushAccepted ==
  /\ pc = "push" /\ Len(queue) < Capacity
  /\ queue' = Append(queue, batch)
  /\ pc' = "store"
  /\ UNCHANGED <<primaryVars, batch, last_pushed_tick, standbyVars>>

(* and only then is its tick stored; the caller clears the dirty pages.    *)
StoreTick ==
  /\ pc = "store"
  /\ last_pushed_tick' = batch.tick
  /\ dirty' = {}
  /\ pc' = "run"
  /\ UNCHANGED <<engine, memory, tick, missed, batch, queue, standbyVars>>

(* A drain that leaves the newest batch in the ring.                       *)
PopAllButOne ==
  /\ Len(queue) > 1
  /\ out' = Append(out, Head(queue))
  /\ queue' = Tail(queue)
  /\ UNCHANGED <<primaryVars, pc, batch, last_pushed_tick, standby, last_applied_tick>>

(* One turn of drain's loop, on the consumer's thread.                     *)
Pop ==
  /\ queue # << >>
  /\ out' = Append(out, Head(queue))
  /\ queue' = Tail(queue)
  /\ UNCHANGED <<primaryVars, pc, batch, last_pushed_tick, standby, last_applied_tick>>

(* The standby applies the oldest batch that was drained.                  *)
ApplyBatch ==
  /\ out # << >>
  /\ standby' = ApplyAll(standby, Head(out).deltas)
  /\ last_applied_tick' = Head(out).tick
  /\ out' = Tail(out)
  /\ UNCHANGED <<primaryVars, pc, batch, ringVars>>

Writes == UNION {[written -> Images] : written \in SUBSET Pages}

StreamNext ==
  \/ \E writes \in Writes : Flush(writes)
  \/ PushRefused \/ PushAccepted \/ StoreTick
  \/ Pop \/ ApplyBatch

(* The dispatch thread finishes a push it began, the streaming task polls, *)
(* the standby consumes; that there is a next flush is not assumed.        *)
StreamSpec ==
  /\ StreamInit /\ [][StreamNext]_streamVars
  /\ WF_streamVars(PushRefused \/ PushAccepted \/ StoreTick)
  /\ WF_streamVars(Pop)
  /\ WF_streamVars(ApplyBatch)
-----------------------------------------------------------------------------
(* delta.rs:86-187: whenever the standby has caught up and whatever page   *)
(* the guest produces next, wherever its zero runs begin and end, the      *)
(* delta that is sent for it gives exactly that page at the standby, and   *)
(* is never larger than the page.                                          *)
NextDeltaIsExact ==
  (pc = "run" /\ tick < MaxTick /\ out = << >> /\ queue = << >>) =>
    \A p \in Pages \ missed, current \in Page :
      LET delta == Diff(engine, p, current)
      IN  /\ Apply(standby, p, delta) = current
          /\ delta.kind = "Xor" => EncodedLen(delta.runs) <= PageSize

Undelivered == out \o queue \o (IF pc = "push" THEN <<batch>> ELSE << >>)

(* delta.rs:114, the baseline moves on when a delta is made, not when it   *)
(* arrives.  Still, for every page but those whose last delta the ring     *)
(* refused, the standby's copy and the deltas under way give, applied in   *)
(* order, the page the primary has: a raw delta heals a page that missed   *)
(* one, an XOR delta does not.                                             *)
StandbyReconstructs ==
  LET after[i \in 0..Len(Undelivered)] ==
        IF i = 0 THEN standby ELSE ApplyAll(after[i - 1], Undelivered[i].deltas)
  IN  \A p \in Pages \ missed : after[Len(Undelivered)].baseline[p] = memory[p]

Newest ==
  LET s == out \o queue
  IN  IF s = << >> THEN last_applied_tick ELSE s[Len(s)].tick

(* lib.rs:50, "Highest tick successfully pushed": last_pushed_tick is the  *)
(* newest batch the ring ever accepted, except between the two steps of a  *)
(* push, when the consumer may have that batch, or even have applied it,   *)
(* and last_pushed_tick is still older.                                    *)
LastPushedIsNewest ==
  IF pc = "store" THEN last_pushed_tick < Newest /\ Newest = batch.tick
                  ELSE last_pushed_tick = Newest

(* Once the primary makes no more flushes, every page that did not miss a  *)
(* delta is on the standby as the primary has it: nothing is left in the   *)
(* ring, whenever the consumer looks.                                      *)
StandbyCatchesUp ==
  <>[](\A p \in Pages \ missed : standby.baseline[p] = memory[p])
=============================================================================
