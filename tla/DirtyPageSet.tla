---------------------------- MODULE DirtyPageSet -----------------------------
(***************************************************************************)
(* The dirty-page bitmap of chronos-mem (dirty.rs) as pure operators.  A   *)
(* bitmap is [bits, capacity_pages, count]; a word of bits is the set of   *)
(* bit positions that are 1.                                               *)
(***************************************************************************)
EXTENDS Retain

CONSTANT WordBits   \* 64 in the code

ASSUME WordAssumption == WordBits \in Nat \ {0}

Words(capacity) ==
  LET words == (capacity + WordBits - 1) \div WordBits
  IN  IF words = 0 THEN 1 ELSE words

(* DirtyPageSet::new                                                       *)
NewDirtySet(capacity) ==
  [ bits |-> [w \in 0..(Words(capacity) - 1) |-> {}],
    capacity_pages |-> capacity,
    count |-> 0 ]

(* A fault a maintainer could introduce: counting a page twice.            *)
MarkCountingTwice(d, page_idx) ==
  [d EXCEPT !.bits[page_idx \div WordBits] = @ \cup {page_idx % WordBits},
            !.count = @ + 1]

(* DirtyPageSet::mark; outside the words it would panic.                   *)
Mark(d, page_idx) ==
  LET word == page_idx \div WordBits
      bit == page_idx % WordBits
  IN  IF bit \in d.bits[word] THEN d
      ELSE [d EXCEPT !.bits[word] = @ \cup {bit}, !.count = @ + 1]

(* DirtyPageSet::is_dirty; a page beyond the words is clean.               *)
IsDirty(d, page_idx) ==
  /\ page_idx \div WordBits \in DOMAIN d.bits
  /\ page_idx % WordBits \in d.bits[page_idx \div WordBits]

(* DirtyPageSet::iter_dirty: word by word, bit by bit.                     *)
IterDirty(d) ==
  LET scan == [i \in 1..(Words(d.capacity_pages) * WordBits) |-> i - 1]
  IN  RetainIn(scan, {p \in 0..(Words(d.capacity_pages) * WordBits - 1) :
                        p % WordBits \in d.bits[p \div WordBits]})

(* DirtyPageSet::clear_all                                                 *)
ClearAll(d) == [d EXCEPT !.bits = [w \in DOMAIN d.bits |-> {}], !.count = 0]
=============================================================================
