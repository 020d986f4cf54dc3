------------------------- MODULE GuardedMemoryProofs --------------------------
(***************************************************************************)
(* Every range translate approves lies in the region, and the dirty bitmap *)
(* is exactly the pages written, for every page size, width of u32 and     *)
(* width of a bitmap word.                                                 *)
(***************************************************************************)
EXTENDS GuardedMemory, InductionLemmas, FiniteSetTheorems

(* What the bounds argument rests on: natural sizes and the chain of       *)
(* inequalities of the SAFETY comment in translate.                        *)
BoundsInv ==
  /\ size_bytes \in U32Values /\ quota_bytes \in U32Values
  /\ guard_start \in Nat /\ approved_end \in Nat
  /\ AccessesStayInside

(* Rounding a quota up to whole pages never makes it smaller.              *)
LEMMA RoundingUp ==
  ASSUME NEW quota \in Nat
  PROVE  QuotaPages(quota) * PageSize \in Nat /\ quota <= QuotaPages(quota) * PageSize
<1>. DEFINE n == quota + PageSize - 1
<1>1. PageSize \in Nat /\ PageSize > 0
  BY SizeAssumption
<1>2. n \in Nat
  BY <1>1
<1>3. n \div PageSize \in Nat
  BY <1>1, <1>2
<1>4. n < PageSize * (n \div PageSize) + PageSize
  BY <1>1, <1>2
<1>. QED
  BY <1>1, <1>3, <1>4 DEF QuotaPages

(* Growth that fits the quota does not wrap: the sum is formed in u64 and  *)
(* is below 2^32 when it is narrowed.                                      *)
LEMMA GrowthIsExact ==
  ASSUME BoundsInv, NEW delta_pages \in U32Values, GrownSize(delta_pages) <= quota_bytes
  PROVE  /\ GrownSize(delta_pages) % U32 = GrownSize(delta_pages)
         /\ GrownSize(delta_pages) \in U32Values
         /\ size_bytes <= GrownSize(delta_pages)
<1>1. PageSize \in Nat /\ U32 \in Nat \ {0}
  BY SizeAssumption
<1>2. delta_pages * PageSize \in Nat
  BY <1>1 DEF U32Values
<1>3. GrownSize(delta_pages) \in Nat /\ size_bytes <= GrownSize(delta_pages)
  BY <1>1, <1>2 DEF GrownSize, BoundsInv, U32Values
<1>4. GrownSize(delta_pages) < U32
  BY <1>1, <1>3 DEF BoundsInv, U32Values
<1>5. \A n \in Nat : n < U32 => n % U32 = n
  BY <1>1
<1>. QED
  BY <1>1, <1>3, <1>4, <1>5 DEF U32Values

(* Before new() there is no region and nothing was approved.               *)
LEMMA BoundsInit == MemInit => BoundsInv
  BY SizeAssumption DEF MemInit, BoundsInv, AccessesStayInside, U32Values

(* Each call keeps the chain: new() checks the initial size against the   *)
(* quota, translate the range against the size, grow the sum against the   *)
(* quota.                                                                  *)
LEMMA BoundsStep == BoundsInv /\ [MemNext]_memVars => BoundsInv'
<1>. SUFFICES ASSUME BoundsInv, [MemNext]_memVars PROVE BoundsInv'
  OBVIOUS
<1>0. PageSize \in Nat /\ U32 \in Nat \ {0}
  BY SizeAssumption
<1>. USE DEF BoundsInv, AccessesStayInside
<1>1. ASSUME NEW initial \in U32Values, NEW quota \in U32Values, New(initial, quota)
      PROVE  BoundsInv'
  <2>1. quota \in Nat
    BY <1>0 DEF U32Values
  <2>2. QuotaPages(quota) * PageSize \in Nat /\ quota <= QuotaPages(quota) * PageSize
    BY <2>1, RoundingUp
  <2>. QED
    BY <1>0, <1>1, <2>2 DEF New, U32Values
<1>2. ASSUME NEW guest_ptr \in U32Values, NEW len \in U32Values,
             Load(guest_ptr, len) \/ Store(guest_ptr, len)
      PROVE  BoundsInv'
  <2>1. guest_ptr + len \in Nat
    BY <1>0 DEF U32Values
  <2>. QED
    BY <1>0, <1>2, <2>1 DEF Load, Store, Approved, Larger, regionVars, U32Values
<1>3. ASSUME NEW delta_pages \in U32Values, Grow(delta_pages)
      PROVE  BoundsInv'
  <2>1. size_bytes' = GrownSize(delta_pages) /\ size_bytes' \in U32Values
        /\ size_bytes <= size_bytes'
    BY <1>3, GrowthIsExact DEF Grow
  <2>. QED
    BY <1>0, <1>3, <2>1 DEF Grow, guestVars, U32Values
<1>4. CASE DropMemory
  BY <1>0, <1>4 DEF DropMemory, U32Values
<1>5. CASE UNCHANGED <<size_bytes, quota_bytes, guard_start, approved_end>>
  BY <1>5
<1>. QED
  BY <1>1, <1>2, <1>3, <1>4, <1>5
  DEF MemNext, memVars, regionVars, guestVars, NewOverQuota, NewFails, OutOfBounds, MarkDirty,
      GrowOverQuota, Flush

(* guarded_memory.rs:191-212: whatever sizes, quotas, pointers, lengths    *)
(* and growths occur, every range that translate ever approved is within   *)
(* the committed size, the quota, and short of the guard page.             *)
THEOREM ApprovedAccessesAreInside == MemSpec => []AccessesStayInside
<1>1. BoundsInv => AccessesStayInside
  BY DEF BoundsInv
<1>. QED
  BY <1>1, BoundsInit, BoundsStep, PTL DEF MemSpec

-----------------------------------------------------------------------------
(* The bitmap of a region: a page is a bit of a word.                      *)
Bitmaps(capacity) ==
  [ bits : [0..(Words(capacity) - 1) -> SUBSET (0..(WordBits - 1))],
    capacity_pages : {capacity},
    count : Nat ]

Tracked(capacity) == 0..(Words(capacity) * WordBits - 1)

DirtyPages(d) == {p \in Tracked(d.capacity_pages) : p % WordBits \in d.bits[p \div WordBits]}

(* A page below the capacity has a bit of its own.                         *)
LEMMA CapacityIsTracked ==
  ASSUME NEW capacity \in Nat
  PROVE  /\ Words(capacity) \in Nat \ {0} /\ Words(capacity) * WordBits \in Nat
         /\ capacity <= Words(capacity) * WordBits
         /\ \A p \in Nat : p < capacity => p \in Tracked(capacity)
<1>. DEFINE n == capacity + WordBits - 1
<1>1. WordBits \in Nat /\ WordBits > 0
  BY WordAssumption
<1>2. n \in Nat
  BY <1>1
<1>3. n \div WordBits \in Nat
  BY <1>1, <1>2
<1>4. n < WordBits * (n \div WordBits) + WordBits
  BY <1>1, <1>2
<1>5. Words(capacity) = IF n \div WordBits = 0 THEN 1 ELSE n \div WordBits
  BY DEF Words
<1>. HIDE DEF n
<1>6. capacity <= (n \div WordBits) * WordBits
  BY <1>1, <1>3, <1>4 DEF n
<1>7. Words(capacity) \in Nat \ {0} /\ Words(capacity) * WordBits \in Nat
      /\ capacity <= Words(capacity) * WordBits
  <2>1. CASE n \div WordBits = 0
    BY <1>1, <1>5, <1>6, <2>1
  <2>2. CASE n \div WordBits # 0
    BY <1>1, <1>3, <1>5, <1>6, <2>2
  <2>. QED
    BY <2>1, <2>2
<1>. QED
  BY <1>7 DEF Tracked

(* Word and bit of a page, and that no other page has them.                *)
LEMMA WordAndBit ==
  ASSUME NEW W \in Nat, NEW p \in 0..(W * WordBits - 1)
  PROVE  /\ p \in Nat /\ p \div WordBits \in 0..(W - 1) /\ p % WordBits \in 0..(WordBits - 1)
         /\ p = WordBits * (p \div WordBits) + (p % WordBits)
<1>1. WordBits \in Nat /\ WordBits > 0
  BY WordAssumption
<1>2. p \in Nat /\ p < W * WordBits
  BY <1>1
<1>3. p \div WordBits \in Nat /\ p % WordBits \in 0..(WordBits - 1)
  BY <1>1, <1>2
<1>4. p = WordBits * (p \div WordBits) + (p % WordBits)
  BY <1>1, <1>2
<1>5. p \div WordBits < W
  <2>. DEFINE q == p \div WordBits
  <2>1. WordBits * q <= p
    BY <1>1, <1>2, <1>3, <1>4
  <2>. HIDE DEF q
  <2>2. q \in Nat
    BY <1>3 DEF q
  <2>3. ASSUME q >= W PROVE FALSE
    BY <1>1, <1>2, <2>1, <2>2, <2>3
  <2>. QED
    BY <2>2, <2>3 DEF q
<1>. QED
  BY <1>2, <1>3, <1>4, <1>5

(* What mark does to the set of dirty pages and to the count.              *)
LEMMA MarkAddsThePage ==
  ASSUME NEW capacity \in Nat, NEW d \in Bitmaps(capacity), NEW page \in Tracked(capacity)
  PROVE  /\ Mark(d, page) \in Bitmaps(capacity)
         /\ DirtyPages(Mark(d, page)) = DirtyPages(d) \cup {page}
         /\ Mark(d, page).count = IF page \in DirtyPages(d) THEN d.count ELSE d.count + 1
<1>. DEFINE word == page \div WordBits
            bit == page % WordBits
            W == Words(capacity)
            e == Mark(d, page)
<1>1. W \in Nat
  BY CapacityIsTracked
<1>2. word \in 0..(W - 1) /\ bit \in 0..(WordBits - 1)
  BY <1>1, WordAndBit DEF Tracked
<1>3. /\ d.capacity_pages = capacity /\ d.count \in Nat
      /\ d.bits \in [0..(W - 1) -> SUBSET (0..(WordBits - 1))]
  BY DEF Bitmaps
<1>4. page \in DirtyPages(d) <=> bit \in d.bits[word]
  BY <1>3 DEF DirtyPages
<1>5. e = IF bit \in d.bits[word] THEN d
          ELSE [d EXCEPT !.bits[word] = @ \cup {bit}, !.count = @ + 1]
  BY DEF Mark
<1>6. CASE bit \in d.bits[word]
  <2>1. e = d
    BY <1>5, <1>6
  <2>. HIDE DEF e
  <2>2. DirtyPages(e) = DirtyPages(d) \cup {page}
    BY <1>4, <1>6, <2>1
  <2>. QED
    BY <1>4, <1>6, <2>1, <2>2 DEF e
<1>7. CASE bit \notin d.bits[word]
  <2>1. e = [d EXCEPT !.bits[word] = @ \cup {bit}, !.count = @ + 1]
    BY <1>5, <1>7
  <2>. HIDE DEF e, word, bit, W
  <2>2. /\ e.capacity_pages = capacity /\ e.count = d.count + 1
        /\ e.bits = [d.bits EXCEPT ![word] = @ \cup {bit}]
    BY <1>3, <2>1 DEF Bitmaps
  <2>3. e.bits \in [0..(W - 1) -> SUBSET (0..(WordBits - 1))]
    <3>1. d.bits[word] \cup {bit} \in SUBSET (0..(WordBits - 1))
      BY <1>2, <1>3
    <3>. QED
      BY <1>3, <2>2, <3>1
  <2>4. e \in Bitmaps(capacity)
    <3>1. e = [bits |-> e.bits, capacity_pages |-> e.capacity_pages, count |-> e.count]
      BY <2>1 DEF Bitmaps
    <3>2. e.bits \in [0..(Words(capacity) - 1) -> SUBSET (0..(WordBits - 1))]
      BY <2>3 DEF W
    <3>3. e.capacity_pages \in {capacity} /\ e.count \in Nat
      BY <1>3, <2>2
    <3>. QED
      BY <3>1, <3>2, <3>3, Zenon DEF Bitmaps
  <2>5. ASSUME NEW p \in Tracked(capacity)
        PROVE  p % WordBits \in e.bits[p \div WordBits]
               <=> p = page \/ p % WordBits \in d.bits[p \div WordBits]
    <3>1. p \div WordBits \in 0..(W - 1) /\ p % WordBits \in 0..(WordBits - 1)
          /\ p = WordBits * (p \div WordBits) + (p % WordBits)
      BY <1>1, WordAndBit DEF Tracked, W
    <3>2. page = WordBits * word + bit
      BY <1>1, WordAndBit DEF Tracked, W, word, bit
    <3>3. CASE p \div WordBits # word
      <4>1. p # page
        BY <3>3 DEF word
      <4>2. e.bits[p \div WordBits] = d.bits[p \div WordBits]
        BY <1>3, <2>2, <3>1, <3>3
      <4>. QED
        BY <4>1, <4>2
    <3>4. CASE p \div WordBits = word
      <4>1. e.bits[word] = d.bits[word] \cup {bit}
        BY <1>2, <1>3, <2>2
      <4>2. p % WordBits = bit <=> p = page
        <5>1. p = page => p % WordBits = bit
          BY DEF bit
        <5>2. p % WordBits = bit => p = page
          BY <3>1, <3>2, <3>4
        <5>. QED
          BY <5>1, <5>2
      <4>. QED
        BY <3>4, <4>1, <4>2
    <3>. QED
      BY <3>3, <3>4
  <2>6. DirtyPages(e) = DirtyPages(d) \cup {page}
    BY <1>3, <2>2, <2>5 DEF DirtyPages
  <2>. QED
    BY <1>4, <1>7, <2>2, <2>4, <2>6 DEF e, bit, word
<1>. QED
  BY <1>6, <1>7

(* A bitmap has finitely many dirty pages, and a new or cleared one none.  *)
LEMMA DirtyPagesFinite ==
  ASSUME NEW capacity \in Nat, NEW d \in Bitmaps(capacity)
  PROVE  IsFiniteSet(DirtyPages(d)) /\ DirtyPages(d) \subseteq Nat
<1>1. Words(capacity) * WordBits - 1 \in Int /\ 0 \in Int
  BY CapacityIsTracked
<1>2. IsFiniteSet(Tracked(capacity))
  BY <1>1, FS_Interval DEF Tracked
<1>3. DirtyPages(d) \in SUBSET Tracked(capacity)
  BY DEF DirtyPages, Bitmaps
<1>4. Tracked(capacity) \subseteq Nat
  BY DEF Tracked
<1>. QED
  BY <1>2, <1>3, <1>4, FS_Subset

LEMMA NoDirtyPages ==
  ASSUME NEW capacity \in Nat
  PROVE  /\ NewDirtySet(capacity) \in Bitmaps(capacity)
         /\ DirtyPages(NewDirtySet(capacity)) = {}
         /\ NewDirtySet(capacity).count = 0
         /\ NewDirtySet(capacity).capacity_pages = capacity
         /\ \A d \in Bitmaps(capacity) :
              ClearAll(d) \in Bitmaps(capacity) /\ DirtyPages(ClearAll(d)) = {} /\ ClearAll(d).count = 0
<1>1. Words(capacity) \in Nat
  BY CapacityIsTracked
<1>2. ASSUME NEW e, e.capacity_pages = capacity, e.bits = [w \in 0..(Words(capacity) - 1) |-> {}]
      PROVE  DirtyPages(e) = {}
  <2>1. \A p \in Tracked(capacity) : p \div WordBits \in 0..(Words(capacity) - 1)
    BY <1>1, WordAndBit DEF Tracked
  <2>. QED
    BY <1>2, <2>1 DEF DirtyPages
<1>3. ASSUME NEW d \in Bitmaps(capacity)
      PROVE  /\ ClearAll(d) \in Bitmaps(capacity) /\ ClearAll(d).count = 0
             /\ ClearAll(d).capacity_pages = capacity
             /\ ClearAll(d).bits = [w \in 0..(Words(capacity) - 1) |-> {}]
  BY DEF Bitmaps, ClearAll
<1>4. /\ NewDirtySet(capacity) \in Bitmaps(capacity) /\ NewDirtySet(capacity).count = 0
      /\ NewDirtySet(capacity).capacity_pages = capacity
      /\ NewDirtySet(capacity).bits = [w \in 0..(Words(capacity) - 1) |-> {}]
  BY DEF Bitmaps, NewDirtySet
<1>. QED
  BY <1>2, <1>3, <1>4

-----------------------------------------------------------------------------
(* What iter_dirty yields: the dirty pages, ascending, as many as len().   *)
LEMMA IterDirtyFacts ==
  ASSUME NEW capacity \in Nat, NEW d \in Bitmaps(capacity)
  PROVE  LET listed == IterDirty(d)
         IN  /\ Len(listed) \in Nat
             /\ {listed[i] : i \in 1..Len(listed)} = DirtyPages(d)
             /\ \A i, j \in 1..Len(listed) : i < j => listed[i] < listed[j]
             /\ Cardinality(DirtyPages(d)) = Len(listed)
<1>. DEFINE N == Words(capacity) * WordBits
            scan == [i \in 1..N |-> i - 1]
            r == RetainIn(scan, DirtyPages(d))
<1>1. N \in Nat
  BY CapacityIsTracked
<1>2. IterDirty(d) = r
  BY DEF IterDirty, DirtyPages, Tracked, Bitmaps
<1>. HIDE DEF N
<1>3. scan \in Seq(Nat) /\ Len(scan) = N
  <2>1. scan \in [1..N -> Nat]
    BY <1>1
  <2>. QED
    BY <1>1, <2>1
<1>4. \A p \in DirtyPages(d) : p + 1 \in 1..N /\ scan[p + 1] = p
  <2>1. \A p \in DirtyPages(d) : p \in 0..(N - 1)
    BY DEF DirtyPages, Tracked, Bitmaps, N
  <2>. QED
    BY <1>1, <2>1
<1>5. \A i \in 1..N : scan[i] = i - 1
  OBVIOUS
<1>. HIDE DEF scan
<1>6. r \in Seq(Nat) /\ \E at : Lists(r, at, scan, DirtyPages(d), N)
  BY <1>3, RetainFacts
<1>7. PICK at : Lists(r, at, scan, DirtyPages(d), N)
  BY <1>6
<1>. HIDE DEF r
<1>8. Len(r) \in Nat
  BY <1>6
<1>9. \A i, j \in 1..Len(r) : i < j => r[i] < r[j]
  <2>. SUFFICES ASSUME NEW i \in 1..Len(r), NEW j \in 1..Len(r), i < j PROVE r[i] < r[j]
    OBVIOUS
  <2>1. at[i] \in 1..N /\ at[j] \in 1..N /\ at[i] < at[j]
        /\ r[i] = scan[at[i]] /\ r[j] = scan[at[j]]
    BY <1>7 DEF Lists
  <2>. QED
    BY <1>1, <1>5, <2>1
<1>10. \A i \in 1..Len(r) : r[i] \in DirtyPages(d)
  BY <1>7 DEF Lists
<1>11. \A p \in DirtyPages(d) : \E i \in 1..Len(r) : r[i] = p
  <2>. SUFFICES ASSUME NEW p \in DirtyPages(d) PROVE \E i \in 1..Len(r) : r[i] = p
    OBVIOUS
  <2>1. PICK j \in 1..Len(r) : at[j] = p + 1
    BY <1>4, <1>7 DEF Lists
  <2>. QED
    BY <1>4, <1>7, <2>1 DEF Lists
<1>12. Cardinality(DirtyPages(d)) = Len(r)
  <2>1. DOMAIN r = 1..Len(r) /\ r = [i \in 1..Len(r) |-> r[i]]
    BY <1>6
  <2>2. r \in [1..Len(r) -> DirtyPages(d)]
    BY <1>10, <2>1
  <2>3. \A i, j \in 1..Len(r) : r[i] = r[j] => i = j
    <3>1. \A i \in 1..Len(r) : r[i] \in Nat
      BY <1>6
    <3>. QED
      BY <1>8, <1>9, <3>1
  <2>4. r \in Bijection(1..Len(r), DirtyPages(d))
    BY <1>11, <2>2, <2>3 DEF Bijection, Injection, Surjection, IsInjective
  <2>5. ExistsBijection(1..Len(r), DirtyPages(d))
    BY <2>4 DEF ExistsBijection
  <2>. QED
    BY <1>8, <2>5, FS_CountingElements
<1>. QED
  BY <1>2, <1>8, <1>9, <1>10, <1>11, <1>12

(* The bitmap and the pages that still have to be marked make up what was  *)
(* written, and all of it lies in the committed part of the region.        *)
MemInv ==
  /\ BoundsInv
  /\ mapped \in BOOLEAN
  /\ dirty.capacity_pages \in Nat /\ dirty \in Bitmaps(dirty.capacity_pages)
  /\ guard_start = dirty.capacity_pages * PageSize
  /\ \A p \in written : p \in Nat /\ p * PageSize < size_bytes
  /\ unmarked \subseteq written
  /\ DirtyPages(dirty) \subseteq written /\ written \subseteq DirtyPages(dirty) \cup unmarked
  /\ dirty.count = Cardinality(DirtyPages(dirty))

(* Pages before the end of a region of whole pages end within it.          *)
LEMMA PagesFit ==
  ASSUME NEW p \in Nat, NEW n \in Nat, NEW size \in Nat,
         p * PageSize < size, size <= n * PageSize
  PROVE  /\ p < n /\ (p + 1) * PageSize <= n * PageSize
         /\ size % PageSize = 0 => (p + 1) * PageSize <= size
<1>1. PageSize \in Nat /\ PageSize > 0
  BY SizeAssumption
<1>2. \A m \in Nat : p * PageSize < m * PageSize => p < m /\ (p + 1) * PageSize <= m * PageSize
  <2>. SUFFICES ASSUME NEW m \in Nat, p * PageSize < m * PageSize
                PROVE  p < m /\ (p + 1) * PageSize <= m * PageSize
    OBVIOUS
  <2>1. p < m
    <3>. SUFFICES ASSUME m <= p PROVE FALSE
      OBVIOUS
    <3>1. m * PageSize <= p * PageSize
      BY <1>1
    <3>. QED
      BY <1>1, <3>1
  <2>2. p + 1 <= m
    BY <2>1
  <2>. QED
    BY <1>1, <2>1, <2>2
<1>3. p * PageSize \in Nat /\ n * PageSize \in Nat
  BY <1>1
<1>4. p * PageSize < n * PageSize
  BY <1>3
<1>5. ASSUME size % PageSize = 0 PROVE (p + 1) * PageSize <= size
  <2>1. size \div PageSize \in Nat /\ size = (size \div PageSize) * PageSize
    BY <1>1, <1>5
  <2>. QED
    BY <1>2, <2>1
<1>. QED
  BY <1>2, <1>4, <1>5

(* Before new() nothing is mapped, tracked or written.                     *)
LEMMA MemInvInit == MemInit => MemInv
<1>. SUFFICES ASSUME MemInit PROVE MemInv
  OBVIOUS
<1>1. BoundsInv
  BY BoundsInit
<1>2. /\ dirty \in Bitmaps(0) /\ DirtyPages(dirty) = {} /\ dirty.count = 0
      /\ dirty.capacity_pages = 0
  BY NoDirtyPages DEF MemInit
<1>3. guard_start = dirty.capacity_pages * PageSize
  BY <1>2, SizeAssumption DEF MemInit
<1>4. dirty.capacity_pages \in Nat /\ dirty \in Bitmaps(dirty.capacity_pages)
  BY <1>2
<1>5. dirty.count = Cardinality(DirtyPages(dirty))
  BY <1>2, FS_EmptySet
<1>. QED
  BY <1>1, <1>2, <1>3, <1>4, <1>5 DEF MemInv, MemInit

(* Each call keeps it: a store names the pages it leaves unmarked, mark    *)
(* moves one of them into the bitmap, the flush forgets both sides at once.*)
LEMMA MemInvStep == MemInv /\ [MemNext]_memVars => MemInv'
<1>. SUFFICES ASSUME MemInv, [MemNext]_memVars PROVE MemInv'
  OBVIOUS
<1>0. /\ PageSize \in Nat /\ PageSize > 0 /\ U32 \in Nat \ {0}
      /\ BoundsInv /\ BoundsInv'
  BY SizeAssumption, BoundsStep DEF MemInv
<1>1. ASSUME NEW initial \in U32Values, NEW quota \in U32Values, New(initial, quota)
      PROVE  MemInv'
  <2>. DEFINE n == QuotaPages(quota)
  <2>1. quota \in Nat
    BY <1>0 DEF U32Values
  <2>2. n \in Nat
    BY <1>0, <2>1 DEF QuotaPages
  <2>. HIDE DEF n
  <2>3. (n * PageSize) \div PageSize = n
    BY <1>0, <2>2
  <2>4. /\ guard_start' = n * PageSize /\ dirty' = NewDirtySet(n) /\ mapped' = TRUE
        /\ unmarked' = {} /\ written' = {}
    BY <1>1, <2>3 DEF New, n
  <2>5. /\ dirty' \in Bitmaps(n) /\ DirtyPages(dirty') = {} /\ dirty'.count = 0
        /\ dirty'.capacity_pages = n
    BY <2>2, <2>4, NoDirtyPages
  <2>. QED
    BY <1>0, <2>2, <2>4, <2>5, FS_EmptySet DEF MemInv
<1>2. ASSUME NEW guest_ptr \in U32Values, NEW len \in U32Values, Store(guest_ptr, len)
      PROVE  MemInv'
  <2>1. /\ Approved(guest_ptr, len) /\ UNCHANGED <<mapped, guard_start, size_bytes, dirty>>
        /\ unmarked' = unmarked \cup PagesOf(guest_ptr, len)
        /\ written' = written \cup PagesOf(guest_ptr, len)
    BY <1>2 DEF Store, regionVars
  <2>2. ASSUME NEW b \in guest_ptr..(guest_ptr + len - 1)
        PROVE  b \div PageSize \in Nat /\ (b \div PageSize) * PageSize < size_bytes
    <3>1. b \in Nat /\ b < size_bytes /\ size_bytes \in Nat
      BY <1>0, <2>1 DEF Approved, U32Values, BoundsInv
    <3>2. b \div PageSize \in Nat /\ (b \div PageSize) * PageSize <= b
      BY <1>0, <3>1
    <3>. QED
      BY <1>0, <3>1, <3>2
  <2>3. \A p \in PagesOf(guest_ptr, len) : p \in Nat /\ p * PageSize < size_bytes
    BY <2>2 DEF PagesOf
  <2>. QED
    BY <1>0, <2>1, <2>3 DEF MemInv
<1>3. ASSUME NEW page_idx \in unmarked, MarkDirty(page_idx) PROVE MemInv'
  <2>. DEFINE n == dirty.capacity_pages
  <2>1. /\ dirty' = Mark(dirty, page_idx) /\ unmarked' = unmarked \ {page_idx}
        /\ UNCHANGED <<mapped, guard_start, size_bytes, written>>
    BY <1>3 DEF MarkDirty
  <2>2. n \in Nat /\ dirty \in Bitmaps(n) /\ page_idx \in written /\ guard_start = n * PageSize
    BY DEF MemInv
  <2>3. page_idx \in Nat /\ page_idx * PageSize < size_bytes
        /\ size_bytes \in Nat /\ size_bytes <= n * PageSize
    BY <1>0, <2>2 DEF MemInv, BoundsInv, AccessesStayInside, U32Values
  <2>. HIDE DEF n
  <2>4. page_idx < n
    BY <2>2, <2>3, PagesFit
  <2>5. page_idx \in Tracked(n)
    BY <2>2, <2>3, <2>4, CapacityIsTracked
  <2>6. /\ dirty' \in Bitmaps(n)
        /\ DirtyPages(dirty') = DirtyPages(dirty) \cup {page_idx}
        /\ dirty'.count = IF page_idx \in DirtyPages(dirty) THEN dirty.count ELSE dirty.count + 1
    BY <2>1, <2>2, <2>5, MarkAddsThePage
  <2>7. dirty'.capacity_pages = n
    BY <2>6 DEF Bitmaps
  <2>8. IsFiniteSet(DirtyPages(dirty))
    BY <2>2, DirtyPagesFinite
  <2>9. dirty'.count = Cardinality(DirtyPages(dirty'))
    <3>1. dirty.count = Cardinality(DirtyPages(dirty))
      BY DEF MemInv
    <3>2. Cardinality(DirtyPages(dirty) \cup {page_idx})
            = IF page_idx \in DirtyPages(dirty) THEN Cardinality(DirtyPages(dirty))
              ELSE Cardinality(DirtyPages(dirty)) + 1
      BY <2>8, FS_AddElement
    <3>. QED
      BY <2>6, <3>1, <3>2
  <2>. QED
    BY <1>0, <2>1, <2>2, <2>6, <2>7, <2>9 DEF MemInv
<1>4. ASSUME NEW delta_pages \in U32Values, Grow(delta_pages) PROVE MemInv'
  <2>1. size_bytes' = GrownSize(delta_pages) /\ size_bytes <= size_bytes' /\ size_bytes' \in Nat
    BY <1>0, <1>4, GrowthIsExact DEF Grow, BoundsInv, U32Values
  <2>2. UNCHANGED <<mapped, guard_start, dirty, unmarked, written>>
    BY <1>4 DEF Grow, guestVars
  <2>3. \A p \in written : p * PageSize < size_bytes'
    <3>1. \A p \in written : p * PageSize \in Nat /\ p * PageSize < size_bytes
      BY <1>0 DEF MemInv
    <3>2. size_bytes \in Nat
      BY <1>0 DEF BoundsInv, U32Values
    <3>. QED
      BY <2>1, <3>1, <3>2
  <2>. QED
    BY <1>0, <2>2, <2>3 DEF MemInv
<1>5. CASE Flush
  <2>. DEFINE n == dirty.capacity_pages
  <2>1. /\ dirty' = ClearAll(dirty) /\ unmarked = {} /\ written' = {}
        /\ UNCHANGED <<mapped, guard_start, size_bytes, unmarked>>
    BY <1>5 DEF Flush
  <2>2. n \in Nat /\ dirty \in Bitmaps(n) /\ guard_start = n * PageSize
    BY DEF MemInv
  <2>. HIDE DEF n
  <2>3. dirty' \in Bitmaps(n) /\ DirtyPages(dirty') = {} /\ dirty'.count = 0
    BY <2>1, <2>2, NoDirtyPages
  <2>4. dirty'.capacity_pages = n
    BY <2>3 DEF Bitmaps
  <2>. QED
    BY <1>0, <2>1, <2>2, <2>3, <2>4, FS_EmptySet DEF MemInv
<1>6. CASE DropMemory
  <2>1. /\ dirty' = NewDirtySet(0) /\ guard_start' = 0 /\ mapped' = FALSE
        /\ unmarked' = {} /\ written' = {}
    BY <1>6 DEF DropMemory
  <2>2. /\ dirty' \in Bitmaps(0) /\ DirtyPages(dirty') = {} /\ dirty'.count = 0
        /\ dirty'.capacity_pages = 0
    BY <2>1, NoDirtyPages
  <2>3. guard_start' = dirty'.capacity_pages * PageSize
    BY <1>0, <2>1, <2>2
  <2>4. dirty'.capacity_pages \in Nat /\ dirty' \in Bitmaps(dirty'.capacity_pages)
    BY <2>2
  <2>5. dirty'.count = Cardinality(DirtyPages(dirty'))
    BY <2>2, FS_EmptySet
  <2>. QED
    BY <1>0, <2>1, <2>2, <2>3, <2>4, <2>5 DEF MemInv
<1>7. CASE UNCHANGED <<mapped, guard_start, size_bytes, dirty, unmarked, written>>
  BY <1>0, <1>7 DEF MemInv
<1>. QED
  BY <1>1, <1>2, <1>3, <1>4, <1>5, <1>6, <1>7
     DEF MemNext, memVars, regionVars, guestVars, NewOverQuota, NewFails, Load, OutOfBounds,
         GrowOverQuota

(* The invariant along every behaviour.                                    *)
LEMMA AlwaysMemInv == MemSpec => []MemInv
  BY MemInvInit, MemInvStep, PTL DEF MemSpec

(* guarded_memory.rs, dirty.rs: the fields keep to their Rust types and    *)
(* the bitmap has a word for every page, whatever is mapped and grown.     *)
THEOREM MemoryTypes == MemSpec => []MemTypeOK
<1>1. MemInv => MemTypeOK
  <2>. SUFFICES ASSUME MemInv PROVE MemTypeOK
    OBVIOUS
  <2>. DEFINE n == dirty.capacity_pages
  <2>1. dirty \in Bitmaps(n) /\ n \in Nat
    BY DEF MemInv
  <2>. HIDE DEF n
  <2>2. dirty.count \in Nat /\ dirty.bits \in [0..(Words(n) - 1) -> SUBSET (0..(WordBits - 1))]
    BY <2>1 DEF Bitmaps
  <2>. QED
    BY <2>1, <2>2 DEF MemInv, MemTypeOK, BoundsInv, n
<1>. QED
  BY <1>1, AlwaysMemInv, PTL

(* dirty.rs, guarded_memory.rs:229-233: for any page size, word width and  *)
(* quota, what the flush iterates over once every store has been marked is *)
(* exactly what was stored, ascending and without repetition, and is_dirty *)
(* and len() agree with it.                                                *)
THEOREM BitmapIsExact == MemSpec => []DirtyTracksWrites
<1>1. MemInv => DirtyTracksWrites
  <2>. SUFFICES ASSUME MemInv PROVE DirtyTracksWrites
    OBVIOUS
  <2>. DEFINE n == dirty.capacity_pages
              listed == IterDirty(dirty)
  <2>1. dirty \in Bitmaps(n) /\ n \in Nat
    BY DEF MemInv
  <2>2. /\ Len(listed) \in Nat
        /\ {listed[i] : i \in 1..Len(listed)} = DirtyPages(dirty)
        /\ \A i, j \in 1..Len(listed) : i < j => listed[i] < listed[j]
        /\ Cardinality(DirtyPages(dirty)) = Len(listed)
    BY <2>1, IterDirtyFacts
  <2>. HIDE DEF listed, n
  <2>3. \A i \in 1..(Len(listed) - 1) : listed[i] < listed[i + 1]
    <3>. SUFFICES ASSUME NEW i \in 1..(Len(listed) - 1) PROVE listed[i] < listed[i + 1]
      OBVIOUS
    <3>1. i \in 1..Len(listed) /\ i + 1 \in 1..Len(listed) /\ i < i + 1
      BY <2>2
    <3>. QED
      BY <2>2, <3>1
  <2>4. unmarked = {} => DirtyPages(dirty) = written
    BY DEF MemInv
  <2>5. ASSUME NEW p \in 0..n PROVE IsDirty(dirty, p) <=> p \in DirtyPages(dirty)
    <3>. DEFINE W == Words(n)
    <3>1. W \in Nat \ {0} /\ n <= W * WordBits /\ W * WordBits \in Nat
      BY <2>1, CapacityIsTracked
    <3>2. DOMAIN dirty.bits = 0..(W - 1) /\ dirty.capacity_pages = n
      BY <2>1 DEF Bitmaps
    <3>. HIDE DEF W
    <3>3. p \in 0..(W * WordBits - 1) <=> p \div WordBits \in 0..(W - 1)
      <4>1. CASE p \in 0..(W * WordBits - 1)
        BY <3>1, <4>1, WordAndBit
      <4>2. CASE p \notin 0..(W * WordBits - 1)
        <5>1. p = W * WordBits
          BY <2>1, <3>1, <4>2
        <5>2. WordBits \in Nat /\ WordBits > 0
          BY WordAssumption
        <5>3. (W * WordBits) \div WordBits = W
          BY <3>1, <5>2
        <5>. QED
          BY <3>1, <4>2, <5>1, <5>3
      <4>. QED
        BY <4>1, <4>2
    <3>. QED
      BY <3>2, <3>3 DEF IsDirty, DirtyPages, Tracked, W
  <2>. QED
    BY <2>2, <2>3, <2>4, <2>5 DEF DirtyTracksWrites, MemInv, listed, n
<1>. QED
  BY <1>1, AlwaysMemInv, PTL

(* guarded_memory.rs:244-252: for any page size and quota, the flush reads *)
(* every page it has to inside the mapping and the tracked range.          *)
THEOREM FlushReadsInside == MemSpec => []DirtyPagesReadable
<1>1. MemInv => DirtyPagesReadable
  <2>. SUFFICES ASSUME MemInv, NEW p \in written
                PROVE  /\ (p + 1) * PageSize <= guard_start
                       /\ p < dirty.capacity_pages
                       /\ size_bytes % PageSize = 0 => (p + 1) * PageSize <= size_bytes
    BY DEF DirtyPagesReadable
  <2>. DEFINE n == dirty.capacity_pages
  <2>1. /\ n \in Nat /\ guard_start = n * PageSize /\ p \in Nat /\ p * PageSize < size_bytes
        /\ size_bytes \in Nat /\ quota_bytes \in Nat /\ guard_start \in Nat
        /\ size_bytes <= quota_bytes /\ quota_bytes <= guard_start
    BY SizeAssumption DEF MemInv, BoundsInv, AccessesStayInside, U32Values
  <2>. HIDE DEF n
  <2>2. size_bytes <= n * PageSize
    BY <2>1
  <2>. QED
    BY <2>1, <2>2, PagesFit DEF n
<1>. QED
  BY <1>1, AlwaysMemInv, PTL
=============================================================================
