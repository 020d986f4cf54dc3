---------------------------- MODULE GuardedMemory ----------------------------
(***************************************************************************)
(* A cell's linear memory: MmapGuardedMemory of chronos-mem                *)
(* (guarded_memory.rs) and the dirty bitmap it owns.                       *)
(*                                                                         *)
(*   mapped         does the mapping exist?                                *)
(*   guard_start    offset of the PROT_NONE page: quota_rounded            *)
(*   size_bytes, quota_bytes, dirty     the struct's fields                *)
(*   reply          what the last call returned                            *)
(*   unmarked       pages the guest stored to and mark_dirty is due for    *)
(*   written        history: pages stored to since the last flush          *)
(*   approved_end   history: largest end of a range translate approved     *)
(*                                                                         *)
(* u32 has U32 values; u64 and usize are wide enough never to wrap, so     *)
(* LayoutOverflow cannot be returned.                                      *)
(***************************************************************************)
EXTENDS DirtyPageSet

CONSTANTS
  PageSize,   \* 4096 in the code
  U32         \* 2^32 in the code

ASSUME SizeAssumption == PageSize \in Nat \ {0} /\ U32 \in Nat \ {0}

VARIABLES mapped, guard_start, size_bytes, quota_bytes, dirty, reply, unmarked, written, approved_end

memVars == <<mapped, guard_start, size_bytes, quota_bytes, dirty, reply, unmarked,
             written, approved_end>>

regionVars == <<guard_start, size_bytes, quota_bytes, dirty>>
guestVars == <<unmarked, written, approved_end>>

U32Values == 0..(U32 - 1)

None == [kind |-> "none"]
QuotaExceeded(requested, quota) ==
  [kind |-> "quota_exceeded", requested |-> requested, quota |-> quota]

-----------------------------------------------------------------------------
(* Faults a maintainer could introduce.                                    *)
QuotaPagesTruncated(quota) == quota \div PageSize

GrownSizeInU32(delta_pages) == (size_bytes + delta_pages * PageSize) % U32

GrowUnchecked(delta_pages) ==
  /\ mapped
  /\ size_bytes' = size_bytes + delta_pages * PageSize
  /\ reply' = [kind |-> "grown", previous_pages |-> size_bytes \div PageSize]
  /\ UNCHANGED <<mapped, guard_start, quota_bytes, dirty, guestVars>>

-----------------------------------------------------------------------------
MemInit ==
  /\ mapped = FALSE
  /\ guard_start = 0
  /\ size_bytes = 0
  /\ quota_bytes = 0
  /\ dirty = NewDirtySet(0)
  /\ reply = None
  /\ unmarked = {}
  /\ written = {}
  /\ approved_end = 0

QuotaPages(quota) == (quota + PageSize - 1) \div PageSize

(* MmapGuardedMemory::new                                                  *)
New(initial, quota) ==
  /\ ~mapped
  /\ initial <= quota
  /\ mapped' = TRUE
  /\ guard_start' = QuotaPages(quota) * PageSize
  /\ size_bytes' = initial
  /\ quota_bytes' = quota
  /\ dirty' = NewDirtySet(guard_start' \div PageSize)
  /\ reply' = [kind |-> "ok"]
  /\ unmarked' = {}
  /\ written' = {}
  /\ approved_end' = 0

NewOverQuota(initial, quota) ==
  /\ ~mapped
  /\ initial > quota
  /\ reply' = QuotaExceeded(initial, quota)
  /\ UNCHANGED <<mapped, regionVars, guestVars>>

(* mmap fails, or mprotect fails and the mapping is undone.                *)
NewFails ==
  /\ ~mapped
  /\ reply' = [kind |-> "os_error"]
  /\ UNCHANGED <<mapped, regionVars, guestVars>>

(* The bounds check of translate: checked_add, then the committed size.    *)
Approved(guest_ptr, len) ==
  /\ guest_ptr + len < U32
  /\ guest_ptr + len <= size_bytes

PagesOf(guest_ptr, len) == {b \div PageSize : b \in guest_ptr..(guest_ptr + len - 1)}

Larger(x, y) == IF x >= y THEN x ELSE y

(* translate approves a guest load, or a host access on the guest's behalf.*)
Load(guest_ptr, len) ==
  /\ mapped
  /\ Approved(guest_ptr, len)
  /\ approved_end' = Larger(approved_end, guest_ptr + len)
  /\ reply' = [kind |-> "ok"]
  /\ UNCHANGED <<mapped, regionVars, unmarked, written>>

(* translate approves a guest store; the bytes are written, the pages they *)
(* fall in remain to be marked by the trampoline.                          *)
Store(guest_ptr, len) ==
  /\ mapped
  /\ Approved(guest_ptr, len)
  /\ approved_end' = Larger(approved_end, guest_ptr + len)
  /\ unmarked' = unmarked \cup PagesOf(guest_ptr, len)
  /\ written' = written \cup PagesOf(guest_ptr, len)
  /\ reply' = [kind |-> "ok"]
  /\ UNCHANGED <<mapped, regionVars>>

OutOfBounds(guest_ptr, len) ==
  /\ mapped
  /\ ~Approved(guest_ptr, len)
  /\ reply' = [kind |-> "out_of_bounds"]
  /\ UNCHANGED <<mapped, regionVars, guestVars>>

(* mark_dirty, once per page of an approved store.                         *)
MarkDirty(page_idx) ==
  /\ mapped
  /\ page_idx \in unmarked
  /\ dirty' = Mark(dirty, page_idx)
  /\ unmarked' = unmarked \ {page_idx}
  /\ UNCHANGED <<mapped, guard_start, size_bytes, quota_bytes, reply, written, approved_end>>

(* new_size, computed in u64.                                              *)
GrownSize(delta_pages) == size_bytes + delta_pages * PageSize

(* grow                                                                    *)
Grow(delta_pages) ==
  /\ mapped
  /\ GrownSize(delta_pages) <= quota_bytes
  /\ size_bytes' = GrownSize(delta_pages) % U32
  /\ reply' = [kind |-> "grown", previous_pages |-> size_bytes \div PageSize]
  /\ UNCHANGED <<mapped, guard_start, quota_bytes, dirty, guestVars>>

GrowOverQuota(delta_pages) ==
  /\ mapped
  /\ GrownSize(delta_pages) > quota_bytes
  /\ reply' = QuotaExceeded(GrownSize(delta_pages) % U32, quota_bytes)
  /\ UNCHANGED <<mapped, regionVars, guestVars>>

(* The supervisor's flush at a quantum boundary, when no store is under    *)
(* way: page_bytes of every dirty page is read, then clear_all.            *)
Flush ==
  /\ mapped
  /\ unmarked = {}
  /\ dirty' = ClearAll(dirty)
  /\ written' = {}
  /\ UNCHANGED <<mapped, guard_start, size_bytes, quota_bytes, reply, unmarked, approved_end>>

(* Drop: the region is unmapped and the struct is gone.                    *)
DropMemory ==
  /\ mapped
  /\ mapped' = FALSE
  /\ guard_start' = 0
  /\ size_bytes' = 0
  /\ quota_bytes' = 0
  /\ dirty' = NewDirtySet(0)
  /\ reply' = None
  /\ unmarked' = {}
  /\ written' = {}
  /\ approved_end' = 0

MemNext ==
  \/ \E initial, quota \in U32Values : New(initial, quota) \/ NewOverQuota(initial, quota)
  \/ NewFails
  \/ \E guest_ptr, len \in U32Values :
       Load(guest_ptr, len) \/ Store(guest_ptr, len) \/ OutOfBounds(guest_ptr, len)
  \/ \E page_idx \in unmarked : MarkDirty(page_idx)
  \/ \E delta_pages \in U32Values : Grow(delta_pages) \/ GrowOverQuota(delta_pages)
  \/ Flush
  \/ DropMemory

MemSpec == MemInit /\ [][MemNext]_memVars
-----------------------------------------------------------------------------
(* The fields stay within their Rust types, the bitmap keeps its shape.    *)
MemTypeOK ==
  /\ mapped \in BOOLEAN
  /\ size_bytes \in U32Values
  /\ quota_bytes \in U32Values
  /\ guard_start \in Nat
  /\ dirty.capacity_pages \in Nat
  /\ dirty.count \in Nat
  /\ dirty.bits \in [0..(Words(dirty.capacity_pages) - 1) -> SUBSET (0..(WordBits - 1))]
  /\ unmarked \subseteq written
  /\ approved_end \in Nat

(* guarded_memory.rs:206-210: every range that translate ever approved is  *)
(* still committed after any growth, within the quota and clear of the     *)
(* guard page.                                                             *)
AccessesStayInside ==
  /\ approved_end <= size_bytes
  /\ size_bytes <= quota_bytes
  /\ quota_bytes <= guard_start

(* dirty.rs: once the trampoline has marked what it stored, iter_dirty     *)
(* yields exactly the pages written since the last flush, each once and    *)
(* ascending; is_dirty and len() agree with it.                            *)
DirtyTracksWrites ==
  LET listed == IterDirty(dirty)
  IN  /\ unmarked = {} => {listed[i] : i \in 1..Len(listed)} = written
      /\ \A i \in 1..(Len(listed) - 1) : listed[i] < listed[i + 1]
      /\ dirty.count = Len(listed)
      /\ unmarked = {} => \A p \in 0..dirty.capacity_pages : IsDirty(dirty, p) <=> p \in written

(* guarded_memory.rs:244-252: reading any dirty or still unmarked page in  *)
(* full, as the flush does, stays in the accessible part of the mapping    *)
(* and in the tracked range, also when the size is not a whole number of   *)
(* pages; when it is one, the assertion of page_bytes holds as well.       *)
DirtyPagesReadable ==
  \A p \in written :
    /\ (p + 1) * PageSize <= guard_start
    /\ p < dirty.capacity_pages
    /\ size_bytes % PageSize = 0 => (p + 1) * PageSize <= size_bytes
=============================================================================
