--------------------------- MODULE CheckpointChain ---------------------------
(***************************************************************************)
(* The execution-integrity chain of one cell (chronos-mem, smt.rs) below   *)
(* the level of Supervisor, which takes a root to be the map of leaves:    *)
(* here the sparse Merkle tree is computed, and the entries are chained    *)
(* and audited.                                                            *)
(*                                                                         *)
(*   leaves     SparseMerkleTree::leaves, only pages hashed at least once  *)
(*   entries    CheckpointChain::entries                                   *)
(*   memory, dirty  the cell's pages and its DirtyPageSet                  *)
(*   snapshots  history: the memory at each entry                          *)
(*                                                                         *)
(* BLAKE3 is taken to be free of collisions: the hash of some inputs is    *)
(* the tuple of these inputs, the hash of a page is its contents.          *)
(***************************************************************************)
EXTENDS Naturals, Sequences, SequencesExt

CONSTANTS
  Depth,          \* TREE_DEPTH, 32 in the code
  Pages,          \* page indices that the guest writes
  Contents, Zero, \* page contents; the all-zero page
  Digests,        \* register digests the caller may pass
  MaxCheckpoints  \* bound of the model on the length of the chain

ASSUME TreeAssumption == Depth \in Nat \ {0} /\ Pages \subseteq 0..(2^Depth - 1)
ASSUME PageAssumption == Zero \in Contents

VARIABLES memory, dirty, leaves, entries, snapshots

chainVars == <<memory, dirty, leaves, entries, snapshots>>

-----------------------------------------------------------------------------
(* Faults a maintainer could introduce; used only to show that the         *)
(* properties notice them.                                                 *)
NodeHashOfLeft(left, right) == <<left, left>>

ChainHashWithoutTick(prev, root, digest, tick) == <<prev, root, digest, 0>>

(* The inner hash of two children, and the link of the chain.              *)
NodeHash(left, right) == <<left, right>>

ChainHash(prev, root, digest, tick) == <<prev, root, digest, tick>>

Genesis == << >>

(* default_hashes: the hash of an untouched subtree of each height.        *)
Defaults[d \in 0..Depth] ==
  IF d = 0 THEN Zero ELSE NodeHash(Defaults[d - 1], Defaults[d - 1])

ChildOr(level, idx, default) == IF idx \in DOMAIN level THEN level[idx] ELSE default

(* Another such fault: right_idx without the + 1.                          *)
ParentsOfLeft(level, default) ==
  [parent \in {idx \div 2 : idx \in DOMAIN level} |->
     NodeHash(ChildOr(level, 2 * parent, default), ChildOr(level, 2 * parent, default))]

(* One turn of root's loop: the parents of the nodes of a level.           *)
Parents(level, default) ==
  [parent \in {idx \div 2 : idx \in DOMAIN level} |->
     NodeHash(ChildOr(level, 2 * parent, default), ChildOr(level, 2 * parent + 1, default))]

(* SparseMerkleTree::root: any node that is left at the top level.         *)
Root(touched) ==
  LET level[d \in 0..Depth] ==
        IF d = 0 THEN touched ELSE Parents(level[d - 1], Defaults[d - 1])
      top == level[Depth]
  IN  IF DOMAIN top = {} THEN Defaults[Depth] ELSE top[CHOOSE i \in DOMAIN top : TRUE]

(* update_leaf for every dirty page.                                       *)
UpdateLeaves ==
  [p \in DOMAIN leaves \cup dirty |-> IF p \in dirty THEN memory[p] ELSE leaves[p]]

PrevChainHash == IF entries = << >> THEN Genesis ELSE Last(entries).chain_hash

(* CheckpointChain::verify_chain: the hash after each of the claims.       *)
VerifyChain(claims) ==
  LET chain_hash[i \in 0..Len(claims)] ==
        IF i = 0 THEN Genesis
        ELSE ChainHash(chain_hash[i - 1], claims[i].smt_root, claims[i].register_digest,
                       claims[i].tick)
  IN  chain_hash[Len(claims)]

-----------------------------------------------------------------------------
ChainInit ==
  /\ memory = [p \in Pages |-> Zero]
  /\ dirty = {}
  /\ leaves = [p \in {} |-> Zero]
  /\ entries = << >>
  /\ snapshots = << >>

(* A guest store: the executor writes the page and marks it dirty.         *)
GuestWrites(p, v) ==
  /\ memory' = [memory EXCEPT ![p] = v]
  /\ dirty' = dirty \cup {p}
  /\ UNCHANGED <<leaves, entries, snapshots>>

(* CheckpointChain::checkpoint.  Its caller clears the dirty set unless    *)
(* the replication ring refused the batch.                                 *)
TakeCheckpoint(digest, cleared) ==
  LET tick == Len(entries) + 1
      root == Root(UpdateLeaves)
  IN  /\ Len(entries) < MaxCheckpoints
      /\ leaves' = UpdateLeaves
      /\ entries' = Append(entries,
                      [tick |-> tick, smt_root |-> root, register_digest |-> digest,
                       chain_hash |-> ChainHash(PrevChainHash, root, digest, tick)])
      /\ snapshots' = Append(snapshots, memory)
      /\ dirty' = IF cleared THEN {} ELSE dirty
      /\ UNCHANGED memory

ChainNext ==
  \/ \E p \in Pages, v \in Contents : GuestWrites(p, v)
  \/ \E digest \in Digests, cleared \in BOOLEAN : TakeCheckpoint(digest, cleared)

ChainSpec == ChainInit /\ [][ChainNext]_chainVars
-----------------------------------------------------------------------------
(* Reference: the root of the full binary tree over every one of the       *)
(* 2^Depth pages.                                                          *)
DenseRoot(heap) ==
  LET node[d \in 0..Depth] ==
        [i \in 0..(2^(Depth - d) - 1) |->
           IF d = 0 THEN (IF i \in Pages THEN heap[i] ELSE Zero)
           ELSE NodeHash(node[d - 1][2 * i], node[d - 1][2 * i + 1])]
  IN  node[Depth][0]

(* smt.rs:66-67, "untouched siblings collapse to defaults[level]": every   *)
(* root in the chain, computed from the pages touched so far only, is the  *)
(* root of the full tree over the memory at that checkpoint.  Pages that   *)
(* were touched and are zero again make no difference.                     *)
SparseRootIsDense ==
  \A i \in 1..Len(entries) : entries[i].smt_root = DenseRoot(snapshots[i])

(* ARCHITECTURE.md section 6: a root commits to the heap.  Two checkpoints *)
(* have the same root exactly if the memory was the same at both, whatever *)
(* was written in between.                                                 *)
RootCommitsToMemory ==
  \A i, j \in 1..Len(entries) :
    entries[i].smt_root = entries[j].smt_root <=> snapshots[i] = snapshots[j]

(* The claims of an honest auditor, and claims that differ from them by a  *)
(* dropped, repeated, exchanged or altered entry.                          *)
Declared ==
  [i \in 1..Len(entries) |->
     [tick |-> entries[i].tick, smt_root |-> entries[i].smt_root,
      register_digest |-> entries[i].register_digest]]

Altered ==
  LET Claim == [tick : 0..(MaxCheckpoints + 1), register_digest : Digests,
                smt_root : {entries[i].smt_root : i \in 1..Len(entries)} \cup {Defaults[Depth]}]
      n == Len(entries)
  IN  {RemoveAt(Declared, i) : i \in 1..n}
        \cup {InsertAt(Declared, i, Declared[j]) : i, j \in 1..n}
        \cup {[Declared EXCEPT ![i] = Declared[j], ![j] = Declared[i]] : i, j \in 1..n}
        \cup {ReplaceAt(Declared, i, claim) : i \in 1..n, claim \in Claim}

(* smt.rs:118-121, "the whole sequence forms a tamper-evident log":        *)
(* verify_chain returns the primary's latest chain hash for the claims     *)
(* that the primary declared, and for no others.                           *)
ChainIsTamperEvident ==
  entries # << >> =>
    \A claims \in Altered \cup {Declared} :
      VerifyChain(claims) = Last(entries).chain_hash <=> claims = Declared
=============================================================================
