----------------------------- MODULE ChainProofs -----------------------------
(***************************************************************************)
(* Proofs about CheckpointChain: the chain of hashes determines the claims *)
(* it was made from, and the sparse root is the root of the full tree,     *)
(* which determines the memory.                                            *)
(***************************************************************************)
EXTENDS CheckpointChain, InductionLemmas

-----------------------------------------------------------------------------
(* The hashes that verify_chain goes through.                              *)
Hashes(h, claims) ==
  /\ h[0] = Genesis
  /\ \A i \in 1..Len(claims) :
       h[i] = ChainHash(h[i - 1], claims[i].smt_root, claims[i].register_digest, claims[i].tick)

(* verify_chain's loop does go through them and returns the last.          *)
LEMMA VerifyUnfolds ==
  ASSUME NEW claims, Len(claims) \in Nat
  PROVE  \E h : Hashes(h, claims) /\ VerifyChain(claims) = h[Len(claims)]
<1>. DEFINE Next(i, v) == ChainHash(v, claims[i].smt_root, claims[i].register_digest, claims[i].tick)
            Eq(f, n) == f = [i \in 0..n |-> IF i = 0 THEN Genesis ELSE Next(i, f[i - 1])]
            S == {n \in Nat : \E f : Eq(f, n)}
            h == CHOOSE f : Eq(f, Len(claims))
<1>1. VerifyChain(claims) = h[Len(claims)]
  BY Zenon DEF VerifyChain
<1>. HIDE DEF Next
<1>2. 0 \in S
  <2>1. Eq([i \in 0..0 |-> Genesis], 0)
    OBVIOUS
  <2>. HIDE DEF Eq
  <2>. QED
    BY <2>1
<1>3. ASSUME NEW n \in Nat, n \in S PROVE n + 1 \in S
  <2>1. PICK f : Eq(f, n)
    BY <1>3
  <2>. DEFINE g == [i \in 0..(n + 1) |-> IF i = n + 1 THEN Next(n + 1, f[n]) ELSE f[i]]
  <2>2. Eq(g, n + 1)
    BY <2>1
  <2>. HIDE DEF Eq, g
  <2>. QED
    BY <2>2
<1>4. \A n \in Nat : n \in S
  <2>. HIDE DEF S
  <2>. QED
    BY <1>2, <1>3, SetInduction
<1>5. Eq(h, Len(claims))
  <2>1. \E f : Eq(f, Len(claims))
    BY <1>4
  <2>. HIDE DEF Eq
  <2>. QED
    BY <2>1, Zenon
<1>. HIDE DEF h
<1>6. h[0] = Genesis /\ \A i \in 1..Len(claims) : h[i] = Next(i, h[i - 1])
  BY <1>5
<1>. QED
  BY <1>1, <1>6 DEF Hashes, Next

(* Hashes as terms: a link of the chain determines what it was made from.  *)
LEMMA NoCollision ==
  ASSUME NEW h, NEW r, NEW d, NEW t, NEW k, NEW s, NEW e, NEW u,
         ChainHash(h, r, d, t) = ChainHash(k, s, e, u)
  PROVE  h = k /\ r = s /\ d = e /\ t = u
  BY DEF ChainHash

(* Two claims that say the same.                                           *)
Same(a, b) == a.tick = b.tick /\ a.smt_root = b.smt_root /\ a.register_digest = b.register_digest

(* No collisions: two chains that come to the same hash are of the same    *)
(* length and of the same claims.                                          *)
LEMMA HashDeterminesClaims ==
  ASSUME NEW a, NEW b, Len(a) \in Nat, Len(b) \in Nat, NEW f, NEW g,
         Hashes(f, a), Hashes(g, b), f[Len(a)] = g[Len(b)]
  PROVE  Len(a) = Len(b) /\ \A i \in 1..Len(a) : Same(a[i], b[i])
<1>. DEFINE Good(n, m) == f[n] = g[m] => n = m /\ \A i \in 1..n : Same(a[i], b[i])
            S == {n \in 0..Len(a) : \A m \in 0..Len(b) : Good(n, m)}
<1>1. \A h, r, d, t : ChainHash(h, r, d, t) # Genesis
  BY DEF ChainHash, Genesis
<1>2. 0 \in S
  <2>1. ASSUME NEW m \in 0..Len(b), f[0] = g[m] PROVE m = 0
    <3>1. m # 0 => m \in 1..Len(b)
      OBVIOUS
    <3>. QED
      BY <1>1, <2>1, <3>1 DEF Hashes
  <2>. QED
    BY <2>1
<1>4. ASSUME NEW n \in 1..Len(a), n - 1 \in S PROVE n \in S
  <2>1. ASSUME NEW m \in 0..Len(b), f[n] = g[m]
        PROVE  n = m /\ \A i \in 1..n : Same(a[i], b[i])
    <3>1. f[n] = ChainHash(f[n - 1], a[n].smt_root, a[n].register_digest, a[n].tick)
      BY DEF Hashes
    <3>2. m \in 1..Len(b)
      <4>1. g[0] = Genesis
        BY DEF Hashes
      <4>2. m # 0
        BY <1>1, <2>1, <3>1, <4>1
      <4>. QED
        BY <4>2
    <3>3. g[m] = ChainHash(g[m - 1], b[m].smt_root, b[m].register_digest, b[m].tick)
      BY <3>2 DEF Hashes
    <3>4. f[n - 1] = g[m - 1] /\ Same(a[n], b[m])
      <4>. DEFINE h == f[n - 1]
                  r == a[n].smt_root
                  d == a[n].register_digest
                  t == a[n].tick
                  k == g[m - 1]
                  s == b[m].smt_root
                  e == b[m].register_digest
                  u == b[m].tick
      <4>1. ChainHash(h, r, d, t) = ChainHash(k, s, e, u)
        BY <2>1, <3>1, <3>3, Zenon
      <4>. HIDE DEF h, r, d, t, k, s, e, u
      <4>2. h = k /\ r = s /\ d = e /\ t = u
        BY <4>1, NoCollision
      <4>. QED
        BY <4>2 DEF h, r, d, t, k, s, e, u, Same
    <3>5. m - 1 \in 0..Len(b)
      BY <3>2
    <3>6. n - 1 = m - 1 /\ \A i \in 1..(n - 1) : Same(a[i], b[i])
      BY <1>4, <3>4, <3>5
    <3>7. n = m
      BY <3>2, <3>6
    <3>8. \A i \in 1..n : i \in 1..(n - 1) \/ i = n
      OBVIOUS
    <3>. QED
      BY <3>4, <3>6, <3>7, <3>8
  <2>. QED
    BY <2>1
<1>5. \A n \in 0..Len(a) : n \in S
  <2>. HIDE DEF S
  <2>. QED
    BY <1>2, <1>4, BoundedInduction
<1>6. Len(a) \in S
  BY <1>5
<1>. QED
  BY <1>6

-----------------------------------------------------------------------------
(* The hashes of empty subtrees, from the leaves upwards.                  *)
LEMMA DefaultsUnfold ==
  /\ Defaults[0] = Zero
  /\ \A d \in 1..Depth : Defaults[d] = NodeHash(Defaults[d - 1], Defaults[d - 1])
<1>. DEFINE Next(v) == NodeHash(v, v)
            Eq(f, n) == f = [d \in 0..n |-> IF d = 0 THEN Zero ELSE Next(f[d - 1])]
            S == {n \in Nat : \E f : Eq(f, n)}
<1>0. Depth \in Nat
  BY TreeAssumption
<1>1. Defaults = CHOOSE f : Eq(f, Depth)
  BY Zenon DEF Defaults
<1>. HIDE DEF Next
<1>2. 0 \in S
  <2>1. Eq([d \in 0..0 |-> Zero], 0)
    OBVIOUS
  <2>. HIDE DEF Eq
  <2>. QED
    BY <2>1
<1>3. ASSUME NEW n \in Nat, n \in S PROVE n + 1 \in S
  <2>1. PICK f : Eq(f, n)
    BY <1>3
  <2>. DEFINE g == [d \in 0..(n + 1) |-> IF d = n + 1 THEN Next(f[n]) ELSE f[d]]
  <2>2. Eq(g, n + 1)
    BY <2>1
  <2>. HIDE DEF Eq, g
  <2>. QED
    BY <2>2
<1>4. \A n \in Nat : n \in S
  <2>. HIDE DEF S
  <2>. QED
    BY <1>2, <1>3, SetInduction
<1>5. Eq(Defaults, Depth)
  <2>1. \E f : Eq(f, Depth)
    BY <1>0, <1>4
  <2>. HIDE DEF Eq
  <2>. QED
    BY <1>1, <2>1, Zenon
<1>6. Defaults[0] = Zero /\ \A d \in 1..Depth : Defaults[d] = Next(Defaults[d - 1])
  BY <1>0, <1>5
<1>. QED
  BY <1>6 DEF Next

(* The levels that root goes through, from the touched leaves upwards.     *)
Sparse(level, touched) ==
  /\ level[0] = touched
  /\ \A d \in 1..Depth : level[d] = Parents(level[d - 1], Defaults[d - 1])

(* root's loop does go through them and returns a node of the last.        *)
LEMMA RootUnfolds ==
  ASSUME NEW touched
  PROVE  \E level : /\ Sparse(level, touched)
                    /\ Root(touched) = IF DOMAIN level[Depth] = {} THEN Defaults[Depth]
                                       ELSE level[Depth][CHOOSE i \in DOMAIN level[Depth] : TRUE]
<1>. DEFINE Next(d, v) == Parents(v, Defaults[d - 1])
            Eq(f, n) == f = [d \in 0..n |-> IF d = 0 THEN touched ELSE Next(d, f[d - 1])]
            S == {n \in Nat : \E f : Eq(f, n)}
            level == CHOOSE f : Eq(f, Depth)
<1>0. Depth \in Nat
  BY TreeAssumption
<1>1. Root(touched) = IF DOMAIN level[Depth] = {} THEN Defaults[Depth]
                      ELSE level[Depth][CHOOSE i \in DOMAIN level[Depth] : TRUE]
  BY Zenon DEF Root
<1>. HIDE DEF Next
<1>2. 0 \in S
  <2>1. Eq([d \in 0..0 |-> touched], 0)
    OBVIOUS
  <2>. HIDE DEF Eq
  <2>. QED
    BY <2>1
<1>3. ASSUME NEW n \in Nat, n \in S PROVE n + 1 \in S
  <2>1. PICK f : Eq(f, n)
    BY <1>3
  <2>. DEFINE g == [d \in 0..(n + 1) |-> IF d = n + 1 THEN Next(n + 1, f[n]) ELSE f[d]]
  <2>2. Eq(g, n + 1)
    BY <2>1
  <2>. HIDE DEF Eq, g
  <2>. QED
    BY <2>2
<1>4. \A n \in Nat : n \in S
  <2>. HIDE DEF S
  <2>. QED
    BY <1>2, <1>3, SetInduction
<1>5. Eq(level, Depth)
  <2>1. \E f : Eq(f, Depth)
    BY <1>0, <1>4
  <2>. HIDE DEF Eq
  <2>. QED
    BY <2>1, Zenon
<1>. HIDE DEF level
<1>6. level[0] = touched /\ \A d \in 1..Depth : level[d] = Next(d, level[d - 1])
  BY <1>0, <1>5
<1>7. Sparse(level, touched)
  BY <1>6 DEF Sparse, Next
<1>. QED
  BY <1>1, <1>7

(* The levels of the full tree.                                            *)
Dense(node, heap) ==
  /\ \A i \in 0..(2^Depth - 1) : node[0][i] = IF i \in Pages THEN heap[i] ELSE Zero
  /\ \A d \in 1..Depth : \A i \in 0..(2^(Depth - d) - 1) :
       node[d][i] = NodeHash(node[d - 1][2 * i], node[d - 1][2 * i + 1])

LEMMA DenseUnfolds ==
  ASSUME NEW heap
  PROVE  \E node : Dense(node, heap) /\ DenseRoot(heap) = node[Depth][0]
<1>. DEFINE Row(d, v) == [i \in 0..(2^(Depth - d) - 1) |->
                            IF d = 0 THEN (IF i \in Pages THEN heap[i] ELSE Zero)
                            ELSE NodeHash(v[2 * i], v[2 * i + 1])]
            Eq(f, n) == f = [d \in 0..n |-> Row(d, f[d - 1])]
            S == {n \in Nat : \E f : Eq(f, n)}
            node == CHOOSE f : Eq(f, Depth)
<1>0. Depth \in Nat /\ Depth - 0 = Depth
  BY TreeAssumption
<1>1. DenseRoot(heap) = node[Depth][0]
  BY Zenon DEF DenseRoot
<1>2. \A v, w : Row(0, v) = Row(0, w)
  OBVIOUS
<1>3. \A v : \A i \in 0..(2^Depth - 1) : Row(0, v)[i] = IF i \in Pages THEN heap[i] ELSE Zero
  BY <1>0
<1>4. ASSUME NEW d \in 1..Depth, NEW v, NEW i \in 0..(2^(Depth - d) - 1)
      PROVE  Row(d, v)[i] = NodeHash(v[2 * i], v[2 * i + 1])
  <2>1. d # 0
    OBVIOUS
  <2>. QED
    BY <2>1
<1>. HIDE DEF Row
<1>5. 0 \in S
  <2>1. Eq([d \in 0..0 |-> Row(0, 0)], 0)
    BY <1>2
  <2>. HIDE DEF Eq
  <2>. QED
    BY <2>1
<1>6. ASSUME NEW n \in Nat, n \in S PROVE n + 1 \in S
  <2>1. PICK f : Eq(f, n)
    BY <1>6
  <2>. DEFINE g == [d \in 0..(n + 1) |-> IF d = n + 1 THEN Row(n + 1, f[n]) ELSE f[d]]
  <2>2. ASSUME NEW d \in 0..(n + 1) PROVE g[d] = Row(d, g[d - 1])
    <3>1. CASE d = 0
      BY <1>2, <2>1, <3>1
    <3>2. CASE d \in 1..n
      BY <2>1, <3>2
    <3>3. CASE d = n + 1
      BY <2>1, <3>3
    <3>. QED
      BY <3>1, <3>2, <3>3
  <2>3. g = [d \in 0..(n + 1) |-> g[d]]
    OBVIOUS
  <2>. HIDE DEF g
  <2>4. Eq(g, n + 1)
    BY <2>2, <2>3
  <2>. HIDE DEF Eq
  <2>. QED
    BY <2>4
<1>7. \A n \in Nat : n \in S
  <2>. HIDE DEF S
  <2>. QED
    BY <1>5, <1>6, SetInduction
<1>8. Eq(node, Depth)
  <2>1. \E f : Eq(f, Depth)
    BY <1>0, <1>7
  <2>. HIDE DEF Eq
  <2>. QED
    BY <2>1, Zenon
<1>. HIDE DEF node
<1>9. \A d \in 0..Depth : node[d] = Row(d, node[d - 1])
  BY <1>8
<1>10. 0 \in 0..Depth /\ \A d \in 1..Depth : d \in 0..Depth
  BY <1>0
<1>11. Dense(node, heap)
  BY <1>3, <1>4, <1>9, <1>10 DEF Dense
<1>. QED
  BY <1>1, <1>11

(* A level is twice as wide as the one above it.                           *)
LEMMA LevelWidth ==
  ASSUME NEW d \in 1..Depth
  PROVE  /\ 2^(Depth - d) \in Nat \ {0}
         /\ 2^(Depth - (d - 1)) = 2 * 2^(Depth - d)
<1>1. Depth \in Nat /\ Depth - d \in Nat /\ (Depth - d) + 1 = Depth - (d - 1)
  BY TreeAssumption
<1>2. 2^(Depth - d) \in Nat \ {0} /\ 2^((Depth - d) + 1) = 2 * 2^(Depth - d)
  BY <1>1, PowersDouble
<1>. QED
  BY <1>1, <1>2

(* A map of leaves that stands for a memory.                               *)
Fits(touched, heap) ==
  DOMAIN touched \subseteq Pages /\ \A p \in Pages : heap[p] = ChildOr(touched, p, Zero)

(* smt.rs:66-67: level by level, the nodes that root keeps are those of    *)
(* the full tree, and the others are the default of their level.           *)
LEMMA RootOfLeaves ==
  ASSUME NEW touched, NEW heap, Fits(touched, heap)
  PROVE  Root(touched) = DenseRoot(heap)
<1>0. Depth \in Nat /\ Depth \in 0..Depth /\ Depth - 0 = Depth /\ Depth - Depth = 0
      /\ Pages \subseteq 0..(2^Depth - 1)
  BY TreeAssumption
<1>1. PICK level : /\ Sparse(level, touched)
                   /\ Root(touched) = IF DOMAIN level[Depth] = {} THEN Defaults[Depth]
                                      ELSE level[Depth][CHOOSE i \in DOMAIN level[Depth] : TRUE]
  BY RootUnfolds
<1>2. PICK node : Dense(node, heap) /\ DenseRoot(heap) = node[Depth][0]
  BY DenseUnfolds
<1>. DEFINE Row(d) == 0..(2^(Depth - d) - 1)
            Good(d) == /\ DOMAIN level[d] \subseteq Row(d)
                       /\ \A i \in Row(d) : ChildOr(level[d], i, Defaults[d]) = node[d][i]
            S == {d \in 0..Depth : Good(d)}
<1>3. 0 \in S
  <2>1. level[0] = touched /\ Row(0) = 0..(2^Depth - 1) /\ Defaults[0] = Zero
    BY <1>0, <1>1, DefaultsUnfold DEF Sparse
  <2>2. \A i \in Row(0) : node[0][i] = IF i \in Pages THEN heap[i] ELSE Zero
    BY <1>2, <2>1 DEF Dense
  <2>. HIDE DEF Row
  <2>3. \A i \in Row(0) : ChildOr(touched, i, Zero) = node[0][i]
    BY <2>2 DEF Fits, ChildOr
  <2>4. DOMAIN touched \subseteq Row(0)
    BY <1>0, <2>1 DEF Fits
  <2>. QED
    BY <1>0, <2>1, <2>3, <2>4
<1>4. ASSUME NEW d \in 1..Depth, d - 1 \in S PROVE d \in S
  <2>. DEFINE w == 2^(Depth - d)
              below == level[d - 1]
              empty == Defaults[d - 1]
              Child(i) == ChildOr(below, i, empty)
  <2>1. w \in Nat \ {0} /\ Row(d - 1) = 0..(2 * w - 1) /\ Row(d) = 0..(w - 1)
    BY LevelWidth
  <2>2. /\ DOMAIN below \subseteq Row(d - 1)
        /\ \A i \in Row(d - 1) : Child(i) = node[d - 1][i]
    BY <1>4
  <2>3. /\ level[d] = Parents(below, empty)
        /\ Defaults[d] = NodeHash(empty, empty)
        /\ \A i \in Row(d) : node[d][i] = NodeHash(node[d - 1][2 * i], node[d - 1][2 * i + 1])
    BY <1>1, <1>2, DefaultsUnfold DEF Sparse, Dense
  <2>. HIDE DEF w, below, empty, Row
  <2>4. /\ DOMAIN level[d] = {idx \div 2 : idx \in DOMAIN below}
        /\ \A i \in DOMAIN level[d] : level[d][i] = NodeHash(Child(2 * i), Child(2 * i + 1))
    BY <2>3 DEF Parents
  <2>. HIDE DEF Child
  <2>5. DOMAIN level[d] \subseteq Row(d)
    <3>1. \A idx \in 0..(2 * w - 1) : idx \div 2 \in 0..(w - 1)
      BY <2>1
    <3>. QED
      BY <2>1, <2>2, <2>4, <3>1
  <2>6. ASSUME NEW i \in Row(d) PROVE ChildOr(level[d], i, Defaults[d]) = node[d][i]
    <3>1. i \in Nat /\ 2 * i \in Row(d - 1) /\ 2 * i + 1 \in Row(d - 1)
      BY <2>1
    <3>2. node[d][i] = NodeHash(Child(2 * i), Child(2 * i + 1))
      BY <2>2, <2>3, <3>1
    <3>3. CASE i \in DOMAIN level[d]
      BY <2>4, <3>2, <3>3 DEF ChildOr
    <3>4. CASE i \notin DOMAIN level[d]
      <4>1. (2 * i) \div 2 = i /\ (2 * i + 1) \div 2 = i
        BY <3>1
      <4>2. 2 * i \notin DOMAIN below /\ 2 * i + 1 \notin DOMAIN below
        BY <2>4, <3>4, <4>1
      <4>3. Child(2 * i) = empty /\ Child(2 * i + 1) = empty
        BY <4>2 DEF Child, ChildOr
      <4>. QED
        BY <2>3, <3>2, <3>4, <4>3 DEF ChildOr
    <3>. QED
      BY <3>3, <3>4
  <2>7. d \in 0..Depth
    OBVIOUS
  <2>. QED
    BY <2>5, <2>6, <2>7
<1>5. \A d \in 0..Depth : d \in S
  <2>. HIDE DEF S
  <2>. QED
    BY <1>0, <1>3, <1>4, BoundedInduction
<1>6. Good(Depth)
  BY <1>0, <1>5
<1>7. Row(Depth) = {0}
  <2>1. 2^(Depth - Depth) = 1
    BY <1>0, PowersDouble
  <2>. QED
    BY <2>1
<1>. DEFINE top == level[Depth]
<1>8. DOMAIN top \subseteq {0} /\ ChildOr(top, 0, Defaults[Depth]) = node[Depth][0]
  BY <1>6, <1>7
<1>9. Root(touched) = IF DOMAIN top = {} THEN Defaults[Depth] ELSE top[CHOOSE i \in DOMAIN top : TRUE]
  BY <1>1
<1>. HIDE DEF top
<1>10. CASE DOMAIN top = {}
  BY <1>2, <1>8, <1>9, <1>10 DEF ChildOr
<1>11. CASE DOMAIN top # {}
  <2>1. DOMAIN top = {0}
    BY <1>8, <1>11
  <2>2. (CHOOSE i \in DOMAIN top : TRUE) = 0
    BY <2>1
  <2>. QED
    BY <1>2, <1>8, <1>9, <2>1, <2>2 DEF ChildOr
<1>. QED
  BY <1>10, <1>11

(* The root of the full tree determines the memory: from the top level     *)
(* downwards, equal parents have equal children.                           *)
LEMMA RootDeterminesMemory ==
  ASSUME NEW a, NEW b, DenseRoot(a) = DenseRoot(b)
  PROVE  \A p \in Pages : a[p] = b[p]
<1>0. Depth \in Nat /\ Depth \in 0..Depth /\ Depth - Depth = 0 /\ Depth - 0 = Depth
      /\ Pages \subseteq 0..(2^Depth - 1)
  BY TreeAssumption
<1>1. PICK f : Dense(f, a) /\ DenseRoot(a) = f[Depth][0]
  BY DenseUnfolds
<1>2. PICK g : Dense(g, b) /\ DenseRoot(b) = g[Depth][0]
  BY DenseUnfolds
<1>. DEFINE Row(d) == 0..(2^(Depth - d) - 1)
            S == {k \in 0..Depth : \A i \in Row(Depth - k) : f[Depth - k][i] = g[Depth - k][i]}
<1>3. 0 \in S
  <2>1. 2^(Depth - (Depth - 0)) = 1
    BY <1>0, PowersDouble
  <2>2. Row(Depth - 0) = {0}
    BY <2>1
  <2>3. f[Depth - 0][0] = g[Depth - 0][0] /\ 0 \in 0..Depth
    <3>1. f[Depth][0] = g[Depth][0]
      BY <1>1, <1>2, Zenon
    <3>. QED
      BY <1>0, <3>1
  <2>. HIDE DEF Row
  <2>. QED
    BY <2>2, <2>3
<1>4. ASSUME NEW k \in 1..Depth, k - 1 \in S PROVE k \in S
  <2>. DEFINE d == Depth - (k - 1)
              w == 2^(Depth - d)
  <2>1. d \in 1..Depth /\ d - 1 = Depth - k /\ k \in 0..Depth
    BY <1>0
  <2>2. w \in Nat \ {0} /\ Row(d - 1) = 0..(2 * w - 1) /\ Row(d) = 0..(w - 1)
    BY <2>1, LevelWidth
  <2>3. \A i \in Row(d) : f[d][i] = g[d][i]
    BY <1>4
  <2>4. \A i \in Row(d) : /\ f[d][i] = NodeHash(f[d - 1][2 * i], f[d - 1][2 * i + 1])
                         /\ g[d][i] = NodeHash(g[d - 1][2 * i], g[d - 1][2 * i + 1])
    BY <1>1, <1>2, <2>1 DEF Dense
  <2>. HIDE DEF d, w, Row
  <2>5. \A i \in Row(d) : /\ f[d - 1][2 * i] = g[d - 1][2 * i]
                         /\ f[d - 1][2 * i + 1] = g[d - 1][2 * i + 1]
    BY <2>3, <2>4 DEF NodeHash
  <2>6. ASSUME NEW i \in Row(d - 1) PROVE f[d - 1][i] = g[d - 1][i]
    <3>1. i \div 2 \in Row(d) /\ (i = 2 * (i \div 2) \/ i = 2 * (i \div 2) + 1)
      BY <2>2
    <3>. QED
      BY <2>5, <3>1
  <2>. QED
    BY <2>1, <2>6
<1>5. \A k \in 0..Depth : k \in S
  <2>. HIDE DEF S
  <2>. QED
    BY <1>0, <1>3, <1>4, BoundedInduction
<1>6. \A i \in Row(Depth - Depth) : f[Depth - Depth][i] = g[Depth - Depth][i]
  BY <1>0, <1>5
<1>7. \A i \in 0..(2^Depth - 1) : f[0][i] = g[0][i]
  BY <1>0, <1>6
<1>. QED
  BY <1>0, <1>1, <1>2, <1>7 DEF Dense

-----------------------------------------------------------------------------
(* A sequence, of whatever: a root has no type but that of a term.         *)
IsSeq(s) == \E T : s \in Seq(T)

LEMMA AppendAny ==
  ASSUME NEW s, NEW e, IsSeq(s)
  PROVE  /\ IsSeq(Append(s, e)) /\ Len(s) \in Nat /\ Len(Append(s, e)) = Len(s) + 1
         /\ Append(s, e)[Len(s) + 1] = e
         /\ \A i \in 1..Len(s) : Append(s, e)[i] = s[i]
         /\ s = << >> <=> Len(s) = 0
<1>1. PICK T : s \in Seq(T)
  BY DEF IsSeq
<1>. DEFINE U == T \cup {e}
<1>2. Len(s) \in Nat /\ s \in [1..Len(s) -> T]
  BY <1>1
<1>3. s \in [1..Len(s) -> U]
  BY <1>2
<1>4. s \in Seq(U) /\ e \in U
  BY <1>2, <1>3
<1>. HIDE DEF U
<1>5. /\ Append(s, e) \in Seq(U) /\ Len(Append(s, e)) = Len(s) + 1
      /\ Append(s, e)[Len(s) + 1] = e /\ \A i \in 1..Len(s) : Append(s, e)[i] = s[i]
  BY <1>4, AppendProperties
<1>6. s = << >> <=> Len(s) = 0
  BY <1>4, EmptySeq
<1>. QED
  BY <1>2, <1>5, <1>6 DEF IsSeq

(* Pages that are not dirty are in the tree as they are in memory, those   *)
(* that are not in the tree are zero; every entry holds the root of the    *)
(* memory then, and its link to the entry before.                          *)
ChainInv ==
  /\ memory \in [Pages -> Contents] /\ dirty \subseteq Pages /\ DOMAIN leaves \subseteq Pages
  /\ \A p \in Pages \ dirty : memory[p] = ChildOr(leaves, p, Zero)
  /\ IsSeq(entries) /\ snapshots \in Seq([Pages -> Contents]) /\ Len(snapshots) = Len(entries)
  /\ \A i \in 1..Len(entries) :
       /\ entries[i].smt_root = DenseRoot(snapshots[i])
       /\ entries[i].chain_hash =
            ChainHash(IF i = 1 THEN Genesis ELSE entries[i - 1].chain_hash,
                      entries[i].smt_root, entries[i].register_digest, entries[i].tick)

LEMMA ChainInvInit == ChainInit => ChainInv
<1>. SUFFICES ASSUME ChainInit PROVE ChainInv
  OBVIOUS
<1>1. /\ memory = [p \in Pages |-> Zero] /\ dirty = {} /\ leaves = [p \in {} |-> Zero]
      /\ entries = << >> /\ snapshots = << >>
  BY DEF ChainInit
<1>2. /\ entries \in Seq({}) /\ snapshots \in Seq([Pages -> Contents])
      /\ Len(entries) = 0 /\ Len(snapshots) = 0
  BY <1>1
<1>3. DOMAIN leaves = {} /\ \A p \in Pages : ChildOr(leaves, p, Zero) = Zero
  BY <1>1 DEF ChildOr
<1>. QED
  BY <1>1, <1>2, <1>3, PageAssumption DEF ChainInv, IsSeq

(* update_leaf on every dirty page brings the tree up to date.             *)
LEMMA UpdateFits ==
  ASSUME ChainInv
  PROVE  Fits(UpdateLeaves, memory)
<1>1. /\ dirty \subseteq Pages /\ DOMAIN leaves \subseteq Pages
      /\ \A p \in Pages \ dirty : memory[p] = ChildOr(leaves, p, Zero)
  BY DEF ChainInv
<1>2. /\ DOMAIN UpdateLeaves = DOMAIN leaves \cup dirty
      /\ \A p \in DOMAIN leaves \cup dirty :
           UpdateLeaves[p] = IF p \in dirty THEN memory[p] ELSE leaves[p]
  BY DEF UpdateLeaves
<1>. QED
  BY <1>1, <1>2 DEF Fits, ChildOr

LEMMA ChainInvStep == ChainInv /\ [ChainNext]_chainVars => ChainInv'
<1>. SUFFICES ASSUME ChainInv, [ChainNext]_chainVars PROVE ChainInv'
  OBVIOUS
<1>1. ASSUME NEW p \in Pages, NEW v \in Contents, GuestWrites(p, v) PROVE ChainInv'
  BY <1>1 DEF GuestWrites, ChainInv
<1>2. ASSUME NEW digest \in Digests, NEW cleared \in BOOLEAN, TakeCheckpoint(digest, cleared)
      PROVE  ChainInv'
  <2>. DEFINE root == Root(UpdateLeaves)
              new == [tick |-> Len(entries) + 1, smt_root |-> root, register_digest |-> digest,
                      chain_hash |-> ChainHash(PrevChainHash, root, digest, Len(entries) + 1)]
  <2>1. /\ leaves' = UpdateLeaves /\ entries' = Append(entries, new)
        /\ snapshots' = Append(snapshots, memory) /\ memory' = memory
        /\ dirty' = (IF cleared THEN {} ELSE dirty)
    BY <1>2 DEF TakeCheckpoint
  <2>2. root = DenseRoot(memory)
    BY UpdateFits, RootOfLeaves
  <2>3. Fits(leaves', memory)
    BY <2>1, UpdateFits
  <2>4. /\ new.smt_root = root /\ new.register_digest = digest /\ new.tick = Len(entries) + 1
        /\ new.chain_hash = ChainHash(PrevChainHash, root, digest, Len(entries) + 1)
    OBVIOUS
  <2>. HIDE DEF root, new
  <2>5. /\ IsSeq(entries') /\ Len(entries) \in Nat /\ Len(entries') = Len(entries) + 1
        /\ entries'[Len(entries) + 1] = new
        /\ \A i \in 1..Len(entries) : entries'[i] = entries[i]
        /\ entries = << >> <=> Len(entries) = 0
    BY <2>1, AppendAny DEF ChainInv
  <2>6. /\ memory \in [Pages -> Contents] /\ snapshots \in Seq([Pages -> Contents])
        /\ Len(snapshots) = Len(entries)
    BY DEF ChainInv
  <2>7. /\ snapshots' \in Seq([Pages -> Contents]) /\ Len(snapshots') = Len(entries) + 1
        /\ snapshots'[Len(entries) + 1] = memory
        /\ \A i \in 1..Len(entries) : snapshots'[i] = snapshots[i]
    BY <2>1, <2>6, AppendProperties
  <2>8. ASSUME NEW i \in 1..Len(entries')
        PROVE  /\ entries'[i].smt_root = DenseRoot(snapshots'[i])
               /\ entries'[i].chain_hash =
                    ChainHash(IF i = 1 THEN Genesis ELSE entries'[i - 1].chain_hash,
                              entries'[i].smt_root, entries'[i].register_digest, entries'[i].tick)
    <3>1. CASE i = Len(entries) + 1
      <4>1. PrevChainHash = IF i = 1 THEN Genesis ELSE entries'[i - 1].chain_hash
        <5>1. CASE Len(entries) = 0
          BY <2>5, <3>1, <5>1 DEF PrevChainHash
        <5>2. CASE Len(entries) # 0
          BY <2>5, <3>1, <5>2 DEF PrevChainHash, Last
        <5>. QED
          BY <5>1, <5>2
      <4>. QED
        BY <2>2, <2>4, <2>5, <2>7, <3>1, <4>1
    <3>2. CASE i \in 1..Len(entries)
      <4>1. /\ entries[i].smt_root = DenseRoot(snapshots[i])
            /\ entries[i].chain_hash =
                 ChainHash(IF i = 1 THEN Genesis ELSE entries[i - 1].chain_hash,
                           entries[i].smt_root, entries[i].register_digest, entries[i].tick)
        BY <3>2 DEF ChainInv
      <4>2. i # 1 => i - 1 \in 1..Len(entries)
        BY <2>5, <3>2
      <4>. QED
        BY <2>5, <2>7, <3>2, <4>1, <4>2
    <3>. QED
      BY <2>5, <3>1, <3>2
  <2>9. /\ memory' \in [Pages -> Contents] /\ dirty' \subseteq Pages /\ DOMAIN leaves' \subseteq Pages
        /\ \A p \in Pages \ dirty' : memory'[p] = ChildOr(leaves', p, Zero)
    BY <2>1, <2>3 DEF ChainInv, Fits
  <2>. QED
    BY <2>5, <2>7, <2>8, <2>9 DEF ChainInv
<1>3. CASE UNCHANGED chainVars
  BY <1>3 DEF chainVars, ChainInv
<1>. QED
  BY <1>1, <1>2, <1>3 DEF ChainNext

LEMMA AlwaysChainInv == ChainSpec => []ChainInv
  BY ChainInvInit, ChainInvStep, PTL DEF ChainSpec

(* smt.rs:66-67: for every depth of the tree, set of pages and history of  *)
(* writes and checkpoints.                                                 *)
THEOREM SparseRootsAreDense == ChainSpec => []SparseRootIsDense
<1>1. ChainInv => SparseRootIsDense
  BY DEF ChainInv, SparseRootIsDense
<1>. QED
  BY <1>1, AlwaysChainInv, PTL

(* ARCHITECTURE.md section 6: the same root, the same memory, at any two   *)
(* checkpoints of any history.                                             *)
THEOREM RootsCommitToMemory == ChainSpec => []RootCommitsToMemory
<1>1. ChainInv => RootCommitsToMemory
  <2>. SUFFICES ASSUME ChainInv, NEW i \in 1..Len(entries), NEW j \in 1..Len(entries)
                PROVE  entries[i].smt_root = entries[j].smt_root <=> snapshots[i] = snapshots[j]
    BY DEF RootCommitsToMemory
  <2>. DEFINE a == snapshots[i]
              b == snapshots[j]
  <2>1. /\ entries[i].smt_root = DenseRoot(a) /\ entries[j].smt_root = DenseRoot(b)
        /\ a \in [Pages -> Contents] /\ b \in [Pages -> Contents]
    BY DEF ChainInv
  <2>. HIDE DEF a, b
  <2>2. ASSUME DenseRoot(a) = DenseRoot(b) PROVE a = b
    <3>1. \A p \in Pages : a[p] = b[p]
      BY <2>2, RootDeterminesMemory
    <3>. QED
      BY <2>1, <3>1
  <2>3. entries[i].smt_root = entries[j].smt_root <=> a = b
    BY <2>1, <2>2
  <2>. QED
    BY <2>3 DEF a, b
<1>. QED
  BY <1>1, AlwaysChainInv, PTL

(* What a claim consists of.                                               *)
IsClaim(c) == c = [tick |-> c.tick, smt_root |-> c.smt_root, register_digest |-> c.register_digest]

(* smt.rs:118-121, for claims of any number and contents: verify_chain     *)
(* returns the latest chain hash for the declared ones and for no others.  *)
LEMMA OnlyTheDeclared ==
  ASSUME ChainInv, entries # << >>,
         NEW T, \A c \in T : IsClaim(c), NEW claims \in Seq(T)
  PROVE  VerifyChain(claims) = Last(entries).chain_hash <=> claims = Declared
<1>. DEFINE n == Len(entries)
            k == [i \in 0..n |-> IF i = 0 THEN Genesis ELSE entries[i].chain_hash]
            D == {Declared[i] : i \in 1..n}
<1>1. n \in Nat \ {0}
  BY AppendAny DEF ChainInv
<1>2. /\ Declared \in Seq(D) /\ Len(Declared) = n /\ \A i \in 1..n : IsClaim(Declared[i])
      /\ \A i \in 1..n : /\ Declared[i].tick = entries[i].tick
                         /\ Declared[i].smt_root = entries[i].smt_root
                         /\ Declared[i].register_digest = entries[i].register_digest
  <2>1. DOMAIN Declared = 1..n /\ Declared = [i \in 1..n |-> Declared[i]]
    BY DEF Declared
  <2>2. Declared \in [1..n -> D]
    BY <2>1
  <2>3. Declared \in Seq(D) /\ Len(Declared) = n
    BY <1>1, <2>1, <2>2
  <2>. QED
    BY <2>3 DEF Declared, IsClaim
<1>3. Hashes(k, Declared)
  <2>1. \A i \in 1..n : entries[i].chain_hash =
                        ChainHash(IF i = 1 THEN Genesis ELSE entries[i - 1].chain_hash,
                                  entries[i].smt_root, entries[i].register_digest, entries[i].tick)
    BY DEF ChainInv
  <2>2. k[0] = Genesis
    BY <1>1
  <2>3. \A i \in 1..n : /\ k[i] = entries[i].chain_hash
                        /\ k[i - 1] = IF i = 1 THEN Genesis ELSE entries[i - 1].chain_hash
    BY <1>1
  <2>. HIDE DEF k
  <2>. QED
    BY <1>2, <2>1, <2>2, <2>3 DEF Hashes
<1>4. k[n] = Last(entries).chain_hash
  BY <1>1 DEF Last
<1>. HIDE DEF k, D, n
<1>5. Len(claims) \in Nat
  OBVIOUS
<1>6. PICK h : Hashes(h, claims) /\ VerifyChain(claims) = h[Len(claims)]
  BY <1>5, VerifyUnfolds
<1>7. ASSUME VerifyChain(claims) = Last(entries).chain_hash PROVE claims = Declared
  <2>1. Len(claims) = n /\ \A i \in 1..n : Same(claims[i], Declared[i])
    <3>1. h[Len(claims)] = k[Len(Declared)]
      BY <1>2, <1>4, <1>6, <1>7
    <3>. QED
      BY <1>1, <1>2, <1>3, <1>5, <1>6, <3>1, HashDeterminesClaims
  <2>2. ASSUME NEW i \in 1..n PROVE claims[i] = Declared[i]
    <3>1. claims[i] \in T
      BY <2>1
    <3>2. IsClaim(claims[i]) /\ IsClaim(Declared[i]) /\ Same(claims[i], Declared[i])
      BY <1>2, <2>1, <3>1
    <3>. QED
      BY <3>2, Zenon DEF IsClaim, Same
  <2>3. claims = [i \in 1..n |-> claims[i]] /\ Declared = [i \in 1..n |-> Declared[i]]
    BY <1>2, <2>1
  <2>. QED
    BY <2>2, <2>3
<1>8. ASSUME claims = Declared PROVE VerifyChain(claims) = Last(entries).chain_hash
  <2>1. AgreeFurther(h, k, n)
    BY <1>2, <1>3, <1>6, <1>8 DEF Hashes, AgreeFurther
  <2>2. h[n] = k[n]
    BY <1>1, <2>1, AgreeStepwise
  <2>. QED
    BY <1>2, <1>4, <1>6, <1>8, <2>2
<1>. QED
  BY <1>7, <1>8

(* The claims that the primary declared, and no others whatever they are,  *)
(* give its latest chain hash.                                             *)
OnlyDeclaredVerify ==
  entries # << >> =>
    \A T : (\A c \in T : IsClaim(c)) =>
      \A claims \in Seq(T) : VerifyChain(claims) = Last(entries).chain_hash <=> claims = Declared

(* smt.rs:118-121, "tamper-evident", for every run of the primary and      *)
(* every sequence of claims, not only for those that resemble the declared *)
(* ones: verify_chain tells all of them apart from what was declared.      *)
THEOREM OnlyTheDeclaredVerify == ChainSpec => []OnlyDeclaredVerify
<1>1. ChainInv => OnlyDeclaredVerify
  <2>. SUFFICES ASSUME ChainInv, entries # << >>,
                       NEW T, \A c \in T : IsClaim(c), NEW claims \in Seq(T)
                PROVE  VerifyChain(claims) = Last(entries).chain_hash <=> claims = Declared
    BY DEF OnlyDeclaredVerify
  <2>. QED
    BY OnlyTheDeclared
<1>. QED
  BY <1>1, AlwaysChainInv, PTL

(* smt.rs:118-121: a dropped, repeated, exchanged or altered claim never   *)
(* gives the chain hash that the primary has.                              *)
THEOREM TamperingShows == ChainSpec => []ChainIsTamperEvident
<1>1. ASSUME ChainInv, entries # << >> PROVE
      \A claims \in Altered \cup {Declared} :
        VerifyChain(claims) = Last(entries).chain_hash <=> claims = Declared
  <2>. DEFINE n == Len(entries)
              Claim == [tick : 0..(MaxCheckpoints + 1), register_digest : Digests,
                        smt_root : {entries[i].smt_root : i \in 1..n} \cup {Defaults[Depth]}]
              T == {Declared[i] : i \in 1..n} \cup Claim
              dropped == {RemoveAt(Declared, i) : i \in 1..n}
              repeated == {InsertAt(Declared, i, Declared[j]) : i, j \in 1..n}
              exchanged == {[Declared EXCEPT ![i] = Declared[j], ![j] = Declared[i]] : i, j \in 1..n}
              replaced == {ReplaceAt(Declared, i, claim) : i \in 1..n, claim \in Claim}
  <2>1. n \in Nat
    BY <1>1, AppendAny DEF ChainInv
  <2>2. DOMAIN Declared = 1..n /\ Declared \in [1..n -> T]
    BY DEF Declared
  <2>3. \A c \in T : IsClaim(c)
    <3>1. \A i \in 1..n : IsClaim(Declared[i])
      BY DEF Declared, IsClaim
    <3>2. \A c \in Claim : IsClaim(c)
      BY DEF IsClaim
    <3>. QED
      BY <3>1, <3>2
  <2>4. Altered = dropped \cup repeated \cup exchanged \cup replaced
    BY DEF Altered
  <2>5. Claim \subseteq T
    OBVIOUS
  <2>. HIDE DEF T, Claim, n
  <2>6. Declared \in Seq(T) /\ Len(Declared) = n /\ \A i \in 1..n : Declared[i] \in T
    BY <2>1, <2>2
  <2>7. ASSUME NEW i \in 1..n PROVE RemoveAt(Declared, i) \in Seq(T)
    BY <2>1, <2>6, SubSeqProperties, ConcatProperties DEF RemoveAt
  <2>8. ASSUME NEW i \in 1..n, NEW j \in 1..n PROVE InsertAt(Declared, i, Declared[j]) \in Seq(T)
    <3>1. SubSeq(Declared, 1, i - 1) \in Seq(T) /\ SubSeq(Declared, i, Len(Declared)) \in Seq(T)
      BY <2>1, <2>6, SubSeqProperties
    <3>2. <<Declared[j]>> \in Seq(T)
      BY <2>6
    <3>. QED
      BY <3>1, <3>2, ConcatProperties DEF InsertAt
  <2>9. ASSUME NEW i \in 1..n, NEW claim \in Claim PROVE ReplaceAt(Declared, i, claim) \in Seq(T)
    BY <2>5, <2>6, ExceptSeq DEF ReplaceAt
  <2>10. ASSUME NEW i \in 1..n, NEW j \in 1..n
         PROVE  [Declared EXCEPT ![i] = Declared[j], ![j] = Declared[i]] \in Seq(T)
    <3>1. [Declared EXCEPT ![i] = Declared[j]] \in Seq(T)
          /\ Len([Declared EXCEPT ![i] = Declared[j]]) = n
      BY <2>6, ExceptSeq
    <3>. QED
      BY <2>6, <3>1, ExceptSeq
  <2>11. \A claims \in Altered \cup {Declared} : claims \in Seq(T)
    <3>1. dropped \subseteq Seq(T)
      BY <2>7
    <3>2. repeated \subseteq Seq(T)
      BY <2>8
    <3>3. exchanged \subseteq Seq(T)
      BY <2>10
    <3>4. replaced \subseteq Seq(T)
      BY <2>9
    <3>. HIDE DEF dropped, repeated, exchanged, replaced
    <3>. QED
      BY <2>4, <2>6, <3>1, <3>2, <3>3, <3>4
  <2>. QED
    BY <1>1, <2>3, <2>11, OnlyTheDeclared
<1>2. ChainInv => ChainIsTamperEvident
  BY <1>1 DEF ChainIsTamperEvident
<1>. QED
  BY <1>2, AlwaysChainInv, PTL
=============================================================================
