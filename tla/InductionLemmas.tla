--------------------------- MODULE InductionLemmas ----------------------------
(***************************************************************************)
(* Induction over the natural numbers, and what it gives for the recursive *)
(* functions of the models.  The induction principle is stated for sets,   *)
(* not for predicates, and derived from the fact that < is well founded.   *)
(***************************************************************************)
EXTENDS Retain, Integers, SequenceTheorems, FiniteSetTheorems, WellFoundedInduction, TLAPS

(* Every nonempty set of natural numbers has a least element.              *)
LEMMA LeastNumber ==
  ASSUME NEW T \in SUBSET Nat, T # {}
  PROVE  \E n \in T : \A m \in T : n <= m
<1>. DEFINE R == OpToRel(<, Nat)
<1>1. IsWellFoundedOn(R, Nat)
  BY NatLessThanWellFounded
<1>2. \A x, y \in Nat : <<y, x>> \in R <=> y < x
  BY DEF OpToRel
<1>. HIDE DEF R
<1>3. PICK x \in T : \A y \in T : ~ (<<y, x>> \in R)
  BY <1>1, WFMin
<1>4. \A y \in T : ~(y < x)
  BY <1>2, <1>3
<1>5. \A y \in T : x <= y
  BY <1>4
<1>. QED
  BY <1>5

(* A set with 0 and with the successor of each of its numbers has them all.*)
LEMMA SetInduction ==
  ASSUME NEW S, 0 \in S, \A n \in Nat : n \in S => n + 1 \in S
  PROVE  \A n \in Nat : n \in S
<1>. DEFINE T == Nat \ S
<1>. SUFFICES ASSUME T # {} PROVE FALSE
  OBVIOUS
<1>1. PICK n \in T : \A m \in T : n <= m
  <2>. HIDE DEF T
  <2>1. T \in SUBSET Nat
    BY DEF T
  <2>. QED
    BY <2>1, LeastNumber
<1>2. n # 0 /\ n - 1 \in Nat /\ n - 1 \notin T
  BY <1>1
<1>. QED
  BY <1>2

(* The same up to a bound.                                                 *)
LEMMA BoundedInduction ==
  ASSUME NEW m \in Nat, NEW S, 0 \in S, \A n \in 1..m : n - 1 \in S => n \in S
  PROVE  \A n \in 0..m : n \in S
<1>. DEFINE T == {n \in Nat : n <= m => n \in S}
<1>1. 0 \in T
  OBVIOUS
<1>2. ASSUME NEW n \in Nat, n \in T PROVE n + 1 \in T
  <2>1. CASE n + 1 <= m
    <3>1. n + 1 \in 1..m /\ (n + 1) - 1 = n /\ n \in S
      BY <1>2, <2>1
    <3>. QED
      BY <3>1
  <2>2. CASE ~(n + 1 <= m)
    BY <2>2
  <2>. QED
    BY <2>1, <2>2
<1>. HIDE DEF T
<1>3. \A n \in Nat : n \in T
  BY <1>1, <1>2, SetInduction
<1>. QED
  BY <1>3 DEF T

(* f gives each value up to n from the one before.                         *)
Iterates(f, n, V, base, step) ==
  /\ f \in [0..n -> V]
  /\ f[0] = base
  /\ \A i \in 1..n : f[i] = step[<<i, f[i - 1]>>]

(* A start in V, and for each number up to n a step within V.              *)
StepsIn(n, V, base, step) == n \in Nat /\ base \in V /\ step \in [(1..n) \X V -> V]

(* Such a function exists, whatever the steps are.                         *)
LEMMA RecursionExists ==
  ASSUME NEW n, NEW V, NEW base, NEW step, StepsIn(n, V, base, step)
  PROVE  \E f : Iterates(f, n, V, base, step)
<1>. USE DEF StepsIn
<1>. DEFINE Solves(f, k) == f[0] = base /\ \A i \in 1..k : f[i] = step[<<i, f[i - 1]>>]
<1>. DEFINE S == {k \in 0..n : \E f \in [0..k -> V] : Solves(f, k)}
<1>1. 0 \in S
  <2>. DEFINE g == [i \in 0..0 |-> base]
  <2>1. g \in [0..0 -> V] /\ Solves(g, 0) /\ 0 \in 0..n
    OBVIOUS
  <2>. HIDE DEF g, Solves
  <2>. QED
    BY <2>1
<1>2. ASSUME NEW k \in 1..n, k - 1 \in S PROVE k \in S
  <2>1. PICK f \in [0..(k - 1) -> V] : Solves(f, k - 1)
    BY <1>2
  <2>. DEFINE g == [i \in 0..k |-> IF i = k THEN step[<<k, f[k - 1]>>] ELSE f[i]]
  <2>2. f[k - 1] \in V /\ step[<<k, f[k - 1]>>] \in V
    OBVIOUS
  <2>3. g \in [0..k -> V]
    BY <2>2
  <2>4. g[0] = base
    BY <2>1
  <2>5. ASSUME NEW i \in 1..k PROVE g[i] = step[<<i, g[i - 1]>>]
    <3>1. CASE i = k
      <4>1. k - 1 \in 0..k /\ k - 1 # k /\ k \in 0..k
        OBVIOUS
      <4>2. g[k] = step[<<k, f[k - 1]>>] /\ g[k - 1] = f[k - 1]
        BY <4>1
      <4>. QED
        BY <3>1, <4>2
    <3>2. CASE i # k
      <4>1. i \in 1..(k - 1) /\ i - 1 \in 0..k /\ i - 1 # k
        BY <3>2
      <4>2. g[i] = f[i] /\ g[i - 1] = f[i - 1] /\ f[i] = step[<<i, f[i - 1]>>]
        BY <2>1, <3>2, <4>1
      <4>. QED
        BY <4>2
    <3>. QED
      BY <3>1, <3>2
  <2>6. Solves(g, k)
    BY <2>4, <2>5
  <2>. HIDE DEF g, Solves
  <2>. QED
    BY <2>3, <2>6
<1>. HIDE DEF S
<1>3. \A k \in 0..n : k \in S
  BY <1>1, <1>2, BoundedInduction
<1>4. n \in S
  BY <1>3
<1>. QED
  BY <1>4 DEF S, Iterates

(* h goes on in the same way as long as it stays in V.                     *)
GoesOn(h, n, V, base, step) ==
  /\ DOMAIN h = 0..n /\ h = [i \in 0..n |-> h[i]]
  /\ h[0] = base
  /\ \A i \in 1..n : h[i - 1] \in V => h[i] = step[<<i, h[i - 1]>>]

(* Then it does stay in V.                                                 *)
LEMMA StaysWithin ==
  ASSUME NEW h, NEW n, NEW V, NEW base, NEW step,
         StepsIn(n, V, base, step), GoesOn(h, n, V, base, step)
  PROVE  Iterates(h, n, V, base, step)
<1>. USE DEF StepsIn, GoesOn
<1>. DEFINE S == {i \in 0..n : h[i] \in V}
<1>1. 0 \in S
  OBVIOUS
<1>2. ASSUME NEW i \in 1..n, i - 1 \in S PROVE i \in S
  <2>1. h[i - 1] \in V /\ i \in 0..n
    BY <1>2
  <2>2. step[<<i, h[i - 1]>>] \in V
    BY <2>1
  <2>. QED
    BY <2>1, <2>2
<1>. HIDE DEF S
<1>3. \A i \in 0..n : i \in S
  BY <1>1, <1>2, BoundedInduction
<1>4. \A i \in 0..n : h[i] \in V
  BY <1>3 DEF S
<1>5. h \in [0..n -> V]
  BY <1>4
<1>6. \A i \in 1..n : i - 1 \in 0..n
  OBVIOUS
<1>. QED
  BY <1>4, <1>5, <1>6 DEF Iterates

(* Two functions that agree at 0, and at each number if they agree at the  *)
(* one before ...                                                          *)
AgreeFurther(g, h, n) == g[0] = h[0] /\ \A i \in 1..n : g[i - 1] = h[i - 1] => g[i] = h[i]

(* ... agree.                                                              *)
LEMMA AgreeStepwise ==
  ASSUME NEW n \in Nat, NEW g, NEW h, AgreeFurther(g, h, n)
  PROVE  \A i \in 0..n : g[i] = h[i]
<1>. DEFINE S == {i \in 0..n : g[i] = h[i]}
<1>1. 0 \in S /\ \A i \in 1..n : i - 1 \in S => i \in S
  BY DEF AgreeFurther
<1>. HIDE DEF S
<1>2. \A i \in 0..n : i \in S
  BY <1>1, BoundedInduction
<1>. QED
  BY <1>2 DEF S

-----------------------------------------------------------------------------
(* r lists, at the positions that the increasing function at gives, just   *)
(* the elements of the first k of s that are to be kept.                   *)
Lists(r, at, s, keep, k) ==
  /\ at \in [1..Len(r) -> 1..k]
  /\ \A i, j \in 1..Len(r) : i < j => at[i] < at[j]
  /\ \A j \in 1..Len(r) : r[j] = s[at[j]] /\ r[j] \in keep
  /\ \A i \in 1..k : s[i] \in keep => \E j \in 1..Len(r) : at[j] = i

(* f[i] is what retain keeps of the first i elements, which it looks at    *)
(* one after the other.                                                    *)
Scans(f, T, s, keep) ==
  /\ f \in [0..Len(s) -> Seq(T)]
  /\ RetainIn(s, keep) = f[Len(s)]
  /\ f[0] = << >>
  /\ \A i \in 1..Len(s) : f[i] = IF s[i] \in keep THEN Append(f[i - 1], s[i]) ELSE f[i - 1]

(* The recursive function in RetainIn is well defined.                     *)
LEMMA RetainUnfolds ==
  ASSUME NEW T, NEW s \in Seq(T), NEW keep
  PROVE  \E f : Scans(f, T, s, keep)
<1>. DEFINE n == Len(s)
<1>. DEFINE step == [q \in (1..n) \X Seq(T) |->
                       IF s[q[1]] \in keep THEN Append(q[2], s[q[1]]) ELSE q[2]]
<1>. DEFINE Eq(f) == f = [i \in 0..n |-> IF i = 0 THEN << >>
                                        ELSE IF s[i] \in keep THEN Append(f[i - 1], s[i])
                                        ELSE f[i - 1]]
<1>0. n \in Nat /\ \A i \in 1..n : s[i] \in T
  OBVIOUS
<1>1. step \in [(1..n) \X Seq(T) -> Seq(T)]
  <2>1. ASSUME NEW q \in (1..n) \X Seq(T)
        PROVE  (IF s[q[1]] \in keep THEN Append(q[2], s[q[1]]) ELSE q[2]) \in Seq(T)
    <3>1. q[1] \in 1..n /\ q[2] \in Seq(T) /\ s[q[1]] \in T
      BY <1>0
    <3>. QED
      BY <3>1, AppendProperties
  <2>. QED
    BY <2>1
<1>2. << >> \in Seq(T)
  OBVIOUS
<1>3. PICK f : Iterates(f, n, Seq(T), << >>, step)
  <2>1. StepsIn(n, Seq(T), << >>, step)
    BY <1>0, <1>1, <1>2 DEF StepsIn
  <2>. QED
    BY <2>1, RecursionExists
<1>4. ASSUME NEW i \in 1..n
      PROVE  f[i] = IF s[i] \in keep THEN Append(f[i - 1], s[i]) ELSE f[i - 1]
  <2>1. i - 1 \in 0..n
    BY <1>0
  <2>2. <<i, f[i - 1]>> \in (1..n) \X Seq(T)
    BY <1>3, <2>1 DEF Iterates
  <2>. QED
    BY <1>3, <2>2 DEF Iterates
<1>5. Eq(f)
  <2>. DEFINE g == [i \in 0..n |-> IF i = 0 THEN << >>
                                  ELSE IF s[i] \in keep THEN Append(f[i - 1], s[i])
                                  ELSE f[i - 1]]
  <2>1. ASSUME NEW i \in 0..n PROVE f[i] = g[i]
    <3>1. CASE i = 0
      BY <1>3, <3>1 DEF Iterates
    <3>2. CASE i # 0
      <4>1. i \in 1..n
        BY <1>0, <3>2
      <4>. QED
        BY <1>4, <3>2, <4>1
    <3>. QED
      BY <3>1, <3>2
  <2>2. f = [i \in 0..n |-> f[i]]
    BY <1>3 DEF Iterates
  <2>. QED
    BY <2>1, <2>2
<1>. DEFINE h == CHOOSE h : Eq(h)
<1>6. Eq(h)
  BY <1>5, Zenon
<1>7. RetainIn(s, keep) = h[n]
  BY Zenon DEF RetainIn
<1>. HIDE DEF h
<1>8. \A i \in 0..n : h[i] = f[i]
  <2>1. h[0] = f[0]
    BY <1>0, <1>3, <1>6 DEF Iterates
  <2>2. ASSUME NEW i \in 1..n, h[i - 1] = f[i - 1] PROVE h[i] = f[i]
    <3>1. i \in 0..n /\ i # 0
      BY <1>0
    <3>2. h[i] = IF s[i] \in keep THEN Append(h[i - 1], s[i]) ELSE h[i - 1]
      BY <1>6, <3>1
    <3>. QED
      BY <1>4, <2>2, <3>2
  <2>3. AgreeFurther(h, f, n)
    BY <2>1, <2>2 DEF AgreeFurther
  <2>. QED
    BY <1>0, <2>3, AgreeStepwise
<1>9. RetainIn(s, keep) = f[n]
  BY <1>0, <1>7, <1>8
<1>. QED
  BY <1>3, <1>4, <1>9 DEF Iterates, Scans

(* One more element, kept at the end of the list or passed over.           *)
LEMMA RetainOneMore ==
  ASSUME NEW T, NEW s \in Seq(T), NEW keep, NEW k \in 1..Len(s), NEW r \in Seq(T), NEW at,
         Lists(r, at, s, keep, k - 1)
  PROVE  LET q == IF s[k] \in keep THEN Append(r, s[k]) ELSE r
         IN  \E new : Lists(q, new, s, keep, k)
<1>0. s[k] \in T /\ Len(s) \in Nat /\ Len(r) \in Nat
  OBVIOUS
<1>. USE DEF Lists
<1>1. CASE s[k] \notin keep
  <2>1. at \in [1..Len(r) -> 1..k]
    BY <1>0
  <2>2. \A i \in 1..k : s[i] \in keep => \E j \in 1..Len(r) : at[j] = i
    BY <1>0, <1>1
  <2>3. Lists(r, at, s, keep, k)
    BY <2>1, <2>2
  <2>. HIDE DEF Lists
  <2>. QED
    BY <1>1, <2>3
<1>2. CASE s[k] \in keep
  <2>. DEFINE q == Append(r, s[k])
  <2>. DEFINE new == [j \in 1..(Len(r) + 1) |-> IF j = Len(r) + 1 THEN k ELSE at[j]]
  <2>1. /\ Len(q) = Len(r) + 1 /\ q[Len(r) + 1] = s[k]
        /\ \A j \in 1..Len(r) : q[j] = r[j]
    BY <1>0
  <2>. HIDE DEF q
  <2>2. \A j \in 1..Len(r) : at[j] \in 1..(k - 1) /\ new[j] = at[j] /\ j \in 1..(Len(r) + 1)
    <3>1. TAKE j \in 1..Len(r)
    <3>2. j \in 1..(Len(r) + 1) /\ j # Len(r) + 1
      BY <1>0
    <3>3. at[j] \in 1..(k - 1)
      OBVIOUS
    <3>. QED
      BY <3>2, <3>3
  <2>3. new[Len(r) + 1] = k /\ Len(r) + 1 \in 1..(Len(r) + 1)
    BY <1>0
  <2>4. \A j \in 1..(Len(r) + 1) : j = Len(r) + 1 \/ j \in 1..Len(r)
    BY <1>0
  <2>5. new \in [1..Len(q) -> 1..k]
    BY <1>0, <2>1, <2>2, <2>3, <2>4
  <2>. HIDE DEF new
  <2>6. \A i, j \in 1..Len(q) : i < j => new[i] < new[j]
    <3>. SUFFICES ASSUME NEW i \in 1..(Len(r) + 1), NEW j \in 1..(Len(r) + 1), i < j
                  PROVE  new[i] < new[j]
      BY <2>1
    <3>1. i \in 1..Len(r)
      BY <1>0
    <3>2. CASE j = Len(r) + 1
      BY <2>2, <2>3, <3>1, <3>2
    <3>3. CASE j \in 1..Len(r)
      BY <2>2, <3>1, <3>3
    <3>. QED
      BY <2>4, <3>2, <3>3
  <2>7. \A j \in 1..Len(q) : q[j] = s[new[j]] /\ q[j] \in keep
    BY <1>2, <2>1, <2>2, <2>3, <2>4
  <2>8. \A i \in 1..k : s[i] \in keep => \E j \in 1..Len(q) : new[j] = i
    <3>. SUFFICES ASSUME NEW i \in 1..k, s[i] \in keep PROVE \E j \in 1..(Len(r) + 1) : new[j] = i
      BY <2>1
    <3>1. CASE i = k
      BY <2>3, <3>1
    <3>2. CASE i # k
      <4>1. i \in 1..(k - 1)
        BY <3>2
      <4>. QED
        BY <2>2, <4>1
    <3>. QED
      BY <3>1, <3>2
  <2>9. Lists(q, new, s, keep, k)
    BY <2>5, <2>6, <2>7, <2>8
  <2>. HIDE DEF Lists
  <2>. QED
    BY <1>2, <2>9 DEF q
<1>. QED
  BY <1>1, <1>2

(* What retain leaves: the elements to be kept, all of them, in order.     *)
LEMMA RetainFacts ==
  ASSUME NEW T, NEW s \in Seq(T), NEW keep
  PROVE  /\ RetainIn(s, keep) \in Seq(T)
         /\ \E at : Lists(RetainIn(s, keep), at, s, keep, Len(s))
<1>0. Len(s) \in Nat
  OBVIOUS
<1>1. PICK f : Scans(f, T, s, keep)
  BY RetainUnfolds
<1>. DEFINE S == {k \in 0..Len(s) : \E at : Lists(f[k], at, s, keep, k)}
<1>2. 0 \in S
  <2>. DEFINE none == [j \in 1..0 |-> 0]
  <2>1. Lists(f[0], none, s, keep, 0)
    BY <1>1 DEF Lists, Scans
  <2>. HIDE DEF none
  <2>. QED
    BY <1>0, <2>1
<1>3. ASSUME NEW k \in 1..Len(s), k - 1 \in S PROVE k \in S
  <2>1. PICK at : Lists(f[k - 1], at, s, keep, k - 1)
    BY <1>3
  <2>2. f[k - 1] \in Seq(T)
    BY <1>0, <1>1 DEF Scans
  <2>3. LET q == IF s[k] \in keep THEN Append(f[k - 1], s[k]) ELSE f[k - 1]
        IN  \E new : Lists(q, new, s, keep, k)
    BY <2>1, <2>2, RetainOneMore
  <2>4. \E new : Lists(f[k], new, s, keep, k)
    BY <1>1, <2>3 DEF Scans
  <2>. QED
    BY <1>0, <2>4
<1>. HIDE DEF S
<1>4. \A k \in 0..Len(s) : k \in S
  BY <1>0, <1>2, <1>3, BoundedInduction
<1>5. Len(s) \in S
  BY <1>0, <1>4
<1>. QED
  BY <1>0, <1>1, <1>5 DEF S, Scans

-----------------------------------------------------------------------------
(* Powers of two, counted as the subsets of an interval.                   *)
LEMMA PowersDouble ==
  /\ 2^0 = 1
  /\ \A n \in Nat : 2^n \in Nat \ {0} /\ 2^(n + 1) = 2 * 2^n
<1>1. ASSUME NEW n \in Nat
      PROVE  /\ IsFiniteSet(SUBSET (1..n))
             /\ Cardinality(SUBSET (1..n)) = 2^n
             /\ 2^n \in Nat
  <2>1. IsFiniteSet(1..n) /\ Cardinality(1..n) = n
    <3>1. 1 \in Int /\ n \in Int
      OBVIOUS
    <3>2. IsFiniteSet(1..n) /\ Cardinality(1..n) = IF 1 > n THEN 0 ELSE n - 1 + 1
      BY <3>1, FS_Interval
    <3>. QED
      BY <3>2
  <2>2. IsFiniteSet(SUBSET (1..n)) /\ Cardinality(SUBSET (1..n)) = 2^Cardinality(1..n)
    BY <2>1, FS_SUBSET
  <2>3. Cardinality(SUBSET (1..n)) \in Nat
    BY <2>2, FS_CardinalityType
  <2>. QED
    BY <2>1, <2>2, <2>3
<1>2. 2^0 = 1
  <2>1. SUBSET (1..0) = {{}}
    OBVIOUS
  <2>2. Cardinality({{}}) = 1
    BY FS_Singleton
  <2>3. Cardinality(SUBSET (1..0)) = 2^0
    BY <1>1
  <2>. QED
    BY <2>1, <2>2, <2>3
<1>3. ASSUME NEW n \in Nat PROVE 2^(n + 1) = 2 * 2^n
  <2>. DEFINE A == SUBSET (1..n)
              B == {T \cup {n + 1} : T \in A}
              f == [T \in A |-> T \cup {n + 1}]
  <2>1. \A T \in A : n + 1 \notin T
    OBVIOUS
  <2>2. f \in Bijection(A, B)
    <3>1. \A T, U \in A : f[T] = f[U] => T = U
      BY <2>1
    <3>2. f \in [A -> B] /\ \A U \in B : \E T \in A : f[T] = U
      OBVIOUS
    <3>. HIDE DEF f, A, B
    <3>. QED
      BY <3>1, <3>2 DEF Bijection, Injection, Surjection, IsInjective
  <2>3. A \cap B = {}
    BY <2>1
  <2>4. SUBSET (1..(n + 1)) = A \cup B
    <3>1. ASSUME NEW U \in SUBSET (1..(n + 1)) PROVE U \in A \cup B
      <4>1. CASE n + 1 \in U
        <5>1. U \ {n + 1} \in A /\ U = (U \ {n + 1}) \cup {n + 1}
          BY <4>1
        <5>. QED
          BY <5>1
      <4>2. CASE n + 1 \notin U
        BY <4>2
      <4>. QED
        BY <4>1, <4>2
    <3>2. A \subseteq SUBSET (1..(n + 1))
      OBVIOUS
    <3>3. B \subseteq SUBSET (1..(n + 1))
      <4>1. \A T \in A : T \cup {n + 1} \subseteq 1..(n + 1)
        OBVIOUS
      <4>. HIDE DEF A
      <4>. QED
        BY <4>1
    <3>. QED
      BY <3>1, <3>2, <3>3
  <2>5. IsFiniteSet(A) /\ Cardinality(A) = 2^n /\ 2^n \in Nat
        /\ n + 1 \in Nat
    BY <1>1
  <2>6. Cardinality(A \cup B) = 2^(n + 1)
    BY <1>1, <2>4, <2>5
  <2>. HIDE DEF A, B, f
  <2>7. ExistsBijection(A, B)
    BY <2>2 DEF ExistsBijection
  <2>8. IsFiniteSet(B) /\ Cardinality(B) = Cardinality(A)
    BY <2>5, <2>7, FS_Bijection
  <2>9. Cardinality(A \cup B) = Cardinality(A) + Cardinality(B) - Cardinality(A \cap B)
    BY <2>5, <2>8, FS_Union
  <2>10. Cardinality(A \cap B) = 0
    BY <2>3, FS_EmptySet
  <2>11. 2^(n + 1) = 2^n + 2^n - 0
    BY <2>5, <2>6, <2>8, <2>9, <2>10
  <2>. QED
    BY <2>5, <2>11
<1>4. \A n \in Nat : 2^n # 0
  <2>. DEFINE S == {n \in Nat : 2^n # 0}
  <2>1. 0 \in S
    BY <1>2
  <2>2. \A n \in Nat : n \in S => n + 1 \in S
    BY <1>1, <1>3
  <2>. HIDE DEF S
  <2>3. \A n \in Nat : n \in S
    BY <2>1, <2>2, SetInduction
  <2>. QED
    BY <2>3 DEF S
<1>. QED
  BY <1>1, <1>2, <1>3, <1>4

(* They grow.                                                              *)
LEMMA PowersGrow == \A n, k \in Nat : 2^n <= 2^(n + k)
<1>. SUFFICES ASSUME NEW n \in Nat PROVE \A k \in Nat : 2^n <= 2^(n + k)
  OBVIOUS
<1>. DEFINE S == {k \in Nat : 2^n <= 2^(n + k)}
<1>1. 0 \in S
  <2>1. n + 0 = n /\ 2^n \in Nat
    BY PowersDouble
  <2>. QED
    BY <2>1
<1>2. ASSUME NEW k \in Nat, k \in S PROVE k + 1 \in S
  <2>1. n + k \in Nat /\ n + (k + 1) = (n + k) + 1 /\ 2^n <= 2^(n + k)
    BY <1>2
  <2>2. 2^n \in Nat /\ 2^(n + k) \in Nat /\ 2^((n + k) + 1) = 2 * 2^(n + k)
    BY <2>1, PowersDouble
  <2>. QED
    BY <2>1, <2>2
<1>. HIDE DEF S
<1>3. \A k \in Nat : k \in S
  BY <1>1, <1>2, SetInduction
<1>. QED
  BY <1>3 DEF S

-----------------------------------------------------------------------------
(* Quotient and remainder are the only ones.                               *)
LEMMA DivisionUnique ==
  ASSUME NEW m \in Nat \ {0}, NEW d \in Nat, NEW x \in 0..(m - 1)
  PROVE  (m * d + x) % m = x /\ (m * d + x) \div m = d
<1>. DEFINE n == m * d + x
            k == n \div m
            y == n % m
<1>1. n \in Nat /\ m \in Nat /\ m > 0
  OBVIOUS
<1>. HIDE DEF n
<1>2. k \in Nat /\ y \in 0..(m - 1) /\ n = m * k + y
  BY <1>1
<1>. HIDE DEF k, y
<1>3. m * d + x = m * k + y
  BY <1>2 DEF n
<1>4. ~(d > k)
  <2>. SUFFICES ASSUME d > k PROVE FALSE
    OBVIOUS
  <2>1. d - k \in Nat /\ d - k >= 1
    BY <1>2
  <2>2. m * (d - k) >= m
    BY <1>1, <2>1
  <2>3. m * d = m * k + m * (d - k)
    BY <1>1, <1>2
  <2>. QED
    BY <1>1, <1>2, <1>3, <2>2, <2>3
<1>5. ~(k > d)
  <2>. SUFFICES ASSUME k > d PROVE FALSE
    OBVIOUS
  <2>1. k - d \in Nat /\ k - d >= 1
    BY <1>2
  <2>2. m * (k - d) >= m
    BY <1>1, <2>1
  <2>3. m * k = m * d + m * (k - d)
    BY <1>1, <1>2
  <2>. QED
    BY <1>1, <1>2, <1>3, <2>2, <2>3
<1>6. d = k
  BY <1>2, <1>4, <1>5
<1>7. x = y
  BY <1>1, <1>2, <1>3, <1>6
<1>. QED
  BY <1>6, <1>7 DEF k, y, n

(* One more binary digit of n.                                             *)
LEMMA OneMoreDigit ==
  ASSUME NEW n \in Nat, NEW m \in Nat \ {0}
  PROVE  n % (2 * m) = (n % m) + (IF (n \div m) % 2 = 1 THEN m ELSE 0)
<1>. DEFINE q == n \div m
            r == n % m
<1>1. q \in Nat /\ r \in 0..(m - 1) /\ n = m * q + r
  OBVIOUS
<1>. HIDE DEF q, r
<1>. DEFINE d == q \div 2
            s == q % 2
<1>2. d \in Nat /\ s \in {0, 1} /\ q = 2 * d + s
  BY <1>1
<1>. HIDE DEF d, s
<1>. DEFINE x == m * s + r
<1>3. x \in 0..(2 * m - 1) /\ x = r + (IF s = 1 THEN m ELSE 0)
  BY <1>1, <1>2
<1>4. n = (2 * m) * d + x
  <2>1. m * q = m * (2 * d) + m * s
    BY <1>2
  <2>2. m * (2 * d) = (2 * m) * d
    BY <1>2
  <2>. QED
    BY <1>1, <1>2, <2>1, <2>2
<1>. HIDE DEF x
<1>5. ((2 * m) * d + x) % (2 * m) = x
  <2>1. 2 * m \in Nat \ {0}
    OBVIOUS
  <2>. QED
    BY <1>2, <1>3, <2>1, DivisionUnique
<1>. QED
  BY <1>3, <1>4, <1>5 DEF q, r, s
=============================================================================
