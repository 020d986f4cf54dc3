----------------------------- MODULE StreamProofs ----------------------------
(***************************************************************************)
(* Proofs about DeltaStream: what the codec encodes it decodes again, for  *)
(* pages of any size, and the deltas that are under way take the standby   *)
(* from the page it has to the page the primary has.                       *)
(***************************************************************************)
EXTENDS DeltaStream, InductionLemmas

-----------------------------------------------------------------------------
(* rle_encode's inner loops: what lies between where they start and where  *)
(* they stop is all zero, or all not zero.                                 *)
LEMMA SkipFacts ==
  ASSUME NEW buf, NEW i \in 1..(PageSize + 1), NEW zero \in BOOLEAN
  PROVE  /\ SkipWhile(buf, i, zero) \in i..(PageSize + 1)
         /\ \A k \in i..(SkipWhile(buf, i, zero) - 1) : (buf[k] = {}) = zero
         /\ SkipWhile(buf, i, zero) <= PageSize => (buf[SkipWhile(buf, i, zero)] = {}) # zero
<1>. DEFINE T == {j \in i..PageSize : (buf[j] = {}) # zero} \cup {PageSize + 1}
            m == SkipWhile(buf, i, zero)
<1>0. PageSize \in Nat
  BY SizeAssumption
<1>1. T \in SUBSET Nat /\ T # {} /\ PageSize + 1 \in T
  BY <1>0
<1>2. m = CHOOSE x \in T : \A y \in T : x <= y
  BY DEF SkipWhile, Min
<1>3. \A j : j \in T <=> (j \in i..PageSize /\ (buf[j] = {}) # zero) \/ j = PageSize + 1
  OBVIOUS
<1>. HIDE DEF T
<1>4. \E x \in T : \A y \in T : x <= y
  BY <1>1, LeastNumber
<1>5. m \in T /\ \A y \in T : m <= y
  BY <1>2, <1>4, Zenon
<1>. HIDE DEF m
<1>6. m \in i..(PageSize + 1) /\ (m <= PageSize => (buf[m] = {}) # zero)
  BY <1>0, <1>3, <1>5
<1>7. ASSUME NEW k \in i..(m - 1) PROVE (buf[k] = {}) = zero
  <2>1. k \in i..PageSize /\ ~(m <= k)
    BY <1>0, <1>6
  <2>2. k \notin T
    BY <1>5, <2>1
  <2>. QED
    BY <1>3, <2>1, <2>2
<1>. QED
  BY <1>6, <1>7 DEF m

(* One turn of rle_encode's outer loop: where its literal begins, where it *)
(* ends, the run it pushes.                                                *)
LitStart(buf, i) == SkipWhile(buf, i, TRUE)
RunEnd(buf, i) == SkipWhile(buf, LitStart(buf, i), FALSE)
RunAt(buf, i) == [zero_run |-> LitStart(buf, i) - i,
                  literal |-> SubSeq(buf, LitStart(buf, i), RunEnd(buf, i) - 1)]

Runs == [zero_run : Nat, literal : Seq(Byte)]

(* A turn moves on, by zero bytes and then by those it copies.             *)
LEMMA TurnFacts ==
  ASSUME NEW buf \in Page, NEW i \in 1..PageSize
  PROVE  /\ LitStart(buf, i) \in i..(PageSize + 1)
         /\ RunEnd(buf, i) \in (i + 1)..(PageSize + 1) /\ LitStart(buf, i) <= RunEnd(buf, i)
         /\ \A k \in i..(LitStart(buf, i) - 1) : buf[k] = {}
         /\ RunAt(buf, i) \in Runs
         /\ RunAt(buf, i).zero_run = LitStart(buf, i) - i
         /\ Len(RunAt(buf, i).literal) = RunEnd(buf, i) - LitStart(buf, i)
         /\ \A k \in LitStart(buf, i)..(RunEnd(buf, i) - 1) :
              RunAt(buf, i).literal[k - LitStart(buf, i) + 1] = buf[k]
<1>. DEFINE m == LitStart(buf, i)
            n == RunEnd(buf, i)
<1>0. PageSize \in Nat /\ i \in 1..(PageSize + 1)
  BY SizeAssumption
<1>1. /\ m \in i..(PageSize + 1) /\ \A k \in i..(m - 1) : (buf[k] = {}) = TRUE
      /\ m <= PageSize => (buf[m] = {}) # TRUE
  BY <1>0, SkipFacts DEF LitStart
<1>2. m \in 1..(PageSize + 1)
  BY <1>0, <1>1
<1>. HIDE DEF m
<1>3. /\ n \in m..(PageSize + 1)
      /\ n <= PageSize => (buf[n] = {}) # FALSE
  BY <1>2, SkipFacts DEF RunEnd, m
<1>. HIDE DEF n
<1>4. n \in (i + 1)..(PageSize + 1)
  <2>1. CASE m <= PageSize
    <3>1. n # m
      BY <1>1, <1>3, <2>1
    <3>. QED
      BY <1>0, <1>1, <1>3, <3>1
  <2>2. CASE m = PageSize + 1
    BY <1>0, <1>3, <2>2
  <2>. QED
    BY <1>0, <1>2, <2>1, <2>2
<1>5. /\ SubSeq(buf, m, n - 1) \in Seq(Byte) /\ Len(SubSeq(buf, m, n - 1)) = n - m
      /\ \A k \in m..(n - 1) : SubSeq(buf, m, n - 1)[k - m + 1] = buf[k]
  <2>1. \A k \in m..(n - 1) : buf[k] \in Byte
    BY <1>0, <1>2, <1>4 DEF Page
  <2>2. m \in Int /\ n - 1 \in Int
    BY <1>0, <1>2, <1>4
  <2>3. /\ SubSeq(buf, m, n - 1) \in Seq(Byte)
        /\ Len(SubSeq(buf, m, n - 1)) = IF m <= n - 1 THEN n - 1 - m + 1 ELSE 0
        /\ \A k \in 1..(n - 1 - m + 1) : SubSeq(buf, m, n - 1)[k] = buf[m + k - 1]
    BY <2>1, <2>2, SubSeqProperties
  <2>4. Len(SubSeq(buf, m, n - 1)) = n - m
    BY <1>3, <2>2, <2>3
  <2>5. ASSUME NEW k \in m..(n - 1) PROVE SubSeq(buf, m, n - 1)[k - m + 1] = buf[k]
    <3>1. k - m + 1 \in 1..(n - 1 - m + 1) /\ m + (k - m + 1) - 1 = k
      BY <2>2
    <3>. QED
      BY <2>3, <3>1
  <2>. QED
    BY <2>3, <2>4, <2>5
<1>6. RunAt(buf, i) = [zero_run |-> m - i, literal |-> SubSeq(buf, m, n - 1)]
  BY DEF RunAt, m, n
<1>7. m - i \in Nat
  BY <1>0, <1>1
<1>8. RunAt(buf, i) \in Runs
  BY <1>5, <1>6, <1>7 DEF Runs
<1>9. m <= n
  BY <1>2, <1>3
<1>10. RunAt(buf, i).zero_run = m - i /\ RunAt(buf, i).literal = SubSeq(buf, m, n - 1)
  BY DEF RunAt, m, n
<1>11. \A k \in i..(m - 1) : buf[k] = {}
  BY <1>1
<1>. QED
  BY <1>1, <1>4, <1>5, <1>8, <1>9, <1>10, <1>11 DEF m, n

(* The turns that make a sequence of runs, one after the other from        *)
(* position i to the end of the page.                                      *)
Covers(runs, at, buf, i) ==
  /\ runs \in Seq(Runs)
  /\ at \in [1..(Len(runs) + 1) -> 1..(PageSize + 1)]
  /\ at[1] = i /\ at[Len(runs) + 1] = PageSize + 1
  /\ \A k \in 1..Len(runs) :
       /\ at[k] \in 1..PageSize /\ at[k + 1] = RunEnd(buf, at[k])
       /\ runs[k] = RunAt(buf, at[k])

(* At the end of the page there is no further turn; before it, a turn and  *)
(* those from where it ends.                                               *)
LEMMA CoversNothing ==
  ASSUME NEW buf
  PROVE  \E at : Covers(<< >>, at, buf, PageSize + 1)
<1>0. PageSize \in Nat
  BY SizeAssumption
<1>. DEFINE at == [k \in 1..1 |-> PageSize + 1]
<1>1. << >> \in Seq(Runs) /\ Len(<< >>) = 0
  OBVIOUS
<1>2. at \in [1..1 -> 1..(PageSize + 1)] /\ at[1] = PageSize + 1
  BY <1>0
<1>. HIDE DEF at
<1>3. Covers(<< >>, at, buf, PageSize + 1)
  BY <1>1, <1>2 DEF Covers
<1>. QED
  BY <1>3

LEMMA CoversOneMore ==
  ASSUME NEW buf \in Page, NEW i \in 1..PageSize, NEW rest, NEW old,
         Covers(rest, old, buf, RunEnd(buf, i))
  PROVE  \E at : Covers(<<RunAt(buf, i)>> \o rest, at, buf, i)
<1>. DEFINE r == RunAt(buf, i)
            all == <<r>> \o rest
            at == [k \in 1..(Len(rest) + 2) |-> IF k = 1 THEN i ELSE old[k - 1]]
<1>0. PageSize \in Nat /\ r \in Runs /\ RunEnd(buf, i) \in 1..(PageSize + 1)
  BY SizeAssumption, TurnFacts
<1>1. /\ rest \in Seq(Runs) /\ Len(rest) \in Nat
      /\ old \in [1..(Len(rest) + 1) -> 1..(PageSize + 1)]
      /\ old[1] = RunEnd(buf, i) /\ old[Len(rest) + 1] = PageSize + 1
  BY DEF Covers
<1>. HIDE DEF r
<1>2. /\ all \in Seq(Runs) /\ Len(all) = Len(rest) + 1 /\ all[1] = r
      /\ \A k \in 2..(Len(rest) + 1) : all[k] = rest[k - 1]
  BY <1>0, <1>1
<1>3. at \in [1..(Len(rest) + 2) -> 1..(PageSize + 1)]
  BY <1>0, <1>1
<1>4. at[1] = i /\ at[Len(rest) + 2] = PageSize + 1
  BY <1>1
<1>5. \A k \in 2..(Len(rest) + 2) : at[k] = old[k - 1]
  BY <1>1
<1>. HIDE DEF all, at
<1>6. ASSUME NEW k \in 1..Len(all)
      PROVE  /\ at[k] \in 1..PageSize /\ at[k + 1] = RunEnd(buf, at[k])
             /\ all[k] = RunAt(buf, at[k])
  <2>1. CASE k = 1
    <3>1. at[2] = old[1]
      BY <1>1, <1>5
    <3>. QED
      BY <1>1, <1>2, <1>4, <2>1, <3>1 DEF r
  <2>2. CASE k # 1
    <3>1. k \in 2..(Len(rest) + 1) /\ k - 1 \in 1..Len(rest) /\ k + 1 \in 2..(Len(rest) + 2)
      BY <1>1, <1>2, <2>2
    <3>2. at[k] = old[k - 1] /\ at[k + 1] = old[(k - 1) + 1] /\ all[k] = rest[k - 1]
      BY <1>1, <1>2, <1>5, <3>1
    <3>. QED
      BY <3>1, <3>2 DEF Covers
  <2>. QED
    BY <2>1, <2>2
<1>7. Covers(all, at, buf, i)
  <2>1. Len(all) + 1 = Len(rest) + 2
    BY <1>1, <1>2
  <2>. QED
    BY <1>2, <1>3, <1>4, <1>6, <2>1 DEF Covers
<1>. QED
  BY <1>7 DEF all, r

(* rle_encode's result is made of such turns from the start of the page.   *)
LEMMA EncodeCovers ==
  ASSUME NEW buf \in Page
  PROVE  \E at : Covers(RleEncode(buf), at, buf, 1)
<1>. DEFINE P == PageSize + 1
            Next(f, i) == IF i > PageSize THEN << >> ELSE <<RunAt(buf, i)>> \o f[RunEnd(buf, i)]
            Eq(f, m) == f = [i \in m..P |-> Next(f, i)]
            S == {k \in 0..PageSize : \E f : Eq(f, P - k)}
            h == CHOOSE f : Eq(f, 1)
<1>0. PageSize \in Nat /\ P \in Nat /\ P - PageSize = 1 /\ P - 0 = P
  BY SizeAssumption
<1>1. RleEncode(buf) = h[1]
  BY Zenon DEF RleEncode, RunAt, RunEnd, LitStart
<1>2. 0 \in S
  <2>1. Eq([i \in P..P |-> << >>], P - 0)
    BY <1>0
  <2>. HIDE DEF Eq
  <2>. QED
    BY <1>0, <2>1
<1>3. ASSUME NEW k \in 1..PageSize, k - 1 \in S PROVE k \in S
  <2>. DEFINE m == P - k
  <2>0. m \in 1..PageSize /\ m + 1 = P - (k - 1) /\ k \in 0..PageSize
    BY <1>0
  <2>1. PICK f : Eq(f, m + 1)
    BY <1>3, <2>0
  <2>. HIDE DEF m, P
  <2>. DEFINE g == [i \in m..P |-> IF i = m THEN Next(f, m) ELSE f[i]]
  <2>2. ASSUME NEW i \in m..P PROVE g[i] = Next(g, i)
    <3>1. CASE i > PageSize
      BY <2>0, <2>1, <3>1
    <3>2. CASE i <= PageSize
      <4>1. i \in 1..PageSize
        BY <1>0, <2>0, <3>2
      <4>2. RunEnd(buf, i) \in (i + 1)..P
        BY <4>1, TurnFacts DEF P
      <4>3. RunEnd(buf, i) \in (m + 1)..P /\ RunEnd(buf, i) # m
        BY <1>0, <2>0, <4>1, <4>2
      <4>4. g[RunEnd(buf, i)] = f[RunEnd(buf, i)]
        BY <2>0, <4>3
      <4>5. Next(g, i) = Next(f, i)
        BY <4>4
      <4>6. g[i] = Next(f, i)
        <5>1. CASE i = m
          BY <5>1
        <5>2. CASE i # m
          <6>1. i \in (m + 1)..P
            BY <2>0, <5>2
          <6>. HIDE DEF Next
          <6>. QED
            BY <2>1, <5>2, <6>1
        <5>. QED
          BY <5>1, <5>2
      <4>. QED
        BY <4>5, <4>6
    <3>. QED
      BY <1>0, <2>0, <3>1, <3>2 DEF P
  <2>3. g = [i \in m..P |-> g[i]]
    OBVIOUS
  <2>. HIDE DEF g, Next
  <2>4. Eq(g, m)
    BY <2>2, <2>3
  <2>. HIDE DEF Eq
  <2>. QED
    BY <2>0, <2>4 DEF m
<1>4. \A k \in 0..PageSize : k \in S
  <2>. HIDE DEF S
  <2>. QED
    BY <1>0, <1>2, <1>3, BoundedInduction
<1>5. Eq(h, 1)
  <2>1. PageSize \in 0..PageSize
    BY <1>0
  <2>2. \E f : Eq(f, 1)
    BY <1>0, <1>4, <2>1
  <2>. HIDE DEF Eq
  <2>. QED
    BY <2>2, Zenon
<1>. HIDE DEF h
<1>6. \A i \in 1..P : h[i] = Next(h, i)
  <2>. HIDE DEF Next
  <2>. QED
    BY <1>5
<1>. DEFINE U == {k \in 0..PageSize : \A i \in (P - k)..P : \E at : Covers(h[i], at, buf, i)}
<1>7. 0 \in U
  <2>1. h[P] = << >>
    <3>1. P \in 1..P /\ P > PageSize
      BY <1>0
    <3>2. Next(h, P) = << >>
      BY <3>1
    <3>. HIDE DEF Next, P
    <3>. QED
      BY <1>6, <3>1, <3>2
  <2>2. \A i \in (P - 0)..P : i = P
    BY <1>0
  <2>. QED
    BY <1>0, <2>1, <2>2, CoversNothing
<1>8. ASSUME NEW k \in 1..PageSize, k - 1 \in U PROVE k \in U
  <2>. DEFINE m == P - k
              e == RunEnd(buf, m)
  <2>0. m \in 1..PageSize /\ m + 1 = P - (k - 1) /\ k \in 0..PageSize /\ m \in 1..P
    BY <1>0
  <2>1. e \in (m + 1)..P
    BY <2>0, TurnFacts
  <2>2. PICK old : Covers(h[e], old, buf, e)
    BY <1>8, <2>0, <2>1
  <2>3. h[m] = <<RunAt(buf, m)>> \o h[e]
    <3>1. ~(m > PageSize)
      BY <1>0, <2>0
    <3>2. Next(h, m) = <<RunAt(buf, m)>> \o h[e]
      BY <3>1
    <3>. HIDE DEF Next, m, P
    <3>. QED
      BY <1>6, <2>0, <3>2
  <2>. HIDE DEF m
  <2>4. \E at : Covers(h[m], at, buf, m)
    BY <2>0, <2>2, <2>3, CoversOneMore
  <2>5. \A i \in m..P : i = m \/ i \in (m + 1)..P
    BY <1>0, <2>0
  <2>6. \A i \in (m + 1)..P : \E at : Covers(h[i], at, buf, i)
    BY <1>8, <2>0
  <2>. HIDE DEF P
  <2>. QED
    BY <2>0, <2>4, <2>5, <2>6 DEF m
<1>9. \A k \in 0..PageSize : k \in U
  <2>. HIDE DEF U
  <2>. QED
    BY <1>0, <1>7, <1>8, BoundedInduction
<1>10. 1 \in (P - PageSize)..P /\ PageSize \in 0..PageSize
  BY <1>0
<1>11. \E at : Covers(h[1], at, buf, 1)
  BY <1>9, <1>10
<1>. QED
  BY <1>1, <1>11

-----------------------------------------------------------------------------
(* What rle_decode's loop goes through.                                    *)
Decodes(acc, runs) ==
  /\ acc[0] = [pos |-> 0, page |-> ZeroPage]
  /\ \A k \in 1..Len(runs) : acc[k] = PlaceRun(acc[k - 1], runs[k])

LEMMA DecodeUnfolds ==
  ASSUME NEW runs, Len(runs) \in Nat
  PROVE  \E acc : Decodes(acc, runs) /\ RleDecode(runs) = acc[Len(runs)].page
<1>. DEFINE base == [pos |-> 0, page |-> ZeroPage]
            Next(k, v) == PlaceRun(v, runs[k])
            Eq(f, n) == f = [k \in 0..n |-> IF k = 0 THEN base ELSE Next(k, f[k - 1])]
            S == {n \in Nat : \E f : Eq(f, n)}
            h == CHOOSE f : Eq(f, Len(runs))
<1>1. RleDecode(runs) = h[Len(runs)].page
  BY Zenon DEF RleDecode
<1>. HIDE DEF Next, base
<1>2. 0 \in S
  <2>1. Eq([k \in 0..0 |-> base], 0)
    OBVIOUS
  <2>. HIDE DEF Eq
  <2>. QED
    BY <2>1
<1>3. ASSUME NEW n \in Nat, n \in S PROVE n + 1 \in S
  <2>1. PICK f : Eq(f, n)
    BY <1>3
  <2>. DEFINE g == [k \in 0..(n + 1) |-> IF k = n + 1 THEN Next(n + 1, f[n]) ELSE f[k]]
  <2>2. Eq(g, n + 1)
    BY <2>1
  <2>. HIDE DEF Eq, g
  <2>. QED
    BY <2>2
<1>4. \A n \in Nat : n \in S
  <2>. HIDE DEF S
  <2>. QED
    BY <1>2, <1>3, SetInduction
<1>5. Eq(h, Len(runs))
  <2>1. \E f : Eq(f, Len(runs))
    BY <1>4
  <2>. HIDE DEF Eq
  <2>. QED
    BY <2>1, Zenon
<1>. HIDE DEF h
<1>6. h[0] = base /\ \A k \in 1..Len(runs) : h[k] = Next(k, h[k - 1])
  BY <1>5
<1>7. Decodes(h, runs)
  BY <1>6 DEF Decodes, Next, base
<1>. QED
  BY <1>1, <1>7

(* The page as far as it is decoded before position i.                     *)
Upto(buf, i) == [pos |-> i - 1, page |-> [j \in 1..PageSize |-> IF j < i THEN buf[j] ELSE {}]]

(* A turn of rle_decode makes up for a turn of rle_encode.                 *)
LEMMA TurnUndone ==
  ASSUME NEW buf \in Page, NEW i \in 1..PageSize
  PROVE  PlaceRun(Upto(buf, i), RunAt(buf, i)) = Upto(buf, RunEnd(buf, i))
<1>. DEFINE r == RunAt(buf, i)
            m == LitStart(buf, i)
            n == RunEnd(buf, i)
            acc == Upto(buf, i)
            page == [j \in 1..PageSize |-> IF m - 1 < j /\ j <= n - 1 THEN r.literal[j - (m - 1)]
                                           ELSE acc.page[j]]
<1>0. PageSize \in Nat
  BY SizeAssumption
<1>1. /\ m \in i..(PageSize + 1) /\ n \in (i + 1)..(PageSize + 1) /\ m <= n
      /\ \A k \in i..(m - 1) : buf[k] = {}
      /\ r.zero_run = m - i /\ Len(r.literal) = n - m
      /\ \A k \in m..(n - 1) : r.literal[k - m + 1] = buf[k]
  BY TurnFacts
<1>2. /\ acc.pos = i - 1
      /\ acc.page = [j \in 1..PageSize |-> IF j < i THEN buf[j] ELSE {}]
  BY DEF Upto
<1>. HIDE DEF r, m, n, acc
<1>3. acc.pos + r.zero_run = m - 1 /\ acc.pos + r.zero_run + Len(r.literal) = n - 1
  BY <1>0, <1>1, <1>2
<1>4. Min({n - 1, PageSize}) = n - 1
  <2>. DEFINE T == {n - 1, PageSize}
  <2>1. n - 1 \in T /\ \A y \in T : n - 1 <= y
    BY <1>0, <1>1
  <2>2. \A x \in T : (\A y \in T : x <= y) => x = n - 1
    BY <1>0, <1>1
  <2>3. Min(T) = CHOOSE x \in T : \A y \in T : x <= y
    BY DEF Min
  <2>. HIDE DEF T
  <2>4. Min(T) = n - 1
    BY <2>1, <2>2, <2>3
  <2>. QED
    BY <2>4 DEF T
<1>5. PlaceRun(acc, r) = [pos |-> n - 1, page |-> page]
  BY <1>3, <1>4 DEF PlaceRun
<1>6. ASSUME NEW j \in 1..PageSize PROVE page[j] = IF j < n THEN buf[j] ELSE {}
  <2>1. acc.page[j] = IF j < i THEN buf[j] ELSE {}
    BY <1>2
  <2>2. CASE j < m
    <3>1. page[j] = acc.page[j]
      BY <1>0, <1>1, <2>2
    <3>2. j < n /\ (j < i \/ j \in i..(m - 1))
      BY <1>0, <1>1, <2>2
    <3>. QED
      BY <1>1, <2>1, <3>1, <3>2
  <2>3. CASE j \in m..(n - 1)
    <3>1. m - 1 < j /\ j <= n - 1 /\ j - (m - 1) = j - m + 1 /\ j < n
      BY <1>0, <1>1, <2>3
    <3>. QED
      BY <1>1, <2>3, <3>1
  <2>4. CASE n <= j
    <3>1. ~(j <= n - 1) /\ ~(j < i) /\ ~(j < n)
      BY <1>0, <1>1, <2>4
    <3>. QED
      BY <2>1, <3>1
  <2>. QED
    BY <1>0, <1>1, <2>2, <2>3, <2>4
<1>7. page = [j \in 1..PageSize |-> IF j < n THEN buf[j] ELSE {}]
  BY <1>6
<1>. HIDE DEF page
<1>8. PlaceRun(acc, r) = Upto(buf, n)
  BY <1>5, <1>7 DEF Upto
<1>. QED
  BY <1>8 DEF acc, r, n

(* delta.rs:152-190: whatever page is encoded, it is decoded again.        *)
THEOREM CodecRoundTrip == \A buf \in Page : RleDecode(RleEncode(buf)) = buf
<1>. SUFFICES ASSUME NEW buf \in Page PROVE RleDecode(RleEncode(buf)) = buf
  OBVIOUS
<1>. DEFINE runs == RleEncode(buf)
<1>0. PageSize \in Nat
  BY SizeAssumption
<1>1. PICK at : Covers(runs, at, buf, 1)
  BY EncodeCovers
<1>. HIDE DEF runs
<1>2. runs \in Seq(Runs) /\ Len(runs) \in Nat
  BY <1>1 DEF Covers
<1>3. PICK acc : Decodes(acc, runs) /\ RleDecode(runs) = acc[Len(runs)].page
  BY <1>2, DecodeUnfolds
<1>. DEFINE S == {k \in 0..Len(runs) : acc[k] = Upto(buf, at[k + 1])}
<1>4. 0 \in S
  <2>1. at[0 + 1] = 1 /\ acc[0] = [pos |-> 0, page |-> ZeroPage]
    BY <1>1, <1>3 DEF Covers, Decodes
  <2>2. ZeroPage = [j \in 1..PageSize |-> IF j < 1 THEN buf[j] ELSE {}]
    BY <1>0 DEF ZeroPage
  <2>3. acc[0] = Upto(buf, 1)
    BY <2>1, <2>2 DEF Upto
  <2>. QED
    BY <1>2, <2>1, <2>3
<1>5. ASSUME NEW k \in 1..Len(runs), k - 1 \in S PROVE k \in S
  <2>1. /\ at[k] \in 1..PageSize /\ at[k + 1] = RunEnd(buf, at[k])
        /\ runs[k] = RunAt(buf, at[k])
    BY <1>1 DEF Covers
  <2>2. acc[k] = PlaceRun(acc[k - 1], runs[k])
    BY <1>3 DEF Decodes
  <2>3. (k - 1) + 1 = k /\ k \in 0..Len(runs)
    BY <1>2
  <2>4. acc[k - 1] = Upto(buf, at[k])
    BY <1>5, <2>3
  <2>. QED
    BY <2>1, <2>2, <2>3, <2>4, TurnUndone
<1>6. \A k \in 0..Len(runs) : k \in S
  <2>. HIDE DEF S
  <2>. QED
    BY <1>2, <1>4, <1>5, BoundedInduction
<1>7. acc[Len(runs)] = Upto(buf, PageSize + 1)
  <2>1. Len(runs) \in S
    BY <1>2, <1>6
  <2>. QED
    BY <1>1, <2>1 DEF Covers
<1>8. acc[Len(runs)].page = [j \in 1..PageSize |-> IF j < PageSize + 1 THEN buf[j] ELSE {}]
  BY <1>7 DEF Upto
<1>9. buf = [j \in 1..PageSize |-> IF j < PageSize + 1 THEN buf[j] ELSE {}]
  BY <1>0 DEF Page
<1>. QED
  BY <1>3, <1>8, <1>9 DEF runs

-----------------------------------------------------------------------------
(* XOR twice with the same page is nothing.                                *)
LEMMA XorTwice ==
  ASSUME NEW b \in Page, NEW c \in Page
  PROVE  XorPage(b, c) \in Page /\ XorPage(b, XorPage(b, c)) = c
<1>. DEFINE x == XorPage(b, c)
<1>1. /\ x = [i \in 1..PageSize |-> (b[i] \ c[i]) \cup (c[i] \ b[i])]
      /\ XorPage(b, x) = [i \in 1..PageSize |-> (b[i] \ x[i]) \cup (x[i] \ b[i])]
  BY DEF XorPage
<1>. HIDE DEF x
<1>2. \A i \in 1..PageSize : b[i] \subseteq Bits /\ c[i] \subseteq Bits
  BY DEF Page, Byte
<1>3. \A i \in 1..PageSize : x[i] = (b[i] \ c[i]) \cup (c[i] \ b[i])
  BY <1>1
<1>4. x \in Page
  <2>1. \A i \in 1..PageSize : x[i] \in Byte
    BY <1>2, <1>3 DEF Byte
  <2>. QED
    BY <1>1, <2>1 DEF Page
<1>5. ASSUME NEW i \in 1..PageSize PROVE (b[i] \ x[i]) \cup (x[i] \ b[i]) = c[i]
  BY <1>3
<1>6. c = [i \in 1..PageSize |-> c[i]]
  BY DEF Page
<1>7. XorPage(b, x) = c
  BY <1>1, <1>5, <1>6
<1>. QED
  BY <1>4, <1>7 DEF x

(* The size of an encoding is a number.                                    *)
LEMMA EncodedLenType ==
  ASSUME NEW runs \in Seq(Runs)
  PROVE  EncodedLen(runs) \in Nat
<1>. DEFINE n == Len(runs)
            Next(k, v) == v + RunHeader + Len(runs[k].literal)
            step == [q \in (1..n) \X Nat |-> Next(q[1], q[2])]
            Eq(f) == f = [k \in 0..n |-> IF k = 0 THEN 0 ELSE Next(k, f[k - 1])]
            h == CHOOSE f : Eq(f)
<1>1. EncodedLen(runs) = h[n]
  BY Zenon DEF EncodedLen
<1>2. n \in Nat /\ n \in 0..n
  OBVIOUS
<1>3. ASSUME NEW k \in 1..n, NEW v \in Nat PROVE Next(k, v) \in Nat
  <2>1. runs[k] \in Runs
    OBVIOUS
  <2>2. Len(runs[k].literal) \in Nat
    BY <2>1 DEF Runs
  <2>. DEFINE len == Len(runs[k].literal)
  <2>. HIDE DEF len
  <2>3. len \in Nat /\ RunHeader \in Nat
    BY <2>2, SizeAssumption DEF len
  <2>4. v + RunHeader + len \in Nat
    BY <2>3
  <2>. QED
    BY <2>4 DEF len
<1>. HIDE DEF Next
<1>4. StepsIn(n, Nat, 0, step)
  BY <1>2, <1>3 DEF StepsIn
<1>5. \A k \in 1..n : \A v \in Nat : step[<<k, v>>] = Next(k, v)
  OBVIOUS
<1>. HIDE DEF step, n
<1>6. PICK f : Iterates(f, n, Nat, 0, step)
  BY <1>4, RecursionExists
<1>7. Eq(f)
  <2>1. \A k \in 1..n : k - 1 \in 0..n
    BY <1>2
  <2>2. \A k \in 1..n : f[k] = Next(k, f[k - 1])
    BY <1>5, <1>6, <2>1 DEF Iterates
  <2>3. \A k \in 0..n : k = 0 \/ k \in 1..n
    BY <1>2
  <2>4. f = [k \in 0..n |-> f[k]] /\ f[0] = 0
    BY <1>6 DEF Iterates
  <2>. QED
    BY <2>2, <2>3, <2>4
<1>8. Eq(h)
  BY <1>7, Zenon
<1>. HIDE DEF h
<1>9. Iterates(h, n, Nat, 0, step)
  <2>1. \A k \in 1..n : k \in 0..n /\ k # 0
    BY <1>2
  <2>2. \A k \in 1..n : h[k] = Next(k, h[k - 1])
    BY <1>8, <2>1
  <2>3. DOMAIN h = 0..n /\ h = [k \in 0..n |-> h[k]] /\ h[0] = 0
    BY <1>2, <1>8
  <2>4. GoesOn(h, n, Nat, 0, step)
    BY <1>5, <2>2, <2>3 DEF GoesOn
  <2>. QED
    BY <1>4, <2>4, StaysWithin
<1>10. h[n] \in Nat
  BY <1>2, <1>9 DEF Iterates
<1>. QED
  BY <1>1, <1>10

Delta == [kind : {"Raw"}, bytes : Page] \cup [kind : {"Xor"}, runs : Seq(Runs)]

Batches == [tick : Nat, deltas : UNION {[S -> Delta] : S \in SUBSET Pages}]

(* A delta, sent from an engine to another: it is well formed, smaller     *)
(* than the page if it is encoded, and gives the page at an engine that    *)
(* agrees with the sender on its last state; if it is raw, at any engine.  *)
LEMMA DiffApplies ==
  ASSUME NEW e, NEW p, NEW current \in Page, e.baseline[p] \in Page
  PROVE  LET delta == Diff(e, p, current)
         IN  /\ delta \in Delta
             /\ delta.kind = "Xor" => EncodedLen(delta.runs) <= PageSize
             /\ \A f : /\ delta.kind = "Raw" => Apply(f, p, delta) = current
                       /\ f.baseline[p] = e.baseline[p]
                            /\ (p \in f.have_baseline <=> p \in e.have_baseline)
                            => Apply(f, p, delta) = current
<1>. DEFINE delta == Diff(e, p, current)
            b == e.baseline[p]
            x == XorPage(b, current)
            runs == RleEncode(x)
<1>1. x \in Page /\ XorPage(b, x) = current
  BY XorTwice
<1>. HIDE DEF b, x
<1>2. runs \in Seq(Runs) /\ RleDecode(runs) = x
  <2>1. PICK at : Covers(runs, at, x, 1)
    BY <1>1, EncodeCovers
  <2>2. runs \in Seq(Runs)
    BY <2>1 DEF Covers
  <2>3. RleDecode(runs) = x
    BY <1>1, CodecRoundTrip
  <2>. QED
    BY <2>2, <2>3
<1>. HIDE DEF runs
<1>3. EncodedLen(runs) \in Nat /\ PageSize \in Nat
  BY <1>2, EncodedLenType, SizeAssumption
<1>4. delta = IF p \in e.have_baseline /\ EncodedLen(runs) < PageSize
              THEN [kind |-> "Xor", runs |-> runs] ELSE [kind |-> "Raw", bytes |-> current]
  BY DEF Diff, runs, x, b
<1>. HIDE DEF delta
<1>5. CASE p \in e.have_baseline /\ EncodedLen(runs) < PageSize
  <2>1. delta = [kind |-> "Xor", runs |-> runs]
    BY <1>4, <1>5
  <2>2. delta.kind = "Xor" /\ delta.runs = runs
    BY <2>1
  <2>3. delta \in Delta
    BY <1>2, <2>1 DEF Delta
  <2>4. EncodedLen(delta.runs) <= PageSize
    BY <1>3, <1>5, <2>2
  <2>5. ASSUME NEW f, f.baseline[p] = b, p \in f.have_baseline
        PROVE  Apply(f, p, delta) = current
    <3>1. Apply(f, p, delta) = XorPage(b, RleDecode(runs))
      BY <2>2, <2>5 DEF Apply
    <3>. QED
      BY <1>1, <1>2, <3>1
  <2>. QED
    BY <1>5, <2>2, <2>3, <2>4, <2>5 DEF delta, b
<1>6. CASE ~(p \in e.have_baseline /\ EncodedLen(runs) < PageSize)
  <2>1. delta = [kind |-> "Raw", bytes |-> current]
    BY <1>4, <1>6
  <2>2. delta.kind = "Raw" /\ delta.bytes = current
    BY <2>1
  <2>3. delta \in Delta
    BY <2>1 DEF Delta
  <2>4. \A f : Apply(f, p, delta) = current
    BY <2>2 DEF Apply
  <2>. QED
    BY <2>2, <2>3, <2>4 DEF delta
<1>. QED
  BY <1>5, <1>6

-----------------------------------------------------------------------------
(* The engines that a standby becomes as it applies the batches of s.      *)
Follows(e, first, s) ==
  e[0] = first /\ \A i \in 1..Len(s) : e[i] = ApplyAll(e[i - 1], s[i].deltas)

(* The last of them has the primary's pages, and has seen the pages that   *)
(* the primary's engine has seen, but for those that missed a delta.       *)
Reaches(first, s, mem, have, miss) ==
  \E e : /\ Follows(e, first, s)
         /\ \A p \in Pages \ miss : /\ e[Len(s)].baseline[p] = mem[p]
                                    /\ p \in e[Len(s)].have_baseline <=> p \in have

(* The fold of StandbyReconstructs goes through such engines.              *)
LEMMA ReachesLast ==
  ASSUME Len(Undelivered) \in Nat, NEW have,
         Reaches(standby, Undelivered, memory, have, missed)
  PROVE  StandbyReconstructs
<1>. DEFINE s == Undelivered
            n == Len(s)
            Next(i, v) == ApplyAll(v, s[i].deltas)
            Eq(f, m) == f = [i \in 0..m |-> IF i = 0 THEN standby ELSE Next(i, f[i - 1])]
            S == {m \in Nat : \E f : Eq(f, m)}
            h == CHOOSE f : Eq(f, n)
<1>1. StandbyReconstructs <=> \A p \in Pages \ missed : h[n].baseline[p] = memory[p]
  BY Zenon DEF StandbyReconstructs
<1>. HIDE DEF Next
<1>2. 0 \in S
  <2>1. Eq([i \in 0..0 |-> standby], 0)
    OBVIOUS
  <2>. HIDE DEF Eq
  <2>. QED
    BY <2>1
<1>3. ASSUME NEW m \in Nat, m \in S PROVE m + 1 \in S
  <2>1. PICK f : Eq(f, m)
    BY <1>3
  <2>. DEFINE g == [i \in 0..(m + 1) |-> IF i = m + 1 THEN Next(m + 1, f[m]) ELSE f[i]]
  <2>2. Eq(g, m + 1)
    BY <2>1
  <2>. HIDE DEF Eq, g
  <2>. QED
    BY <2>2
<1>4. \A m \in Nat : m \in S
  <2>. HIDE DEF S
  <2>. QED
    BY <1>2, <1>3, SetInduction
<1>5. Eq(h, n)
  <2>1. \E f : Eq(f, n)
    BY <1>4
  <2>. HIDE DEF Eq
  <2>. QED
    BY <2>1, Zenon
<1>. HIDE DEF h
<1>6. h[0] = standby /\ \A i \in 1..n : h[i] = Next(i, h[i - 1])
  BY <1>5
<1>7. PICK e : /\ Follows(e, standby, s)
               /\ \A p \in Pages \ missed : e[n].baseline[p] = memory[p]
  BY DEF Reaches
<1>8. e[0] = standby /\ \A i \in 1..n : e[i] = Next(i, e[i - 1])
  BY <1>7 DEF Follows, Next
<1>9. AgreeFurther(h, e, n)
  BY <1>6, <1>8 DEF AgreeFurther
<1>. HIDE DEF n
<1>10. n \in Nat
  BY DEF n
<1>11. h[n] = e[n]
  <2>1. \A i \in 0..n : h[i] = e[i]
    BY <1>9, <1>10, AgreeStepwise
  <2>. QED
    BY <1>10, <2>1
<1>. QED
  BY <1>1, <1>7, <1>11

(* diff_and_commit for the pages of a flush, and their batch at the end of *)
(* the line: pages that missed nothing get right, and those that a raw     *)
(* delta carries.                                                          *)
Diffed(eng, now, pages, b, raw) ==
  /\ DOMAIN b.deltas = pages /\ pages \subseteq Pages /\ now \in [Pages -> Page]
  /\ eng.baseline \in [Pages -> Page]
  /\ \A p \in pages : b.deltas[p] = Diff(eng, p, now[p])
  /\ \A p \in Pages \ pages : now[p] = eng.baseline[p]
  /\ raw = {p \in pages : b.deltas[p].kind = "Raw"}

LEMMA FlushReaches ==
  ASSUME NEW first, NEW s \in Seq(Batches), NEW eng, NEW miss, NEW now, NEW pages, NEW b \in Batches,
         NEW raw, Diffed(eng, now, pages, b, raw),
         Reaches(first, s, eng.baseline, eng.have_baseline, miss)
  PROVE  Reaches(first, Append(s, b), now, eng.have_baseline \cup pages, miss \ raw)
<1>. DEFINE n == Len(s)
            t == Append(s, b)
<1>0. /\ DOMAIN b.deltas = pages /\ pages \subseteq Pages /\ now \in [Pages -> Page]
      /\ eng.baseline \in [Pages -> Page]
      /\ \A p \in pages : b.deltas[p] = Diff(eng, p, now[p])
      /\ \A p \in Pages \ pages : now[p] = eng.baseline[p]
      /\ \A p \in raw : p \in pages /\ b.deltas[p].kind = "Raw"
  BY DEF Diffed
<1>1. PICK e : /\ Follows(e, first, s)
               /\ \A p \in Pages \ miss : /\ e[n].baseline[p] = eng.baseline[p]
                                          /\ p \in e[n].have_baseline <=> p \in eng.have_baseline
  BY DEF Reaches
<1>2. n \in Nat /\ Len(t) = n + 1 /\ t[n + 1] = b /\ \A i \in 1..n : t[i] = s[i]
  OBVIOUS
<1>. DEFINE last == ApplyAll(e[n], b.deltas)
            f == [i \in 0..(n + 1) |-> IF i = n + 1 THEN last ELSE e[i]]
<1>3. f[n + 1] = last /\ \A i \in 0..n : f[i] = e[i]
  BY <1>2
<1>. HIDE DEF n, t, f
<1>4. Follows(f, first, t)
  <2>1. f[0] = first
    BY <1>1, <1>2, <1>3 DEF Follows
  <2>2. ASSUME NEW i \in 1..n PROVE f[i] = ApplyAll(f[i - 1], t[i].deltas)
    <3>1. i \in 0..n /\ i - 1 \in 0..n
      BY <1>2
    <3>2. e[i] = ApplyAll(e[i - 1], s[i].deltas)
      BY <1>1 DEF Follows, n
    <3>. QED
      BY <1>2, <1>3, <3>1, <3>2
  <2>3. f[n + 1] = ApplyAll(f[n], t[n + 1].deltas)
    BY <1>2, <1>3
  <2>4. \A i \in 1..(n + 1) : i \in 1..n \/ i = n + 1
    BY <1>2
  <2>5. (n + 1) - 1 = n
    BY <1>2
  <2>. HIDE DEF last
  <2>. QED
    BY <1>2, <2>1, <2>2, <2>3, <2>4, <2>5 DEF Follows
<1>5. /\ \A p \in Pages : last.baseline[p] = IF p \in pages THEN Apply(e[n], p, b.deltas[p])
                                             ELSE e[n].baseline[p]
      /\ last.have_baseline = e[n].have_baseline \cup pages
  BY <1>0 DEF ApplyAll
<1>. HIDE DEF last
<1>6. ASSUME NEW p \in Pages \ (miss \ raw)
      PROVE  /\ last.baseline[p] = now[p]
             /\ p \in last.have_baseline <=> p \in eng.have_baseline \cup pages
  <2>1. CASE p \in pages
    <3>1. now[p] \in Page /\ eng.baseline[p] \in Page
      BY <1>0
    <3>2. /\ last.baseline[p] = Apply(e[n], p, b.deltas[p]) /\ p \in last.have_baseline
          /\ b.deltas[p] = Diff(eng, p, now[p])
      BY <1>0, <1>5, <2>1
    <3>3. CASE p \in raw
      <4>1. b.deltas[p].kind = "Raw"
        BY <1>0, <3>3
      <4>. QED
        BY <2>1, <3>1, <3>2, <4>1, DiffApplies
    <3>4. CASE p \notin miss
      <4>1. e[n].baseline[p] = eng.baseline[p]
            /\ (p \in e[n].have_baseline <=> p \in eng.have_baseline)
        BY <1>1, <3>4
      <4>. QED
        BY <2>1, <3>1, <3>2, <4>1, DiffApplies
    <3>. QED
      BY <3>3, <3>4
  <2>2. CASE p \notin pages
    BY <1>0, <1>1, <1>5, <2>2
  <2>. QED
    BY <2>1, <2>2
<1>. QED
  BY <1>2, <1>3, <1>4, <1>6 DEF Reaches, t

(* The last batch is refused: what was true of the pages that it does not  *)
(* carry is true without it.                                               *)
LEMMA RefusalReaches ==
  ASSUME NEW first, NEW s \in Seq(Batches), NEW b \in Batches, NEW mem, NEW have, NEW miss,
         Reaches(first, Append(s, b), mem, have, miss)
  PROVE  Reaches(first, s, mem, have, miss \cup DOMAIN b.deltas)
<1>. DEFINE n == Len(s)
            t == Append(s, b)
<1>1. n \in Nat /\ Len(t) = n + 1 /\ t[n + 1] = b /\ \A i \in 1..n : t[i] = s[i]
  OBVIOUS
<1>2. PICK e : /\ Follows(e, first, t)
               /\ \A p \in Pages \ miss : /\ e[Len(t)].baseline[p] = mem[p]
                                          /\ p \in e[Len(t)].have_baseline <=> p \in have
  BY DEF Reaches
<1>. HIDE DEF n, t
<1>3. Follows(e, first, s)
  BY <1>1, <1>2 DEF Follows, n
<1>4. e[n + 1] = ApplyAll(e[n], b.deltas)
  <2>1. n + 1 \in 1..Len(t) /\ (n + 1) - 1 = n
    BY <1>1
  <2>2. e[n + 1] = ApplyAll(e[(n + 1) - 1], t[n + 1].deltas)
    BY <1>2, <2>1 DEF Follows
  <2>. QED
    BY <1>1, <2>1, <2>2
<1>5. ASSUME NEW p \in Pages \ (miss \cup DOMAIN b.deltas)
      PROVE  /\ e[n].baseline[p] = mem[p]
             /\ p \in e[n].have_baseline <=> p \in have
  <2>1. /\ e[n + 1].baseline[p] = e[n].baseline[p]
        /\ p \in e[n + 1].have_baseline <=> p \in e[n].have_baseline
    BY <1>4 DEF ApplyAll
  <2>. QED
    BY <1>1, <1>2, <2>1
<1>. QED
  BY <1>3, <1>5 DEF Reaches, n

(* The standby applies the first batch: it is one engine further.          *)
LEMMA ApplyReaches ==
  ASSUME NEW first, NEW s, NEW t, NEW mem, NEW have, NEW miss, Len(t) \in Nat,
         Len(s) = Len(t) + 1, \A i \in 1..Len(t) : t[i] = s[i + 1],
         Reaches(first, s, mem, have, miss)
  PROVE  Reaches(ApplyAll(first, s[1].deltas), t, mem, have, miss)
<1>. DEFINE n == Len(t)
            next == ApplyAll(first, s[1].deltas)
<1>1. PICK e : /\ Follows(e, first, s)
               /\ \A p \in Pages \ miss : /\ e[n + 1].baseline[p] = mem[p]
                                          /\ p \in e[n + 1].have_baseline <=> p \in have
  BY DEF Reaches
<1>. DEFINE f == [i \in 0..n |-> e[i + 1]]
<1>2. e[0] = first /\ \A i \in 1..(n + 1) : e[i] = ApplyAll(e[i - 1], s[i].deltas)
  BY <1>1 DEF Follows
<1>3. e[1] = next
  BY <1>2
<1>4. \A i \in 0..n : f[i] = e[i + 1]
  OBVIOUS
<1>. HIDE DEF f, next
<1>5. f[0] = next /\ f[n] = e[n + 1]
  BY <1>3, <1>4
<1>6. ASSUME NEW i \in 1..n PROVE f[i] = ApplyAll(f[i - 1], t[i].deltas)
  <2>1. i + 1 \in 1..(n + 1) /\ (i + 1) - 1 = i /\ i - 1 \in 0..n /\ (i - 1) + 1 = i /\ i \in 0..n
    OBVIOUS
  <2>2. e[i + 1] = ApplyAll(e[(i + 1) - 1], s[i + 1].deltas)
    BY <1>2, <2>1
  <2>3. f[i] = e[i + 1] /\ f[i - 1] = e[(i - 1) + 1]
    BY <1>4, <2>1
  <2>. QED
    BY <2>1, <2>2, <2>3
<1>7. Follows(f, next, t)
  BY <1>5, <1>6 DEF Follows
<1>. QED
  BY <1>1, <1>5, <1>7 DEF Reaches, next

-----------------------------------------------------------------------------
NewestOf(s, applied) == IF s = << >> THEN applied ELSE s[Len(s)].tick

(* The primary's engine has seen the memory as it is, since memory changes *)
(* only where it is flushed at once; the batches under way take the        *)
(* standby there; and ticks of batches grow.                               *)
StreamInv ==
  /\ pc \in {"run", "push", "store"} /\ tick \in Nat
  /\ memory \in [Pages -> Page] /\ engine.baseline = memory /\ dirty \subseteq Pages
  /\ out \in Seq(Batches) /\ queue \in Seq(Batches)
  /\ pc # "run" => batch \in Batches /\ batch.tick = tick
  /\ Reaches(standby, Undelivered, memory, engine.have_baseline, missed)
  /\ last_pushed_tick \in Nat /\ last_applied_tick \in Nat /\ last_pushed_tick <= tick
  /\ pc = "push" => last_pushed_tick < tick
  /\ IF pc = "store"
     THEN last_pushed_tick < tick /\ NewestOf(out \o queue, last_applied_tick) = tick
     ELSE last_pushed_tick = NewestOf(out \o queue, last_applied_tick)

(* A batch at the end of the ring is at the end of what is under way.      *)
LEMMA PushedIsLast ==
  ASSUME NEW T, NEW x \in Seq(T), NEW y \in Seq(T), NEW b \in T
  PROVE  /\ Append(y, b) \in Seq(T) /\ x \o Append(y, b) = Append(x \o y, b)
         /\ (x \o y) \o <<b>> = Append(x \o y, b)
  OBVIOUS

(* ... and is its last element.                                            *)
LEMMA LastOfAppend ==
  ASSUME NEW T, NEW x \in Seq(T), NEW b \in T
  PROVE  /\ Append(x, b) \in Seq(T) /\ Append(x, b) # << >>
         /\ Append(x, b)[Len(Append(x, b))] = b
  OBVIOUS

(* What the first batch leaves behind.                                     *)
LEMMA WithoutFirst ==
  ASSUME NEW T, NEW x \in Seq(T), x # << >>
  PROVE  /\ Tail(x) \in Seq(T) /\ Len(x) \in Nat \ {0} /\ Len(Tail(x)) = Len(x) - 1
         /\ \A i \in 1..Len(Tail(x)) : Tail(x)[i] = x[i + 1]
         /\ Head(x) = x[1] /\ Head(x) \in T
  OBVIOUS

(* What is under way, with a batch that is being pushed and without.       *)
LEMMA UndeliveredIs ==
  ASSUME out \in Seq(Batches), queue \in Seq(Batches), pc = "push" => batch \in Batches
  PROVE  /\ out \o queue \in Seq(Batches)
         /\ Undelivered = IF pc = "push" THEN Append(out \o queue, batch) ELSE out \o queue
<1>1. out \o queue \in Seq(Batches)
  BY ConcatProperties
<1>2. CASE pc = "push"
  <2>1. Undelivered = (out \o queue) \o <<batch>>
    BY <1>2 DEF Undelivered
  <2>2. (out \o queue) \o <<batch>> = Append(out \o queue, batch)
    BY <1>1, <1>2
  <2>. QED
    BY <1>1, <1>2, <2>1, <2>2
<1>3. CASE pc # "push"
  <2>1. Undelivered = (out \o queue) \o << >>
    BY <1>3 DEF Undelivered
  <2>2. (out \o queue) \o << >> = out \o queue
    BY <1>1, ConcatEmptySeq
  <2>. QED
    BY <1>1, <1>3, <2>1, <2>2
<1>. QED
  BY <1>2, <1>3

LEMMA StreamInvInit == StreamInit => StreamInv
<1>. SUFFICES ASSUME StreamInit PROVE StreamInv
  OBVIOUS
<1>1. /\ engine = NewEngine /\ standby = NewEngine /\ memory = [p \in Pages |-> ZeroPage]
      /\ dirty = {} /\ pc = "run" /\ tick = 0 /\ queue = << >> /\ last_pushed_tick = 0
      /\ out = << >> /\ last_applied_tick = 0 /\ missed = {}
  BY DEF StreamInit
<1>2. engine.baseline = memory /\ engine.have_baseline = {}
      /\ standby.baseline = memory /\ standby.have_baseline = {}
  BY <1>1 DEF NewEngine
<1>3. memory \in [Pages -> Page]
  <2>1. ZeroPage \in Page
    BY DEF ZeroPage, Page, Byte
  <2>. QED
    BY <1>1, <2>1
<1>4. out \in Seq(Batches) /\ queue \in Seq(Batches) /\ out \o queue = << >>
  BY <1>1
<1>5. Undelivered = << >>
  BY <1>1, <1>4, UndeliveredIs
<1>6. Reaches(standby, Undelivered, memory, engine.have_baseline, missed)
  <2>. DEFINE e == [i \in 0..0 |-> standby]
  <2>1. e[0] = standby /\ Len(Undelivered) = 0
    BY <1>5
  <2>. HIDE DEF e
  <2>2. Follows(e, standby, Undelivered)
    BY <2>1 DEF Follows
  <2>. QED
    BY <1>2, <2>1, <2>2 DEF Reaches
<1>. QED
  BY <1>1, <1>2, <1>3, <1>4, <1>6 DEF StreamInv, NewestOf

LEMMA FlushKeeps ==
  ASSUME StreamInv, NEW writes \in Writes, Flush(writes)
  PROVE  StreamInv'
<1>. DEFINE now == [p \in Pages |-> IF p \in DOMAIN writes THEN writes[p] ELSE memory[p]]
            pages == dirty \cup DOMAIN writes
            deltas == [p \in pages |-> Diff(engine, p, now[p])]
            raw == {p \in pages : batch'.deltas[p].kind = "Raw"}
<1>1. /\ pc = "run" /\ tick' = tick + 1 /\ memory' = now /\ dirty' = pages
      /\ batch' = [tick |-> tick', deltas |-> deltas]
      /\ engine' = [baseline |-> [p \in Pages |-> IF p \in pages THEN now[p] ELSE engine.baseline[p]],
                    have_baseline |-> engine.have_baseline \cup pages]
      /\ missed' = missed \ {p \in pages : deltas[p].kind = "Raw"}
      /\ pc' = "push"
      /\ UNCHANGED <<queue, last_pushed_tick, standby, out, last_applied_tick>>
  BY DEF Flush, ringVars, standbyVars
<1>2. /\ tick \in Nat /\ memory \in [Pages -> Page] /\ engine.baseline = memory
      /\ dirty \subseteq Pages /\ out \in Seq(Batches) /\ queue \in Seq(Batches)
      /\ Reaches(standby, Undelivered, memory, engine.have_baseline, missed)
      /\ last_pushed_tick \in Nat /\ last_applied_tick \in Nat /\ last_pushed_tick <= tick
      /\ last_pushed_tick = NewestOf(out \o queue, last_applied_tick)
  BY <1>1 DEF StreamInv
<1>3. DOMAIN writes \subseteq Pages /\ \A p \in DOMAIN writes : writes[p] \in Page
  <2>1. PICK W \in SUBSET Pages : writes \in [W -> Images]
    BY DEF Writes
  <2>. QED
    BY <2>1, ImageAssumption
<1>4. now \in [Pages -> Page] /\ pages \subseteq Pages /\ \A p \in Pages \ pages : now[p] = memory[p]
  BY <1>2, <1>3
<1>5. DOMAIN deltas = pages /\ \A p \in pages : deltas[p] = Diff(engine, p, now[p])
  OBVIOUS
<1>6. engine'.baseline = now /\ engine'.have_baseline = engine.have_baseline \cup pages
  <2>1. /\ engine'.have_baseline = engine.have_baseline \cup pages
        /\ engine'.baseline = [p \in Pages |-> IF p \in pages THEN now[p] ELSE engine.baseline[p]]
    BY <1>1
  <2>2. now = [p \in Pages |-> now[p]]
    OBVIOUS
  <2>. HIDE DEF now, pages
  <2>. QED
    BY <1>2, <1>4, <2>1, <2>2
<1>7. deltas \in [pages -> Delta]
  <2>1. \A p \in pages : Diff(engine, p, now[p]) \in Delta
    <3>1. \A p \in pages : now[p] \in Page /\ engine.baseline[p] \in Page
      BY <1>2, <1>4
    <3>. HIDE DEF now, pages
    <3>. QED
      BY <3>1, DiffApplies
  <2>. HIDE DEF now, pages
  <2>. QED
    BY <2>1
<1>. HIDE DEF now, pages, deltas
<1>8. batch' \in Batches /\ batch'.deltas = deltas /\ batch'.tick = tick'
  <2>1. deltas \in UNION {[S -> Delta] : S \in SUBSET Pages}
    BY <1>4, <1>7
  <2>2. tick' = tick + 1 /\ tick \in Nat
    BY <1>1, <1>2
  <2>3. tick' \in Nat
    BY <2>2
  <2>. QED
    BY <1>1, <2>1, <2>3 DEF Batches
<1>9. out \o queue \in Seq(Batches) /\ Undelivered = out \o queue
  BY <1>1, <1>2, UndeliveredIs
<1>10. Reaches(standby, Append(out \o queue, batch'), now, engine.have_baseline \cup pages,
               missed \ raw)
  <2>1. Diffed(engine, now, pages, batch', raw)
    BY <1>2, <1>4, <1>5, <1>8 DEF Diffed
  <2>2. Reaches(standby, out \o queue, engine.baseline, engine.have_baseline, missed)
    BY <1>2, <1>9
  <2>. DEFINE s == out \o queue
              b == batch'
  <2>3. s \in Seq(Batches) /\ b \in Batches
    BY <1>8, <1>9
  <2>4. Diffed(engine, now, pages, b, raw)
    BY <2>1
  <2>5. Reaches(standby, s, engine.baseline, engine.have_baseline, missed)
    BY <2>2
  <2>. HIDE DEF s, b, raw
  <2>6. Reaches(standby, Append(s, b), now, engine.have_baseline \cup pages, missed \ raw)
    BY <2>3, <2>4, <2>5, FlushReaches
  <2>. QED
    BY <2>6 DEF s, b
<1>11. missed' = missed \ raw
  BY <1>1, <1>8
<1>12. Undelivered' = Append(out \o queue, batch')
  <2>1. Undelivered' = (out' \o queue') \o <<batch'>>
    BY <1>1 DEF Undelivered
  <2>2. (out \o queue) \o <<batch'>> = Append(out \o queue, batch')
    BY <1>2, <1>8, PushedIsLast
  <2>. QED
    BY <1>1, <2>1, <2>2
<1>13. Reaches(standby, Undelivered, memory, engine.have_baseline, missed)'
  BY <1>1, <1>6, <1>10, <1>11, <1>12
<1>14. /\ tick' \in Nat /\ last_pushed_tick' < tick' /\ last_pushed_tick' <= tick'
  <2>1. tick' = tick + 1 /\ last_pushed_tick' = last_pushed_tick
    BY <1>1
  <2>2. tick \in Nat /\ last_pushed_tick \in Nat /\ last_pushed_tick <= tick
    BY <1>2
  <2>. QED
    BY <2>1, <2>2
<1>15. /\ memory' \in [Pages -> Page] /\ engine'.baseline = memory' /\ dirty' \subseteq Pages
       /\ out' \in Seq(Batches) /\ queue' \in Seq(Batches) /\ batch' \in Batches
       /\ batch'.tick = tick' /\ pc' = "push"
       /\ last_pushed_tick' \in Nat /\ last_applied_tick' \in Nat
       /\ last_pushed_tick' = NewestOf(out' \o queue', last_applied_tick')
  BY <1>1, <1>2, <1>4, <1>6, <1>8
<1>. QED
  BY <1>13, <1>14, <1>15 DEF StreamInv

LEMMA PushKeeps ==
  ASSUME StreamInv, PushRefused \/ PushAccepted \/ StoreTick
  PROVE  StreamInv'
<1>. DEFINE s == out \o queue
<1>1. /\ tick \in Nat /\ memory \in [Pages -> Page] /\ engine.baseline = memory
      /\ dirty \subseteq Pages /\ out \in Seq(Batches) /\ queue \in Seq(Batches)
      /\ last_pushed_tick \in Nat /\ last_applied_tick \in Nat /\ last_pushed_tick <= tick
      /\ pc # "run" => batch \in Batches /\ batch.tick = tick
      /\ Reaches(standby, Undelivered, memory, engine.have_baseline, missed)
  BY DEF StreamInv
<1>2. /\ s \in Seq(Batches)
      /\ Undelivered = IF pc = "push" THEN Append(s, batch) ELSE s
  BY <1>1, UndeliveredIs
<1>3. CASE PushRefused
  <2>1. /\ pc = "push" /\ pc' = "run" /\ missed' = missed \cup DOMAIN batch.deltas
        /\ UNCHANGED <<engine, memory, dirty, tick, batch, queue, last_pushed_tick, standby, out,
                       last_applied_tick>>
    BY <1>3 DEF PushRefused, ringVars, standbyVars
  <2>2. batch \in Batches /\ last_pushed_tick = NewestOf(out \o queue, last_applied_tick)
    BY <2>1 DEF StreamInv
  <2>3. Undelivered' = s
    <3>1. Undelivered' = s \o << >>
      BY <2>1 DEF Undelivered
    <3>. QED
      BY <1>2, <3>1, ConcatEmptySeq
  <2>4. Reaches(standby, s, memory, engine.have_baseline, missed \cup DOMAIN batch.deltas)
    <3>1. Reaches(standby, Append(s, batch), memory, engine.have_baseline, missed)
      BY <1>1, <1>2, <2>1
    <3>. HIDE DEF s
    <3>. QED
      BY <1>2, <2>2, <3>1, RefusalReaches
  <2>5. Reaches(standby, Undelivered, memory, engine.have_baseline, missed)'
    BY <2>1, <2>3, <2>4
  <2>. QED
    BY <1>1, <2>1, <2>2, <2>5 DEF StreamInv
<1>4. CASE PushAccepted
  <2>1. /\ pc = "push" /\ pc' = "store" /\ queue' = Append(queue, batch)
        /\ UNCHANGED <<engine, memory, dirty, tick, missed, batch, last_pushed_tick, standby, out,
                       last_applied_tick>>
    BY <1>4 DEF PushAccepted, primaryVars, standbyVars
  <2>2. batch \in Batches /\ batch.tick = tick /\ last_pushed_tick < tick
    BY <2>1 DEF StreamInv
  <2>3. queue' \in Seq(Batches) /\ out' \o queue' = Append(s, batch)
    <3>1. out \in Seq(Batches) /\ queue \in Seq(Batches)
      BY <1>1
    <3>. QED
      BY <2>1, <2>2, <3>1, PushedIsLast
  <2>4. Undelivered' = Append(s, batch)
    <3>1. Undelivered' = (out' \o queue') \o << >>
      BY <2>1 DEF Undelivered
    <3>2. Append(s, batch) \in Seq(Batches)
      BY <1>2, <2>2
    <3>. QED
      BY <2>3, <3>1, <3>2, ConcatEmptySeq
  <2>5. Reaches(standby, Undelivered, memory, engine.have_baseline, missed)'
    BY <1>1, <1>2, <2>1, <2>4
  <2>6. NewestOf(out' \o queue', last_applied_tick') = tick'
    <3>1. /\ Append(s, batch) # << >> /\ Append(s, batch)[Len(Append(s, batch))] = batch
      <4>. HIDE DEF s
      <4>. QED
        BY <1>2, <2>2, LastOfAppend
    <3>. QED
      BY <2>1, <2>2, <2>3, <3>1 DEF NewestOf
  <2>. QED
    BY <1>1, <2>1, <2>2, <2>3, <2>5, <2>6 DEF StreamInv
<1>5. CASE StoreTick
  <2>1. /\ pc = "store" /\ pc' = "run" /\ last_pushed_tick' = batch.tick /\ dirty' = {}
        /\ UNCHANGED <<engine, memory, tick, missed, batch, queue, standby, out, last_applied_tick>>
    BY <1>5 DEF StoreTick, standbyVars
  <2>2. batch.tick = tick /\ NewestOf(out \o queue, last_applied_tick) = tick
    BY <2>1 DEF StreamInv
  <2>3. Undelivered' = Undelivered
    BY <2>1 DEF Undelivered
  <2>4. Reaches(standby, Undelivered, memory, engine.have_baseline, missed)'
    BY <1>1, <2>1, <2>3
  <2>5. last_pushed_tick' = tick' /\ tick' \in Nat
    BY <1>1, <2>1, <2>2
  <2>6. last_pushed_tick' = NewestOf(out' \o queue', last_applied_tick')
    BY <2>1, <2>2, <2>5
  <2>7. /\ memory' \in [Pages -> Page] /\ engine'.baseline = memory' /\ dirty' \subseteq Pages
        /\ out' \in Seq(Batches) /\ queue' \in Seq(Batches) /\ last_applied_tick' \in Nat
    BY <1>1, <2>1
  <2>8. last_pushed_tick' <= tick' /\ last_pushed_tick' \in Nat
    BY <2>5
  <2>. QED
    BY <2>1, <2>4, <2>5, <2>6, <2>7, <2>8 DEF StreamInv
<1>. QED
  BY <1>3, <1>4, <1>5

LEMMA StandbyKeeps ==
  ASSUME StreamInv, Pop \/ ApplyBatch
  PROVE  StreamInv'
<1>. DEFINE s == out \o queue
            tail == IF pc = "push" THEN <<batch>> ELSE << >>
<1>1. /\ tick \in Nat /\ memory \in [Pages -> Page] /\ engine.baseline = memory
      /\ dirty \subseteq Pages /\ out \in Seq(Batches) /\ queue \in Seq(Batches)
      /\ last_pushed_tick \in Nat /\ last_applied_tick \in Nat /\ last_pushed_tick <= tick
      /\ pc # "run" => batch \in Batches /\ batch.tick = tick
      /\ Reaches(standby, Undelivered, memory, engine.have_baseline, missed)
  BY DEF StreamInv
<1>2. s \in Seq(Batches) /\ tail \in Seq(Batches) /\ Undelivered = s \o tail
  <2>1. s \in Seq(Batches) /\ Undelivered = s \o tail
    BY <1>1, UndeliveredIs DEF Undelivered
  <2>2. tail \in Seq(Batches)
    BY <1>1
  <2>. QED
    BY <2>1, <2>2
<1>3. CASE Pop
  <2>1. /\ queue # << >> /\ out' = Append(out, Head(queue)) /\ queue' = Tail(queue)
        /\ UNCHANGED <<engine, memory, dirty, tick, missed, pc, batch, last_pushed_tick, standby,
                       last_applied_tick>>
    BY <1>3 DEF Pop, primaryVars
  <2>2. out' \in Seq(Batches) /\ queue' \in Seq(Batches)
    BY <1>1, <2>1
  <2>3. out' \o queue' = s
    <3>1. out' \o queue' \in Seq(Batches) /\ Len(out' \o queue') = Len(s)
      BY <1>1, <2>1, <2>2
    <3>2. \A i \in 1..Len(s) : (out' \o queue')[i] = s[i]
      BY <1>1, <2>1, <2>2
    <3>. QED
      BY <1>2, <3>1, <3>2, SeqEqual
  <2>4. Undelivered' = Undelivered
    BY <2>1, <2>3 DEF Undelivered
  <2>5. Reaches(standby, Undelivered, memory, engine.have_baseline, missed)'
    BY <1>1, <2>1, <2>4
  <2>. QED
    BY <1>1, <2>1, <2>2, <2>3, <2>5 DEF StreamInv
<1>4. CASE ApplyBatch
  <2>1. /\ out # << >> /\ out' = Tail(out) /\ standby' = ApplyAll(standby, Head(out).deltas)
        /\ last_applied_tick' = Head(out).tick
        /\ UNCHANGED <<engine, memory, dirty, tick, missed, pc, batch, queue, last_pushed_tick>>
    BY <1>4 DEF ApplyBatch, primaryVars, ringVars
  <2>2. /\ out' \in Seq(Batches) /\ queue' \in Seq(Batches) /\ Len(out) \in Nat \ {0}
        /\ Len(out') = Len(out) - 1 /\ \A i \in 1..Len(out') : out'[i] = out[i + 1]
        /\ Head(out) = out[1] /\ Head(out) \in Batches
    <3>1. out \in Seq(Batches) /\ queue \in Seq(Batches)
      BY <1>1
    <3>. QED
      BY <2>1, <3>1, WithoutFirst
  <2>. DEFINE t == out' \o queue
  <2>3. /\ t \in Seq(Batches) /\ Len(t) \in Nat /\ Len(s) = Len(t) + 1 /\ s[1] = Head(out)
        /\ \A i \in 1..Len(t) : t[i] = s[i + 1]
    <3>1. t \in Seq(Batches) /\ Len(t) \in Nat /\ Len(s) = Len(t) + 1 /\ s[1] = Head(out)
      <4>0. out' \in Seq(Batches) /\ queue \in Seq(Batches)
        BY <1>1, <2>2
      <4>1. t \in Seq(Batches) /\ Len(t) = Len(out') + Len(queue) /\ Len(queue) \in Nat
        BY <4>0
      <4>2. Len(s) = Len(out) + Len(queue) /\ s[1] = out[1]
        BY <1>1, <2>2, ConcatProperties
      <4>. HIDE DEF t, s
      <4>. QED
        BY <2>2, <4>1, <4>2
    <3>2. ASSUME NEW i \in 1..Len(t) PROVE t[i] = s[i + 1]
      <4>1. CASE i \in 1..Len(out')
        BY <1>1, <2>2, <4>1
      <4>2. CASE i \in (Len(out') + 1)..Len(t)
        BY <1>1, <2>2, <4>2
      <4>. QED
        BY <2>2, <4>1, <4>2
    <3>. QED
      BY <3>1, <3>2
  <2>. DEFINE u == t \o tail
              v == s \o tail
  <2>. HIDE DEF t, s, tail
  <2>4. /\ Len(u) \in Nat /\ Len(v) = Len(u) + 1 /\ v[1] = Head(out)
        /\ \A i \in 1..Len(u) : u[i] = v[i + 1]
    <3>1. Len(u) \in Nat /\ Len(v) = Len(u) + 1 /\ v[1] = Head(out)
      BY <1>2, <2>3
    <3>2. ASSUME NEW i \in 1..Len(u) PROVE u[i] = v[i + 1]
      <4>1. CASE i \in 1..Len(t)
        BY <1>2, <2>3, <4>1
      <4>2. CASE i \in (Len(t) + 1)..Len(u)
        BY <1>2, <2>3, <4>2
      <4>. QED
        BY <1>2, <2>3, <4>1, <4>2
    <3>. QED
      BY <3>1, <3>2
  <2>5. Undelivered' = u /\ Undelivered = v
    BY <1>2, <2>1 DEF Undelivered, t, tail
  <2>. HIDE DEF u, v
  <2>6. Reaches(standby, v, memory, engine.have_baseline, missed)
    BY <1>1, <2>5
  <2>7. Reaches(ApplyAll(standby, v[1].deltas), u, memory, engine.have_baseline, missed)
    BY <2>4, <2>6, ApplyReaches
  <2>8. Reaches(standby, Undelivered, memory, engine.have_baseline, missed)'
    BY <2>1, <2>4, <2>5, <2>7
  <2>9. NewestOf(t, Head(out).tick) = NewestOf(s, last_applied_tick)
    <3>1. s # << >>
      BY <2>3
    <3>2. CASE t = << >>
      <4>1. Len(s) = 1
        BY <2>3, <3>2
      <4>. QED
        BY <2>3, <3>1, <3>2, <4>1 DEF NewestOf
    <3>3. CASE t # << >>
      <4>1. Len(t) \in 1..Len(t)
        BY <2>3, <3>3
      <4>2. t[Len(t)] = s[Len(s)]
        BY <2>3, <4>1
      <4>. QED
        BY <3>1, <3>3, <4>2 DEF NewestOf
    <3>. QED
      BY <3>2, <3>3
  <2>10. NewestOf(out' \o queue', last_applied_tick') = NewestOf(out \o queue, last_applied_tick)
    BY <2>1, <2>9 DEF t, s
  <2>11. last_applied_tick' \in Nat
    BY <2>1, <2>2 DEF Batches
  <2>. QED
    BY <1>1, <2>1, <2>2, <2>8, <2>10, <2>11 DEF StreamInv
<1>. QED
  BY <1>3, <1>4

LEMMA StreamInvStep == StreamInv /\ [StreamNext]_streamVars => StreamInv'
<1>1. ASSUME StreamInv, UNCHANGED streamVars PROVE StreamInv'
  BY <1>1 DEF StreamInv, streamVars, primaryVars, ringVars, standbyVars, Undelivered
<1>. QED
  BY <1>1, FlushKeeps, PushKeeps, StandbyKeeps DEF StreamNext

LEMMA AlwaysStreamInv == StreamSpec => []StreamInv
  BY StreamInvInit, StreamInvStep, PTL DEF StreamSpec

(* delta.rs:86-187: for pages of any size and contents, any set of pages   *)
(* and any ring, the next delta gives the page, once the standby has       *)
(* caught up.                                                              *)
THEOREM NextDeltaExact == StreamSpec => []NextDeltaIsExact
<1>1. StreamInv => NextDeltaIsExact
  <2>. SUFFICES ASSUME StreamInv, pc = "run", out = << >>, queue = << >>,
                       NEW p \in Pages \ missed, NEW current \in Page
                PROVE  LET delta == Diff(engine, p, current)
                       IN  /\ Apply(standby, p, delta) = current
                           /\ delta.kind = "Xor" => EncodedLen(delta.runs) <= PageSize
    BY DEF NextDeltaIsExact
  <2>1. Undelivered = << >> /\ Len(Undelivered) = 0
    BY DEF Undelivered
  <2>2. PICK e : /\ Follows(e, standby, Undelivered)
                 /\ e[Len(Undelivered)].baseline[p] = memory[p]
                 /\ p \in e[Len(Undelivered)].have_baseline <=> p \in engine.have_baseline
    BY DEF StreamInv, Reaches
  <2>3. standby.baseline[p] = engine.baseline[p]
        /\ (p \in standby.have_baseline <=> p \in engine.have_baseline)
    BY <2>1, <2>2 DEF Follows, StreamInv
  <2>4. engine.baseline[p] \in Page
    BY DEF StreamInv
  <2>. QED
    BY <2>3, <2>4, DiffApplies
<1>. QED
  BY <1>1, AlwaysStreamInv, PTL

(* delta.rs:114: however many batches are under way, refused or applied.   *)
THEOREM StandbyAlwaysReconstructs == StreamSpec => []StandbyReconstructs
<1>1. StreamInv => StandbyReconstructs
  <2>. SUFFICES ASSUME StreamInv PROVE StandbyReconstructs
    OBVIOUS
  <2>1. /\ out \in Seq(Batches) /\ queue \in Seq(Batches) /\ pc = "push" => batch \in Batches
    BY DEF StreamInv
  <2>2. Len(Undelivered) \in Nat
    BY <2>1, UndeliveredIs
  <2>. QED
    BY <2>2, ReachesLast DEF StreamInv
<1>. QED
  BY <1>1, AlwaysStreamInv, PTL

(* lib.rs:50, "Highest tick successfully pushed", between the two steps of *)
(* a push included.                                                        *)
THEOREM LastPushedNewest == StreamSpec => []LastPushedIsNewest
<1>1. StreamInv => LastPushedIsNewest
  <2>. SUFFICES ASSUME StreamInv PROVE LastPushedIsNewest
    OBVIOUS
  <2>1. Newest = NewestOf(out \o queue, last_applied_tick)
    BY DEF Newest, NewestOf
  <2>2. CASE pc = "store"
    BY <2>1, <2>2 DEF StreamInv, LastPushedIsNewest
  <2>3. CASE pc # "store"
    BY <2>1, <2>3 DEF StreamInv, LastPushedIsNewest
  <2>. QED
    BY <2>2, <2>3
<1>. QED
  BY <1>1, AlwaysStreamInv, PTL
=============================================================================
