------------------------------- MODULE IoProofs -------------------------------
(***************************************************************************)
(* The submission queue of the io_uring backend for any cells, fds, queue  *)
(* size and number of calls.                                               *)
(***************************************************************************)
EXTENDS IoSubsystem, InductionLemmas

Requests == [call : Nat, cell : Cells, guest_fd : 3..MaxFd, request_id : RequestIds,
             host_fd : HostFds, file : Nat]

Sqes == [user_data : SUBSET (0..(WordBits - 1)), of : Requests]

(* Calls are numbered in order, so one that was answered with Ok is no     *)
(* later than the last call and none that is still queued.                 *)
QueueInv ==
  /\ calls \in Nat
  /\ accepted \subseteq 1..calls
  /\ opens \in [HostFds -> Nat]
  /\ DOMAIN entries = Cells
  /\ \A c \in Cells : \A g \in DOMAIN entries[c] : entries[c][g] \in HostFds
  /\ sq \in Seq(Sqes)
  /\ \A i \in 1..Len(sq) : sq[i].of.call <= calls
  /\ QueueHoldsOnlyFailures

(* The entry of a new call is well formed and carries the call's number.   *)
LEMMA SqeType ==
  ASSUME QueueInv, NEW c \in Cells, NEW g \in 3..MaxFd, NEW id \in RequestIds,
         g \in DOMAIN entries[c]
  PROVE  Sqe(c, g, id) \in Sqes /\ Sqe(c, g, id).of.call = calls + 1
<1>1. entries[c][g] \in HostFds /\ opens[entries[c][g]] \in Nat /\ calls + 1 \in Nat
  BY DEF QueueInv
<1>2. Request(c, g, id) \in Requests /\ Request(c, g, id).call = calls + 1
  BY <1>1 DEF Request, Requests
<1>3. PackUserData(c, g, id) \in SUBSET (0..(WordBits - 1))
  BY DEF PackUserData
<1>. QED
  BY <1>2, <1>3 DEF Sqe, Sqes

(* An empty queue, no call yet.                                            *)
LEMMA QueueInit == IoInit => QueueInv
<1>. SUFFICES ASSUME IoInit PROVE QueueInv
  OBVIOUS
<1>1. sq = << >> /\ calls = 0 /\ accepted = {} /\ opens = [h \in HostFds |-> 0]
      /\ entries = [c \in Cells |-> [g \in {} |-> 0]]
  BY DEF IoInit
<1>2. sq \in Seq(Sqes) /\ Len(sq) = 0
  BY <1>1
<1>. QED
  BY <1>1, <1>2 DEF QueueInv, QueueHoldsOnlyFailures

(* A submit empties the queue or leaves its own refused entry in it.       *)
LEMMA QueueStep == QueueInv /\ [IoNext]_ioVars => QueueInv'
<1>. SUFFICES ASSUME QueueInv, [IoNext]_ioVars PROVE QueueInv'
  OBVIOUS
<1>0. /\ calls \in Nat /\ sq \in Seq(Sqes) /\ Len(sq) \in Nat
      /\ \A i \in 1..Len(sq) : sq[i].of.call \in Nat
  <2>1. calls \in Nat /\ sq \in Seq(Sqes) /\ Len(sq) \in Nat
    BY DEF QueueInv
  <2>2. \A i \in 1..Len(sq) : sq[i] \in Sqes
    BY <2>1
  <2>3. \A q \in Sqes : q.of.call \in Nat
    BY DEF Sqes, Requests
  <2>. QED
    BY <2>1, <2>2, <2>3
<1>1. ASSUME NEW c \in Cells, NEW h \in HostFds, Register(c, h) PROVE QueueInv'
  <2>1. /\ opens' = [opens EXCEPT ![h] = @ + 1]
        /\ entries' = [entries EXCEPT ![c] = Insert(c, next_guest_fd[c], h)]
        /\ UNCHANGED <<sq, calls, accepted>>
    BY <1>1 DEF Register, ringVars, history
  <2>2. opens' \in [HostFds -> Nat]
    BY <2>1 DEF QueueInv
  <2>3. \A g \in DOMAIN Insert(c, next_guest_fd[c], h) : Insert(c, next_guest_fd[c], h)[g] \in HostFds
    BY DEF Insert, QueueInv
  <2>4. DOMAIN entries' = Cells /\ \A d \in Cells : \A g \in DOMAIN entries'[d] : entries'[d][g] \in HostFds
    BY <2>1, <2>3 DEF QueueInv
  <2>. QED
    BY <2>1, <2>2, <2>4 DEF QueueInv, QueueHoldsOnlyFailures
<1>2. ASSUME NEW c \in Cells, NEW g \in 3..MaxFd, Close(c, g) PROVE QueueInv'
  <2>1. /\ entries' = [entries EXCEPT ![c] = [d \in DOMAIN entries[c] \ {g} |-> entries[c][d]]]
        /\ UNCHANGED <<opens, sq, calls, accepted>>
    BY <1>2 DEF Close, ringVars, history, QueueInv
  <2>2. DOMAIN entries' = Cells /\ \A d \in Cells : \A x \in DOMAIN entries'[d] : entries'[d][x] \in HostFds
    BY <2>1 DEF QueueInv
  <2>. QED
    BY <2>1, <2>2 DEF QueueInv, QueueHoldsOnlyFailures
<1>3. ASSUME NEW c \in Cells, NEW g \in 3..MaxFd, SubmitFull(c, g) PROVE QueueInv'
  <2>1. calls' = calls + 1 /\ UNCHANGED <<entries, opens, sq, accepted>>
    BY <1>3 DEF SubmitFull, Calls, fdVars, ringVars
  <2>. QED
    BY <1>0, <2>1 DEF QueueInv, QueueHoldsOnlyFailures
<1>4. ASSUME NEW c \in Cells, NEW g \in 3..MaxFd, NEW id \in RequestIds, SubmitOk(c, g, id)
      PROVE  QueueInv'
  <2>1. /\ calls' = calls + 1 /\ sq' = << >> /\ accepted' = accepted \cup {calls'}
        /\ UNCHANGED <<entries, opens>>
    BY <1>4 DEF SubmitOk, Calls, fdVars
  <2>2. sq' \in Seq(Sqes) /\ Len(sq') = 0
    BY <2>1
  <2>3. accepted' \subseteq 1..calls'
    <3>1. \A n \in accepted : n \in Nat /\ 1 <= n /\ n <= calls
      BY <1>0 DEF QueueInv
    <3>2. \A n \in accepted' : n \in accepted \/ n = calls + 1
      BY <2>1
    <3>3. \A n \in accepted' : n \in Nat /\ 1 <= n /\ n <= calls + 1
      BY <1>0, <3>1, <3>2
    <3>. QED
      BY <1>0, <2>1, <3>3
  <2>. QED
    BY <1>0, <2>1, <2>2, <2>3 DEF QueueInv, QueueHoldsOnlyFailures
<1>5. ASSUME NEW c \in Cells, NEW g \in 3..MaxFd, NEW id \in RequestIds, SubmitFails(c, g, id)
      PROVE  QueueInv'
  <2>. DEFINE new == Sqe(c, g, id)
  <2>1. /\ calls' = calls + 1 /\ sq' = Append(sq, new) /\ g \in DOMAIN entries[c]
        /\ UNCHANGED <<entries, opens, accepted>>
    BY <1>5 DEF SubmitFails, Calls, fdVars
  <2>2. new \in Sqes /\ new.of.call = calls + 1
    BY <2>1, SqeType
  <2>. HIDE DEF new
  <2>3. /\ sq' \in Seq(Sqes) /\ Len(sq') = Len(sq) + 1 /\ sq'[Len(sq) + 1] = new
        /\ \A i \in 1..Len(sq) : sq'[i] = sq[i]
    BY <1>0, <2>1, <2>2
  <2>4. ASSUME NEW i \in 1..Len(sq')
        PROVE  sq'[i].of.call <= calls' /\ sq'[i].of.call \notin accepted
    <3>1. CASE i = Len(sq) + 1
      BY <1>0, <2>1, <2>2, <2>3, <3>1 DEF QueueInv
    <3>2. CASE i \in 1..Len(sq)
      BY <1>0, <2>1, <2>3, <3>2 DEF QueueInv, QueueHoldsOnlyFailures
    <3>. QED
      BY <1>0, <2>3, <3>1, <3>2
  <2>5. accepted' \subseteq 1..calls'
    BY <1>0, <2>1 DEF QueueInv
  <2>. QED
    BY <1>0, <2>1, <2>3, <2>4, <2>5 DEF QueueInv, QueueHoldsOnlyFailures
<1>6. ASSUME NEW c \in Cells, NEW g \in 3..MaxFd, NEW id \in RequestIds, SubmitStub(c, g, id)
      PROVE  QueueInv'
  <2>1. /\ calls' = calls + 1 /\ accepted' = accepted \cup {calls'}
        /\ UNCHANGED <<entries, opens, sq>>
    BY <1>6 DEF SubmitStub, Calls, fdVars
  <2>2. accepted' \subseteq 1..calls'
    <3>1. \A n \in accepted : n \in Nat /\ 1 <= n /\ n <= calls
      BY <1>0 DEF QueueInv
    <3>2. \A n \in accepted' : n \in accepted \/ n = calls + 1
      BY <2>1
    <3>3. \A n \in accepted' : n \in Nat /\ 1 <= n /\ n <= calls + 1
      BY <1>0, <3>1, <3>2
    <3>. QED
      BY <1>0, <2>1, <3>3
  <2>3. \A i \in 1..Len(sq) : sq[i].of.call <= calls' /\ sq[i].of.call \notin accepted'
    BY <1>0, <2>1 DEF QueueInv, QueueHoldsOnlyFailures
  <2>. QED
    BY <1>0, <2>1, <2>2, <2>3 DEF QueueInv, QueueHoldsOnlyFailures
<1>7. CASE UNCHANGED <<entries, opens, sq, calls, accepted>>
  BY <1>7 DEF QueueInv, QueueHoldsOnlyFailures
<1>. QED
  BY <1>1, <1>2, <1>3, <1>4, <1>5, <1>6, <1>7
     DEF IoNext, RegisterFixedBuffer, KernelCompletes, PollCompletions, DrainForDispatch,
         ioVars, fdVars, ringVars, history

(* linux_ring.rs:108-118: whatever fails, fills up or is closed meanwhile, *)
(* a request answered with Ok has left the submission queue.               *)
THEOREM AcceptedNeverWaits == IoSafety => []QueueHoldsOnlyFailures
<1>1. QueueInv => QueueHoldsOnlyFailures
  BY DEF QueueInv
<1>. QED
  BY <1>1, QueueInit, QueueStep, PTL DEF IoSafety

-----------------------------------------------------------------------------
(* The round trip of the three ids through user_data.                      *)

(* f[k] is the value of the lowest k bits of a field.                      *)
Sums(f, word, low, width) ==
  /\ f \in [0..width -> Nat]
  /\ Field(word, low, width) = f[width]
  /\ f[0] = 0
  /\ \A k \in 1..width : f[k] = f[k - 1] + (IF low + k - 1 \in word THEN 2^(k - 1) ELSE 0)

(* The recursive function in Field is well defined.                        *)
LEMMA FieldUnfolds ==
  ASSUME NEW word, NEW low \in Nat, NEW width \in Nat
  PROVE  \E f : Sums(f, word, low, width)
<1>. DEFINE Bit(k) == IF low + k - 1 \in word THEN 2^(k - 1) ELSE 0
<1>. DEFINE step == [q \in (1..width) \X Nat |-> q[2] + Bit(q[1])]
<1>. DEFINE Eq(f) == f = [k \in 0..width |-> IF k = 0 THEN 0 ELSE f[k - 1] + Bit(k)]
<1>1. \A k \in 1..width : Bit(k) \in Nat
  <2>1. \A k \in 1..width : k - 1 \in Nat
    OBVIOUS
  <2>. QED
    BY <2>1, PowersDouble
<1>2. Field(word, low, width) = (CHOOSE h : Eq(h))[width]
  BY Zenon DEF Field
<1>. HIDE DEF Bit
<1>3. StepsIn(width, Nat, 0, step)
  BY <1>1 DEF StepsIn
<1>4. \A k \in 1..width : \A v \in Nat : step[<<k, v>>] = v + Bit(k)
  OBVIOUS
<1>. HIDE DEF step
<1>5. PICK f : Iterates(f, width, Nat, 0, step)
  BY <1>3, RecursionExists
<1>6. \A k \in 1..width : f[k] = f[k - 1] + Bit(k)
  <2>1. \A k \in 1..width : k - 1 \in 0..width
    OBVIOUS
  <2>. QED
    BY <1>4, <1>5, <2>1 DEF Iterates
<1>7. Eq(f)
  <2>1. \A k \in 0..width : k = 0 \/ k \in 1..width
    OBVIOUS
  <2>2. f = [k \in 0..width |-> f[k]] /\ f[0] = 0
    BY <1>5 DEF Iterates
  <2>. QED
    BY <1>6, <2>1, <2>2
<1>. DEFINE h == CHOOSE h : Eq(h)
<1>8. Eq(h)
  BY <1>7, Zenon
<1>. HIDE DEF h
<1>9. Iterates(h, width, Nat, 0, step)
  <2>1. \A k \in 1..width : k \in 0..width /\ k # 0
    OBVIOUS
  <2>2. \A k \in 1..width : h[k] = h[k - 1] + Bit(k)
    BY <1>8, <2>1
  <2>3. DOMAIN h = 0..width /\ h = [k \in 0..width |-> h[k]] /\ h[0] = 0
    BY <1>8
  <2>4. GoesOn(h, width, Nat, 0, step)
    BY <1>4, <2>2, <2>3 DEF GoesOn
  <2>. QED
    BY <1>3, <2>4, StaysWithin
<1>10. \A k \in 1..width : h[k] = h[k - 1] + Bit(k)
  <2>1. \A k \in 1..width : k - 1 \in 0..width
    OBVIOUS
  <2>. QED
    BY <1>4, <1>9, <2>1 DEF Iterates
<1>11. Sums(h, word, low, width)
  BY <1>2, <1>9, <1>10 DEF Sums, Iterates, Bit, h
<1>. QED
  BY <1>11

(* The bits of n at their places in a word.                                *)
Places(n, word, low, width) ==
  /\ n \in Nat /\ low \in Nat /\ width \in Nat /\ n < 2^width
  /\ \A k \in 0..(width - 1) : low + k \in word <=> (n \div 2^k) % 2 = 1

(* A field with the bits of n has the value n.                             *)
LEMMA FieldValue ==
  ASSUME NEW n, NEW word, NEW low, NEW width, Places(n, word, low, width)
  PROVE  Field(word, low, width) = n
<1>. USE DEF Places
<1>1. PICK f : Sums(f, word, low, width)
  BY FieldUnfolds
<1>. DEFINE S == {k \in 0..width : f[k] = n % 2^k}
<1>2. 0 \in S
  BY <1>1, PowersDouble DEF Sums
<1>3. ASSUME NEW k \in 1..width, k - 1 \in S PROVE k \in S
  <2>. DEFINE j == k - 1
  <2>1. j \in Nat /\ j \in 0..(width - 1) /\ k = j + 1 /\ low + k - 1 = low + j /\ k \in 0..width
    OBVIOUS
  <2>2. 2^j \in Nat \ {0} /\ 2^k = 2 * 2^j
    BY <2>1, PowersDouble
  <2>3. f[k] = f[j] + (IF low + j \in word THEN 2^j ELSE 0)
    BY <1>1, <2>1 DEF Sums
  <2>4. f[j] = n % 2^j
    BY <1>3
  <2>. HIDE DEF j
  <2>5. low + j \in word <=> (n \div 2^j) % 2 = 1
    BY <2>1
  <2>6. n % (2 * 2^j) = (n % 2^j) + (IF (n \div 2^j) % 2 = 1 THEN 2^j ELSE 0)
    BY <2>2, OneMoreDigit
  <2>7. f[k] = n % 2^k
    BY <2>2, <2>3, <2>4, <2>5, <2>6
  <2>. QED
    BY <2>1, <2>7
<1>. HIDE DEF S
<1>4. \A k \in 0..width : k \in S
  BY <1>2, <1>3, BoundedInduction
<1>5. f[width] = n % 2^width
  BY <1>4 DEF S
<1>6. 2^width \in Nat \ {0}
  BY PowersDouble
<1>7. \A m \in Nat \ {0} : n < m => n % m = n
  OBVIOUS
<1>. QED
  BY <1>1, <1>5, <1>6, <1>7 DEF Sums

(* A number has no bits at or above a width that it fits in.               *)
LEMMA NoHighBits ==
  ASSUME NEW n \in Nat, NEW width \in Nat, n < 2^width, NEW b \in Nat, width <= b
  PROVE  (n \div 2^b) % 2 = 0
<1>1. b - width \in Nat /\ width + (b - width) = b
  OBVIOUS
<1>2. 2^width <= 2^b
  BY <1>1, PowersGrow
<1>3. 2^width \in Nat /\ 2^b \in Nat \ {0}
  BY PowersDouble
<1>4. \A m \in Nat \ {0} : n < m => n \div m = 0
  OBVIOUS
<1>5. n \div 2^b = 0
  BY <1>2, <1>3, <1>4
<1>6. 0 % 2 = 0
  OBVIOUS
<1>. QED
  BY <1>5, <1>6, Zenon

(* pack_user_data then unpack_user_data gives the ids back, for any widths *)
(* of the three fields, as long as each id fits its field.                 *)
LEMMA RoundTrip ==
  ASSUME NEW c \in 0..(2^CellBits - 1), NEW g \in 0..(2^FdBits - 1),
         NEW id \in 0..(2^RequestBits - 1)
  PROVE  UnpackUserData(PackUserData(c, g, id)) = [cell |-> c, guest_fd |-> g, request_id |-> id]
<1>. DEFINE w == PackUserData(c, g, id)
<1>0. CellBits \in Nat /\ FdBits \in Nat /\ RequestBits \in Nat
  BY WidthAssumption
<1>1. /\ c \in Nat /\ c < 2^CellBits /\ g \in Nat /\ g < 2^FdBits
      /\ id \in Nat /\ id < 2^RequestBits
  BY <1>0, PowersDouble
<1>2. \A b : b \in w <=>
        /\ b \in 0..(WordBits - 1)
        /\ \/ \E x \in BitsOf(c, WordBits) : b = x + (FdBits + RequestBits)
           \/ \E x \in BitsOf(g, WordBits) : b = x + RequestBits
           \/ b \in BitsOf(id, RequestBits)
  BY DEF PackUserData, ShiftLeft
<1>. HIDE DEF w
<1>3. \A n, width, b : b \in BitsOf(n, width) <=> b \in 0..(width - 1) /\ (n \div 2^b) % 2 = 1
  BY DEF BitsOf
<1>4. Places(c, w, FdBits + RequestBits, CellBits)
  <2>. SUFFICES ASSUME NEW k \in 0..(CellBits - 1)
                PROVE  FdBits + RequestBits + k \in w <=> (c \div 2^k) % 2 = 1
    BY <1>0, <1>1 DEF Places
  <2>1. /\ k \in 0..(WordBits - 1) /\ FdBits + RequestBits + k \in 0..(WordBits - 1)
        /\ FdBits + RequestBits + k = k + (FdBits + RequestBits)
    BY <1>0 DEF WordBits
  <2>2. \A x \in BitsOf(c, WordBits) : FdBits + RequestBits + k = x + (FdBits + RequestBits) => x = k
    <3>1. \A x \in BitsOf(c, WordBits) : x \in Nat
      BY <1>0, <1>3 DEF WordBits
    <3>. QED
      BY <1>0, <3>1
  <2>3. \A x \in BitsOf(g, WordBits) : FdBits + RequestBits + k # x + RequestBits
    <3>. SUFFICES ASSUME NEW x \in BitsOf(g, WordBits), FdBits + RequestBits + k = x + RequestBits
                  PROVE  FALSE
      OBVIOUS
    <3>1. x \in Nat /\ FdBits <= x
      BY <1>0, <1>3 DEF WordBits
    <3>2. (g \div 2^x) % 2 = 0
      BY <1>0, <1>1, <3>1, NoHighBits
    <3>. QED
      BY <1>3, <3>2
  <2>4. FdBits + RequestBits + k \notin BitsOf(id, RequestBits)
    BY <1>0, <1>3
  <2>. QED
    BY <1>2, <1>3, <2>1, <2>2, <2>3, <2>4
<1>5. Places(g, w, RequestBits, FdBits)
  <2>. SUFFICES ASSUME NEW k \in 0..(FdBits - 1)
                PROVE  RequestBits + k \in w <=> (g \div 2^k) % 2 = 1
    BY <1>0, <1>1 DEF Places
  <2>1. k \in 0..(WordBits - 1) /\ RequestBits + k \in 0..(WordBits - 1) /\ RequestBits + k = k + RequestBits
    BY <1>0 DEF WordBits
  <2>2. \A x \in BitsOf(g, WordBits) : RequestBits + k = x + RequestBits => x = k
    BY <1>0, <1>3 DEF WordBits
  <2>3. \A x \in BitsOf(c, WordBits) : RequestBits + k # x + (FdBits + RequestBits)
    BY <1>0, <1>3 DEF WordBits
  <2>4. RequestBits + k \notin BitsOf(id, RequestBits)
    BY <1>0, <1>3
  <2>. QED
    BY <1>2, <1>3, <2>1, <2>2, <2>3, <2>4
<1>6. Places(id, w, 0, RequestBits)
  <2>. SUFFICES ASSUME NEW k \in 0..(RequestBits - 1)
                PROVE  0 + k \in w <=> (id \div 2^k) % 2 = 1
    BY <1>0, <1>1 DEF Places
  <2>1. k \in 0..(WordBits - 1) /\ 0 + k = k
    BY <1>0 DEF WordBits
  <2>2. \A x \in BitsOf(g, WordBits) : k # x + RequestBits
    BY <1>0, <1>3 DEF WordBits
  <2>3. \A x \in BitsOf(c, WordBits) : k # x + (FdBits + RequestBits)
    BY <1>0, <1>3 DEF WordBits
  <2>. QED
    BY <1>2, <1>3, <2>1, <2>2, <2>3
<1>. QED
  BY <1>4, <1>5, <1>6, FieldValue DEF UnpackUserData, w

-----------------------------------------------------------------------------
(* What becomes of a request after it was made.                            *)
Ids(r) == [cell |-> r.cell, guest_fd |-> r.guest_fd, request_id |-> r.request_id]

Completions == [ids : {Ids(r) : r \in Requests}, of : Requests]

Packed(q) == q.user_data = PackUserData(q.of.cell, q.of.guest_fd, q.of.request_id)

(* The guest fd of a request was handed out before; if it is still open it *)
(* stands for the file that it stood for then.                             *)
Known(r, next_fd, tables, opened) ==
  /\ r \in Requests
  /\ r.guest_fd < next_fd[r.cell]
  /\ r.guest_fd \in DOMAIN tables[r.cell] =>
       tables[r.cell][r.guest_fd] = r.host_fd /\ opened[r.host_fd] = r.file

(* Requests in a queue, in the kernel, and handed to their cells.          *)
Queued(s, next_fd, tables, opened) ==
  \A i \in 1..Len(s) : Packed(s[i]) /\ Known(s[i].of, next_fd, tables, opened)

Taking(K, next_fd, tables, opened) ==
  \A q \in K : /\ Packed(q) /\ Known(q.of, next_fd, tables, opened)
               /\ q.user_data \in SUBSET (0..(WordBits - 1))

Given(P, next_fd, tables, opened) ==
  /\ P \in [Cells -> Seq(Completions)]
  /\ \A c \in Cells : \A i \in 1..Len(P[c]) :
       /\ P[c][i].of.cell = c
       /\ P[c][i].ids = Ids(P[c][i].of)
       /\ Known(P[c][i].of, next_fd, tables, opened)

(* fds are numbered upwards.                                               *)
Numbered(next_fd, tables) ==
  /\ next_fd \in [Cells -> Nat]
  /\ \A c \in Cells : \A g \in DOMAIN tables[c] : g \in Nat /\ g < next_fd[c]

(* Every request is known, wherever it is, and its ids are with it.        *)
RequestInv ==
  /\ backend \in {"uring", "stub"}
  /\ Numbered(next_guest_fd, entries)
  /\ Queued(sq, next_guest_fd, entries, opens)
  /\ Taking(inflight, next_guest_fd, entries, opens)
  /\ cq \in Seq(Sqes) /\ Queued(cq, next_guest_fd, entries, opens)
  /\ Given(pending, next_guest_fd, entries, opens)

(* The ids of a request fit their fields.                                  *)
LEMMA IdsFit ==
  ASSUME NEW r \in Requests
  PROVE  UnpackUserData(PackUserData(r.cell, r.guest_fd, r.request_id)) = Ids(r)
<1>1. r.cell \in Cells /\ r.guest_fd \in 3..MaxFd /\ r.request_id \in RequestIds
  BY DEF Requests
<1>2. MaxFd \in Nat /\ 2^FdBits \in Nat /\ MaxFd \in 3..(2^FdBits - 1)
  BY WidthAssumption, PowersDouble
<1>3. r.guest_fd \in 0..(2^FdBits - 1)
  BY <1>1, <1>2
<1>4. r.cell \in 0..(2^CellBits - 1) /\ r.request_id \in 0..(2^RequestBits - 1)
  BY <1>1, WidthAssumption
<1>. QED
  BY <1>3, <1>4, RoundTrip DEF Ids

(* Either backend reports a completion under the ids of its request.       *)
LEMMA CompletionNames ==
  ASSUME NEW q, q.of \in Requests, Packed(q)
  PROVE  Completion(q) = [ids |-> Ids(q.of), of |-> q.of] /\ Completion(q) \in Completions
<1>1. UnpackUserData(q.user_data) = Ids(q.of)
  BY IdsFit DEF Packed
<1>. QED
  BY <1>1 DEF Completion, Ids, Completions

(* The completions among cqes that name cell c.                            *)
Own(cqes, c) ==
  {k \in Completions : k.of.cell = c /\ k.ids = Ids(k.of)
                       /\ \E i \in 1..Len(cqes) : k.of = cqes[i].of}

(* The records that the caller of poll_completions gives to a cell are     *)
(* those of its own requests.                                              *)
LEMMA RoutedFacts ==
  ASSUME NEW cqes \in Seq(Sqes), \A i \in 1..Len(cqes) : Packed(cqes[i]), NEW c \in Cells
  PROVE  Routed(cqes, c) \in Seq(Own(cqes, c))
<1>. DEFINE n == Len(cqes)
            V == Seq(Own(cqes, c))
            Next(i, v) == IF Completion(cqes[i]).ids.cell = c THEN Append(v, Completion(cqes[i])) ELSE v
            step == [q \in (1..n) \X V |-> Next(q[1], q[2])]
            Eq(f) == f = [i \in 0..n |-> IF i = 0 THEN << >> ELSE Next(i, f[i - 1])]
<1>1. Routed(cqes, c) = (CHOOSE h : Eq(h))[n]
  BY Zenon DEF Routed
<1>2. n \in Nat
  OBVIOUS
<1>3. ASSUME NEW i \in 1..n, NEW v \in V PROVE Next(i, v) \in V
  <2>0. cqes[i] \in Sqes /\ Packed(cqes[i])
    OBVIOUS
  <2>1. cqes[i].of \in Requests /\ Packed(cqes[i])
    BY <2>0 DEF Sqes
  <2>2. /\ Completion(cqes[i]) = [ids |-> Ids(cqes[i].of), of |-> cqes[i].of]
        /\ Completion(cqes[i]) \in Completions
    BY <2>1, CompletionNames
  <2>3. CASE Completion(cqes[i]).ids.cell = c
    <3>1. Completion(cqes[i]) \in Own(cqes, c)
      BY <2>2, <2>3 DEF Own, Ids
    <3>. QED
      BY <2>3, <3>1, AppendProperties
  <2>4. CASE Completion(cqes[i]).ids.cell # c
    BY <2>4
  <2>. QED
    BY <2>3, <2>4
<1>. HIDE DEF Next
<1>4. StepsIn(n, V, << >>, step)
  <2>1. << >> \in V
    OBVIOUS
  <2>. HIDE DEF V
  <2>. QED
    BY <1>2, <1>3, <2>1 DEF StepsIn
<1>5. \A i \in 1..n : \A v \in V : step[<<i, v>>] = Next(i, v)
  <2>. HIDE DEF V
  <2>. QED
    OBVIOUS
<1>. HIDE DEF step, V, n
<1>6. PICK f : Iterates(f, n, V, << >>, step)
  BY <1>4, RecursionExists
<1>7. Eq(f)
  <2>1. \A i \in 1..n : i - 1 \in 0..n
    BY <1>2
  <2>2. \A i \in 1..n : f[i] = Next(i, f[i - 1])
    BY <1>5, <1>6, <2>1 DEF Iterates
  <2>3. \A i \in 0..n : i = 0 \/ i \in 1..n
    BY <1>2
  <2>4. f = [i \in 0..n |-> f[i]] /\ f[0] = << >>
    BY <1>6 DEF Iterates
  <2>. QED
    BY <2>2, <2>3, <2>4
<1>. DEFINE h == CHOOSE h : Eq(h)
<1>8. Eq(h)
  BY <1>7, Zenon
<1>. HIDE DEF h
<1>9. Iterates(h, n, V, << >>, step)
  <2>1. \A i \in 1..n : i \in 0..n /\ i # 0
    BY <1>2
  <2>2. \A i \in 1..n : h[i] = Next(i, h[i - 1])
    BY <1>8, <2>1
  <2>3. DOMAIN h = 0..n /\ h = [i \in 0..n |-> h[i]] /\ h[0] = << >>
    BY <1>2, <1>8
  <2>4. GoesOn(h, n, V, << >>, step)
    BY <1>5, <2>2, <2>3 DEF GoesOn
  <2>. QED
    BY <1>4, <2>4, StaysWithin
<1>10. n \in 0..n
  BY <1>2
<1>11. h[n] \in V
  BY <1>9, <1>10 DEF Iterates
<1>. QED
  BY <1>1, <1>11 DEF h, V

(* No step makes a guest fd stand for another file: fds are numbered       *)
(* upwards, and a host fd is opened anew only when nobody has it open.     *)
LEMMA KnownStays ==
  ASSUME QueueInv, RequestInv, [IoNext]_ioVars, NEW r, Known(r, next_guest_fd, entries, opens)
  PROVE  Known(r, next_guest_fd', entries', opens')
<1>0. /\ r.cell \in Cells /\ r.guest_fd \in Nat /\ r.host_fd \in HostFds /\ r \in Requests
      /\ next_guest_fd \in [Cells -> Nat] /\ opens \in [HostFds -> Nat]
      /\ r.guest_fd < next_guest_fd[r.cell] /\ DOMAIN entries = Cells
  <2>1. /\ r \in Requests /\ r.guest_fd < next_guest_fd[r.cell]
        /\ next_guest_fd \in [Cells -> Nat] /\ opens \in [HostFds -> Nat] /\ DOMAIN entries = Cells
    BY DEF Known, Numbered, QueueInv, RequestInv
  <2>2. r.cell \in Cells /\ r.guest_fd \in 3..MaxFd /\ r.host_fd \in HostFds
    BY <2>1 DEF Requests
  <2>. QED
    BY <2>1, <2>2
<1>1. ASSUME NEW c \in Cells, NEW h \in HostFds, Register(c, h)
      PROVE  Known(r, next_guest_fd', entries', opens')
  <2>. DEFINE g == next_guest_fd[c]
  <2>1. /\ ~IsOpen(h)
        /\ opens' = [opens EXCEPT ![h] = @ + 1]
        /\ next_guest_fd' = [next_guest_fd EXCEPT ![c] = g + 1]
        /\ entries' = [entries EXCEPT ![c] = Insert(c, g, h)]
    BY <1>1 DEF Register
  <2>2. g \in Nat
    BY <1>0
  <2>. HIDE DEF g
  <2>3. r.guest_fd < next_guest_fd'[r.cell]
    BY <1>0, <2>1, <2>2 DEF g
  <2>4. ASSUME r.guest_fd \in DOMAIN entries'[r.cell]
        PROVE  /\ r.guest_fd \in DOMAIN entries[r.cell]
               /\ entries'[r.cell][r.guest_fd] = entries[r.cell][r.guest_fd]
    <3>1. CASE r.cell = c
      <4>1. r.guest_fd # g
        BY <1>0, <2>2, <3>1 DEF g
      <4>2. entries'[r.cell] = Insert(c, g, h)
        BY <1>0, <2>1, <3>1
      <4>. QED
        BY <2>4, <3>1, <4>1, <4>2 DEF Insert
    <3>2. CASE r.cell # c
      BY <1>0, <2>1, <2>4, <3>2
    <3>. QED
      BY <3>1, <3>2
  <2>5. ASSUME r.guest_fd \in DOMAIN entries'[r.cell]
        PROVE  entries'[r.cell][r.guest_fd] = r.host_fd /\ opens'[r.host_fd] = r.file
    <3>1. entries[r.cell][r.guest_fd] = r.host_fd /\ opens[r.host_fd] = r.file
      BY <2>4, <2>5 DEF Known
    <3>2. r.host_fd # h
      BY <1>0, <2>1, <2>4, <2>5, <3>1 DEF IsOpen
    <3>. QED
      BY <1>0, <2>1, <2>4, <2>5, <3>1, <3>2
  <2>. QED
    BY <1>0, <2>3, <2>5 DEF Known
<1>2. ASSUME NEW c \in Cells, NEW g \in 3..MaxFd, Close(c, g)
      PROVE  Known(r, next_guest_fd', entries', opens')
  <2>1. /\ entries' = [entries EXCEPT ![c] = [d \in DOMAIN entries[c] \ {g} |-> entries[c][d]]]
        /\ UNCHANGED <<next_guest_fd, opens>>
    BY <1>0, <1>2 DEF Close
  <2>2. ASSUME r.guest_fd \in DOMAIN entries'[r.cell]
        PROVE  /\ r.guest_fd \in DOMAIN entries[r.cell]
               /\ entries'[r.cell][r.guest_fd] = entries[r.cell][r.guest_fd]
    BY <1>0, <2>1, <2>2
  <2>. QED
    BY <1>0, <2>1, <2>2 DEF Known
<1>3. CASE UNCHANGED <<next_guest_fd, entries, opens>>
  BY <1>3
<1>. QED
  BY <1>1, <1>2, <1>3
     DEF IoNext, SubmitFull, SubmitOk, SubmitFails, SubmitStub, RegisterFixedBuffer, KernelCompletes,
         PollCompletions, DrainForDispatch, ioVars, fdVars

(* A request just made is known.                                           *)
LEMMA NewIsKnown ==
  ASSUME QueueInv, RequestInv, NEW c \in Cells, NEW g \in 3..MaxFd, NEW id \in RequestIds,
         g \in DOMAIN entries[c]
  PROVE  /\ Sqe(c, g, id) \in Sqes /\ Packed(Sqe(c, g, id))
         /\ Known(Sqe(c, g, id).of, next_guest_fd, entries, opens)
<1>1. Sqe(c, g, id) \in Sqes
  BY SqeType
<1>2. Request(c, g, id) \in Requests
  BY <1>1 DEF Sqe, Sqes
<1>3. Known(Request(c, g, id), next_guest_fd, entries, opens)
  BY <1>2 DEF Known, Request, RequestInv, Numbered
<1>. QED
  BY <1>1, <1>3 DEF Sqe, Packed, Request

(* No request, no open fd.                                                 *)
LEMMA RequestInit == IoInit => RequestInv
<1>. SUFFICES ASSUME IoInit PROVE RequestInv
  OBVIOUS
<1>1. /\ entries = [c \in Cells |-> [g \in {} |-> 0]] /\ next_guest_fd = [c \in Cells |-> 3]
      /\ backend \in {"uring", "stub"} /\ sq = << >> /\ inflight = {} /\ cq = << >>
      /\ pending = [c \in Cells |-> << >>]
  BY DEF IoInit
<1>2. pending \in [Cells -> Seq(Completions)] /\ \A c \in Cells : Len(pending[c]) = 0
  BY <1>1
<1>3. cq \in Seq(Sqes) /\ Len(cq) = 0 /\ Len(sq) = 0
  BY <1>1
<1>4. \A c \in Cells : DOMAIN entries[c] = {}
  BY <1>1
<1>. QED
  BY <1>1, <1>2, <1>3, <1>4 DEF RequestInv, Numbered, Queued, Taking, Given

(* All of them stay known in a step.                                       *)
LEMMA AllStayKnown ==
  ASSUME QueueInv, RequestInv, [IoNext]_ioVars
  PROVE  /\ Queued(sq, next_guest_fd', entries', opens')
         /\ Taking(inflight, next_guest_fd', entries', opens')
         /\ Queued(cq, next_guest_fd', entries', opens')
         /\ Given(pending, next_guest_fd', entries', opens')
<1>. DEFINE Now(r) == Known(r, next_guest_fd, entries, opens)
            Then(r) == Known(r, next_guest_fd', entries', opens')
<1>1. \A r : Now(r) => Then(r)
  BY KnownStays
<1>2. \A i \in 1..Len(sq) : Packed(sq[i]) /\ Now(sq[i].of)
  BY DEF RequestInv, Queued
<1>3. \A i \in 1..Len(cq) : Packed(cq[i]) /\ Now(cq[i].of)
  BY DEF RequestInv, Queued
<1>4. \A q \in inflight : Packed(q) /\ Now(q.of) /\ q.user_data \in SUBSET (0..(WordBits - 1))
  BY Zenon DEF RequestInv, Taking
<1>5. /\ pending \in [Cells -> Seq(Completions)]
      /\ \A c \in Cells : \A i \in 1..Len(pending[c]) :
           /\ pending[c][i].of.cell = c
           /\ pending[c][i].ids = Ids(pending[c][i].of)
           /\ Now(pending[c][i].of)
  BY Zenon DEF RequestInv, Given
<1>. HIDE DEF Now
<1>6. Queued(sq, next_guest_fd', entries', opens') /\ Queued(cq, next_guest_fd', entries', opens')
  BY <1>1, <1>2, <1>3 DEF Queued
<1>7. Taking(inflight, next_guest_fd', entries', opens')
  BY <1>1, <1>4, Zenon DEF Taking
<1>8. Given(pending, next_guest_fd', entries', opens')
  BY <1>1, <1>5, Zenon DEF Given
<1>. QED
  BY <1>6, <1>7, <1>8

(* One more request in a queue.                                            *)
LEMMA OneMoreQueued ==
  ASSUME NEW s \in Seq(Sqes), NEW q \in Sqes, NEW n, NEW e, NEW o,
         Queued(s, n, e, o), Packed(q), Known(q.of, n, e, o)
  PROVE  Append(s, q) \in Seq(Sqes) /\ Queued(Append(s, q), n, e, o)
<1>1. /\ Append(s, q) \in Seq(Sqes) /\ Len(Append(s, q)) = Len(s) + 1 /\ Len(s) \in Nat
      /\ \A i \in 1..Len(s) : Append(s, q)[i] = s[i]
      /\ Append(s, q)[Len(s) + 1] = q
  OBVIOUS
<1>2. ASSUME NEW i \in 1..Len(Append(s, q))
      PROVE  Packed(Append(s, q)[i]) /\ Known(Append(s, q)[i].of, n, e, o)
  <2>1. i \in 1..Len(s) \/ i = Len(s) + 1
    BY <1>1
  <2>2. CASE i \in 1..Len(s)
    BY <1>1, <2>2 DEF Queued
  <2>3. CASE i = Len(s) + 1
    BY <1>1, <2>3
  <2>. QED
    BY <2>1, <2>2, <2>3
<1>. QED
  BY <1>1, <1>2 DEF Queued

(* The kernel takes a queue.                                               *)
LEMMA QueueTaken ==
  ASSUME NEW s \in Seq(Sqes), NEW n, NEW e, NEW o, Queued(s, n, e, o)
  PROVE  Taking(Taken(s), n, e, o)
<1>. SUFFICES ASSUME NEW q \in Taken(s)
              PROVE  /\ Packed(q) /\ Known(q.of, n, e, o)
                     /\ q.user_data \in SUBSET (0..(WordBits - 1))
  BY Zenon DEF Taking
<1>1. PICK i \in 1..Len(s) : q.user_data = s[i].user_data /\ q.of = s[i].of
  BY DEF Taken
<1>2. s[i] \in Sqes
  OBVIOUS
<1>3. Packed(s[i]) /\ Known(s[i].of, n, e, o)
  BY DEF Queued
<1>. QED
  BY <1>1, <1>2, <1>3 DEF Packed, Sqes

(* Polling gives every cell its own.                                       *)
LEMMA PolledGiven ==
  ASSUME NEW s \in Seq(Sqes), NEW P, NEW n, NEW e, NEW o, Queued(s, n, e, o), Given(P, n, e, o)
  PROVE  Given([c \in Cells |-> P[c] \o Routed(s, c)], n, e, o)
<1>. DEFINE Fine(k, c) == k.of.cell = c /\ k.ids = Ids(k.of) /\ Known(k.of, n, e, o)
            Q == [c \in Cells |-> P[c] \o Routed(s, c)]
<1>1. ASSUME NEW c \in Cells
      PROVE  Q[c] \in Seq(Completions) /\ \A i \in 1..Len(Q[c]) : Fine(Q[c][i], c)
  <2>. DEFINE old == P[c]
              more == Routed(s, c)
              all == old \o more
  <2>1. more \in Seq(Own(s, c))
    BY RoutedFacts DEF Queued
  <2>2. old \in Seq(Completions) /\ \A i \in 1..Len(old) : Fine(old[i], c)
    BY DEF Given
  <2>3. \A k \in Own(s, c) : k \in Completions /\ Fine(k, c)
    BY DEF Own, Queued
  <2>. HIDE DEF old, more, Fine
  <2>4. more \in Seq(Completions) /\ \A i \in 1..Len(more) : Fine(more[i], c)
    <3>1. Len(more) \in Nat /\ more \in [1..Len(more) -> Own(s, c)]
      BY <2>1
    <3>2. more \in [1..Len(more) -> Completions] /\ \A i \in 1..Len(more) : Fine(more[i], c)
      BY <2>3, <3>1
    <3>. QED
      BY <3>1, <3>2
  <2>5. /\ all \in Seq(Completions) /\ Len(all) = Len(old) + Len(more)
        /\ Len(old) \in Nat /\ Len(more) \in Nat
        /\ \A i \in 1..Len(old) : all[i] = old[i]
        /\ \A i \in (Len(old) + 1)..(Len(old) + Len(more)) : all[i] = more[i - Len(old)]
    BY <2>2, <2>4
  <2>. HIDE DEF all
  <2>6. ASSUME NEW i \in 1..Len(all) PROVE Fine(all[i], c)
    <3>1. CASE i \in 1..Len(old)
      BY <2>2, <2>5, <3>1
    <3>2. CASE i \in (Len(old) + 1)..(Len(old) + Len(more))
      <4>1. i - Len(old) \in 1..Len(more)
        BY <2>5, <3>2
      <4>. QED
        BY <2>4, <2>5, <3>2, <4>1
    <3>3. i \in 1..Len(old) \/ i \in (Len(old) + 1)..(Len(old) + Len(more))
      BY <2>5
    <3>. QED
      BY <3>1, <3>2, <3>3
  <2>7. Q[c] = all
    BY DEF all, old, more
  <2>. QED
    BY <2>5, <2>6, <2>7
<1>2. Q \in [Cells -> Seq(Completions)]
  BY <1>1
<1>. HIDE DEF Q
<1>. QED
  BY <1>1, <1>2 DEF Q, Given

(* What is left to show of a step, once the requests it knew are known to  *)
(* stay known: that it adds none but known, packed ones.                   *)
LEMMA RequestStep == QueueInv /\ RequestInv /\ [IoNext]_ioVars => RequestInv'
<1>. SUFFICES ASSUME QueueInv, RequestInv, [IoNext]_ioVars PROVE RequestInv'
  OBVIOUS
<1>0. /\ Queued(sq, next_guest_fd', entries', opens')
      /\ Taking(inflight, next_guest_fd', entries', opens')
      /\ Queued(cq, next_guest_fd', entries', opens')
      /\ Given(pending, next_guest_fd', entries', opens')
  BY AllStayKnown
<1>1. sq \in Seq(Sqes) /\ cq \in Seq(Sqes) /\ backend \in {"uring", "stub"}
  BY DEF QueueInv, RequestInv
<1>2. /\ next_guest_fd \in [Cells -> Nat] /\ DOMAIN entries = Cells
      /\ \A c \in Cells : \A g \in DOMAIN entries[c] : g \in Nat /\ g < next_guest_fd[c]
  BY DEF RequestInv, QueueInv, Numbered
<1>3. ASSUME NEW c \in Cells, NEW h \in HostFds, Register(c, h) PROVE RequestInv'
  <2>. DEFINE g == next_guest_fd[c]
  <2>1. /\ next_guest_fd' = [next_guest_fd EXCEPT ![c] = g + 1]
        /\ entries' = [entries EXCEPT ![c] = Insert(c, g, h)]
        /\ UNCHANGED <<backend, sq, inflight, cq, pending>>
    BY <1>3 DEF Register, ringVars
  <2>2. next_guest_fd' \in [Cells -> Nat]
    BY <1>2, <2>1
  <2>3. ASSUME NEW d \in Cells, NEW x \in DOMAIN entries'[d] PROVE x \in Nat /\ x < next_guest_fd'[d]
    <3>1. CASE d = c
      <4>1. g \in Nat /\ next_guest_fd'[d] = g + 1
        BY <1>2, <2>1, <3>1
      <4>2. x = g \/ x \in DOMAIN entries[c]
        BY <1>2, <2>1, <2>3, <3>1 DEF Insert
      <4>3. x \in DOMAIN entries[c] => x \in Nat /\ x < g
        BY <1>2
      <4>. HIDE DEF g
      <4>4. CASE x = g
        BY <4>1, <4>4
      <4>5. CASE x \in DOMAIN entries[c]
        BY <4>1, <4>3, <4>5
      <4>. QED
        BY <4>2, <4>4, <4>5
    <3>2. CASE d # c
      BY <1>2, <2>1, <2>3, <3>2
    <3>. QED
      BY <3>1, <3>2
  <2>4. Numbered(next_guest_fd', entries')
    BY <2>2, <2>3 DEF Numbered
  <2>. QED
    BY <1>0, <1>1, <2>1, <2>4 DEF RequestInv
<1>4. ASSUME NEW c \in Cells, NEW g \in 3..MaxFd, Close(c, g) PROVE RequestInv'
  <2>1. /\ entries' = [entries EXCEPT ![c] = [d \in DOMAIN entries[c] \ {g} |-> entries[c][d]]]
        /\ UNCHANGED <<next_guest_fd, backend, sq, inflight, cq, pending>>
    BY <1>2, <1>4 DEF Close, ringVars
  <2>2. \A d \in Cells : \A x \in DOMAIN entries'[d] : x \in Nat /\ x < next_guest_fd'[d]
    BY <1>2, <2>1
  <2>3. Numbered(next_guest_fd', entries')
    BY <1>2, <2>1, <2>2 DEF Numbered
  <2>. QED
    BY <1>0, <1>1, <2>1, <2>3 DEF RequestInv
<1>5. Numbered(next_guest_fd, entries)
  BY DEF RequestInv
<1>6. ASSUME NEW c \in Cells, NEW g \in 3..MaxFd, NEW id \in RequestIds, SubmitOk(c, g, id)
      PROVE  RequestInv'
  <2>. DEFINE new == Sqe(c, g, id)
  <2>1. /\ g \in DOMAIN entries[c] /\ inflight' = inflight \cup Taken(Append(sq, new)) /\ sq' = << >>
        /\ UNCHANGED <<next_guest_fd, entries, opens, backend, cq, pending>>
    BY <1>6 DEF SubmitOk, Calls, fdVars
  <2>2. new \in Sqes /\ Packed(new) /\ Known(new.of, next_guest_fd', entries', opens')
    BY <2>1, NewIsKnown
  <2>. HIDE DEF new
  <2>3. Taking(Taken(Append(sq, new)), next_guest_fd', entries', opens')
    BY <1>0, <1>1, <2>2, OneMoreQueued, QueueTaken
  <2>4. Taking(inflight', next_guest_fd', entries', opens')
    BY <1>0, <2>1, <2>3 DEF Taking
  <2>5. Queued(sq', next_guest_fd', entries', opens')
    <3>1. 1..Len(sq') = {}
      BY <2>1
    <3>. QED
      BY <3>1 DEF Queued
  <2>. QED
    BY <1>0, <1>1, <1>5, <2>1, <2>4, <2>5 DEF RequestInv
<1>7. ASSUME NEW c \in Cells, NEW g \in 3..MaxFd, NEW id \in RequestIds, SubmitFails(c, g, id)
      PROVE  RequestInv'
  <2>. DEFINE new == Sqe(c, g, id)
  <2>1. /\ g \in DOMAIN entries[c] /\ sq' = Append(sq, new)
        /\ UNCHANGED <<next_guest_fd, entries, opens, backend, inflight, cq, pending>>
    BY <1>7 DEF SubmitFails, Calls, fdVars
  <2>2. new \in Sqes /\ Packed(new) /\ Known(new.of, next_guest_fd', entries', opens')
    BY <2>1, NewIsKnown
  <2>. HIDE DEF new
  <2>3. Queued(sq', next_guest_fd', entries', opens')
    BY <1>0, <1>1, <2>1, <2>2, OneMoreQueued
  <2>. QED
    BY <1>0, <1>1, <1>5, <2>1, <2>3 DEF RequestInv
<1>8. ASSUME NEW c \in Cells, NEW g \in 3..MaxFd, NEW id \in RequestIds, SubmitStub(c, g, id)
      PROVE  RequestInv'
  <2>. DEFINE new == Sqe(c, g, id)
  <2>1. /\ g \in DOMAIN entries[c] /\ cq' = Append(cq, new)
        /\ UNCHANGED <<next_guest_fd, entries, opens, backend, inflight, sq, pending>>
    BY <1>8 DEF SubmitStub, Calls, fdVars
  <2>2. new \in Sqes /\ Packed(new) /\ Known(new.of, next_guest_fd', entries', opens')
    BY <2>1, NewIsKnown
  <2>. HIDE DEF new
  <2>3. cq' \in Seq(Sqes) /\ Queued(cq', next_guest_fd', entries', opens')
    BY <1>0, <1>1, <2>1, <2>2, OneMoreQueued
  <2>. QED
    BY <1>0, <1>1, <1>5, <2>1, <2>3 DEF RequestInv
<1>9. ASSUME NEW q \in inflight, KernelCompletes(q) PROVE RequestInv'
  <2>. DEFINE new == [user_data |-> q.user_data, of |-> q.of]
  <2>1. /\ inflight' = inflight \ {q} /\ cq' = Append(cq, new)
        /\ UNCHANGED <<next_guest_fd, entries, opens, backend, sq, pending>>
    BY <1>9 DEF KernelCompletes, fdVars
  <2>2. /\ Packed(q) /\ Known(q.of, next_guest_fd', entries', opens')
        /\ q.user_data \in SUBSET (0..(WordBits - 1))
    BY <1>0, Zenon DEF Taking
  <2>3. q.of \in Requests
    BY <2>2 DEF Known
  <2>4. new \in Sqes /\ Packed(new) /\ Known(new.of, next_guest_fd', entries', opens')
    BY <2>2, <2>3 DEF Sqes, Packed
  <2>. HIDE DEF new
  <2>5. cq' \in Seq(Sqes) /\ Queued(cq', next_guest_fd', entries', opens')
    BY <1>0, <1>1, <2>1, <2>4, OneMoreQueued
  <2>6. Taking(inflight', next_guest_fd', entries', opens')
    BY <1>0, <2>1 DEF Taking
  <2>. QED
    BY <1>0, <1>1, <1>5, <2>1, <2>5, <2>6 DEF RequestInv
<1>10. CASE PollCompletions
  <2>1. /\ pending' = [c \in Cells |-> pending[c] \o Routed(cq, c)] /\ cq' = << >>
        /\ UNCHANGED <<next_guest_fd, entries, opens, backend, sq, inflight>>
    BY <1>10 DEF PollCompletions, fdVars
  <2>2. Given(pending', next_guest_fd', entries', opens')
    BY <1>0, <1>1, <2>1, PolledGiven
  <2>3. cq' \in Seq(Sqes) /\ 1..Len(cq') = {}
    BY <2>1
  <2>4. Queued(cq', next_guest_fd', entries', opens')
    BY <2>3 DEF Queued
  <2>. QED
    BY <1>0, <1>1, <1>5, <2>1, <2>2, <2>3, <2>4 DEF RequestInv
<1>11. ASSUME NEW c \in Cells, DrainForDispatch(c) PROVE RequestInv'
  <2>1. /\ pending' = [pending EXCEPT ![c] = << >>]
        /\ UNCHANGED <<next_guest_fd, entries, opens, backend, sq, inflight, cq>>
    BY <1>11 DEF DrainForDispatch, fdVars, ringVars
  <2>2. pending \in [Cells -> Seq(Completions)]
    BY <1>0 DEF Given
  <2>3. /\ pending' \in [Cells -> Seq(Completions)] /\ 1..Len(pending'[c]) = {}
        /\ \A d \in Cells : d # c => pending'[d] = pending[d]
    BY <2>1, <2>2
  <2>4. Given(pending', next_guest_fd', entries', opens')
    <3>1. ASSUME NEW d \in Cells, NEW i \in 1..Len(pending'[d])
          PROVE  /\ pending'[d][i].of.cell = d
                 /\ pending'[d][i].ids = Ids(pending'[d][i].of)
                 /\ Known(pending'[d][i].of, next_guest_fd', entries', opens')
      <4>1. pending'[d] = pending[d]
        BY <2>3
      <4>. QED
        BY <1>0, <4>1 DEF Given
    <3>. QED
      BY <2>3, <3>1 DEF Given
  <2>. QED
    BY <1>0, <1>1, <1>5, <2>1, <2>4 DEF RequestInv
<1>12. CASE UNCHANGED <<next_guest_fd, entries, opens, backend, sq, inflight, cq, pending>>
  BY <1>12 DEF RequestInv
<1>. QED
  BY <1>3, <1>4, <1>6, <1>7, <1>8, <1>9, <1>10, <1>11, <1>12
     DEF IoNext, SubmitFull, RegisterFixedBuffer, ioVars, fdVars, ringVars

(* Both invariants along every behaviour.                                  *)
LEMMA AlwaysRequestInv == IoSafety => [](QueueInv /\ RequestInv)
  BY QueueInit, QueueStep, RequestInit, RequestStep, PTL DEF IoSafety

(* linux_ring.rs:9-14, 132-146: for any cells, widths of the three fields, *)
(* ids and fds that fit them, and any order of completions, what a cell is *)
(* given was asked for by that cell, under that fd and that request id.    *)
THEOREM CompletionsReachTheirCell == IoSafety => []CompletionsNameTheirRequest
<1>1. RequestInv => CompletionsNameTheirRequest
  <2>. SUFFICES ASSUME RequestInv, NEW c \in Cells, NEW i \in 1..Len(pending[c])
                PROVE  LET k == pending[c][i]
                       IN  /\ k.of.cell = c
                           /\ k.ids = [cell |-> c, guest_fd |-> k.of.guest_fd,
                                       request_id |-> k.of.request_id]
    BY DEF CompletionsNameTheirRequest
  <2>1. pending[c][i].of.cell = c /\ pending[c][i].ids = Ids(pending[c][i].of)
    BY DEF RequestInv, Given
  <2>. QED
    BY <2>1 DEF Ids
<1>. QED
  BY <1>1, AlwaysRequestInv, PTL

(* lib.rs:79-84: however fds are closed and host fds reused, a completion  *)
(* never names an fd that has come to stand for another file.              *)
THEOREM LateCompletionsNeverMislead == IoSafety => []LateCompletionsAreHarmless
<1>1. RequestInv => LateCompletionsAreHarmless
  <2>. SUFFICES ASSUME RequestInv, NEW c \in Cells, NEW i \in 1..Len(pending[c]),
                       pending[c][i].of.guest_fd \in DOMAIN entries[c]
                PROVE  LET k == pending[c][i].of
                       IN  entries[c][k.guest_fd] = k.host_fd /\ opens[k.host_fd] = k.file
    BY DEF LateCompletionsAreHarmless
  <2>1. /\ pending[c][i].of.cell = c
        /\ Known(pending[c][i].of, next_guest_fd, entries, opens)
    BY DEF RequestInv, Given
  <2>. QED
    BY <2>1 DEF Known
<1>. QED
  BY <1>1, AlwaysRequestInv, PTL
=============================================================================
