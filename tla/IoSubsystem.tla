----------------------------- MODULE IoSubsystem ------------------------------
(***************************************************************************)
(* Guest I/O (chronos-io): the FdTable and the PendingCompletions of each  *)
(* cell, and the backend they share, UringIoSubsystem on an io_uring       *)
(* instance or the in-process stub.                                        *)
(*                                                                         *)
(*   entries, next_guest_fd   FdTable of each cell                         *)
(*   backend                  which IoSubsystem the process was built with *)
(*   sq         SQEs pushed and not yet taken by the kernel                *)
(*   inflight   requests in the kernel                                     *)
(*   cq         completions not yet polled                                 *)
(*   pending    PendingCompletions of each cell                            *)
(*   registered_buffer_lens, kernel_buffers   the index of each buffer     *)
(*              the backend knows, and the kernel's table of buffers       *)
(*                                                                         *)
(* History: opens counts how often the host opened a file under each host  *)
(* fd; accepted and delivered are the calls answered with Ok and the calls *)
(* whose completion their cell was given.  A request remembers its call    *)
(* and the file (an element of opens' range) its guest fd stood for.       *)
(*                                                                         *)
(* External, modelled from how the code uses them: the kernel, and the     *)
(* syscall layer that calls FdTable and IoSubsystem for a guest.  A submit *)
(* that succeeds takes the whole queue.                                    *)
(***************************************************************************)
EXTENDS Naturals, Sequences, FiniteSets, FiniteSetsExt

CONSTANTS
  Cells,                         \* cell ids, numbers as they are packed
  CellBits, FdBits, RequestBits, \* 24, 20 and 20 in the code
  RequestIds,                    \* ids that callers give their requests
  HostFds,                       \* host fd numbers, used again once closed
  Entries,                       \* slots of the submission queue
  BufferIndices,                 \* indices that callers register
  CloseWhileBusy,                \* BOOLEAN: are fds closed under a live request?
  MaxFd,                         \* bound of the model on guest fds
  MaxCalls                       \* bound of the model on submissions

ASSUME WidthAssumption ==
  /\ CellBits \in Nat /\ FdBits \in Nat /\ RequestBits \in Nat
  /\ \A c \in Cells : c \in 0..(2^CellBits - 1)
  /\ MaxFd \in 3..(2^FdBits - 1)
  /\ RequestIds \subseteq 0..(2^RequestBits - 1)
ASSUME BoundAssumption == Entries \in Nat \ {0} /\ MaxCalls \in Nat /\ CloseWhileBusy \in BOOLEAN

VARIABLES entries, next_guest_fd, backend, sq, inflight, cq, pending,
          registered_buffer_lens, kernel_buffers, opens, accepted, delivered, calls

fdVars == <<entries, next_guest_fd, opens>>
ringVars == <<sq, inflight, cq>>
bufferVars == <<registered_buffer_lens, kernel_buffers>>
history == <<accepted, delivered, calls>>
ioVars == <<fdVars, backend, ringVars, pending, bufferVars, history>>

-----------------------------------------------------------------------------
(* A word is the set of its one bits.                                      *)
BitsOf(n, width) == {b \in 0..(width - 1) : (n \div 2^b) % 2 = 1}
ShiftLeft(word, k) == {b + k : b \in word}
Field(word, low, width) ==
  LET value[k \in 0..width] ==
        IF k = 0 THEN 0
        ELSE value[k - 1] + (IF low + k - 1 \in word THEN 2^(k - 1) ELSE 0)
  IN  value[width]

WordBits == CellBits + FdBits + RequestBits

(* Faults a maintainer could introduce; used only to show that the         *)
(* properties notice them.                                                 *)
PackShortShift(cell, guest_fd, request_id) ==
  (ShiftLeft(BitsOf(cell, WordBits), FdBits + RequestBits - 1)
     \cup ShiftLeft(BitsOf(guest_fd, WordBits), RequestBits)
     \cup BitsOf(request_id, RequestBits)) \cap (0..(WordBits - 1))

(* pack_user_data: only request_id is masked; what is shifted out is lost. *)
PackUserData(cell, guest_fd, request_id) ==
  (ShiftLeft(BitsOf(cell, WordBits), FdBits + RequestBits)
     \cup ShiftLeft(BitsOf(guest_fd, WordBits), RequestBits)
     \cup BitsOf(request_id, RequestBits)) \cap (0..(WordBits - 1))

UnpackUserData(word) ==
  [cell |-> Field(word, FdBits + RequestBits, CellBits),
   guest_fd |-> Field(word, RequestBits, FdBits),
   request_id |-> Field(word, 0, RequestBits)]

IsOpen(h) == \E c \in Cells : \E g \in DOMAIN entries[c] : entries[c][g] = h

(* The file a host fd stands for at this moment; 0 when it is closed.      *)
FileOf(h) == IF IsOpen(h) THEN opens[h] ELSE 0

Live(c, g) ==
  \E q \in inflight \cup {cq[i] : i \in 1..Len(cq)}
             \cup UNION {{pending[d][i] : i \in 1..Len(pending[d])} : d \in Cells} :
    q.of.call \in accepted /\ q.of.cell = c /\ q.of.guest_fd = g

-----------------------------------------------------------------------------
IoInit ==
  /\ entries = [c \in Cells |-> [g \in {} |-> 0]]
  /\ next_guest_fd = [c \in Cells |-> 3]
  /\ opens = [h \in HostFds |-> 0]
  /\ backend \in {"uring", "stub"}
  /\ sq = << >> /\ inflight = {} /\ cq = << >>
  /\ pending = [c \in Cells |-> << >>]
  /\ registered_buffer_lens = {} /\ kernel_buffers = << >>
  /\ accepted = {} /\ delivered = {} /\ calls = 0

(* The host opens a file, under any free number, and FdTable::register     *)
(* gives it the cell's next guest fd.                                      *)
Insert(c, g, h) == [d \in DOMAIN entries[c] \cup {g} |-> IF d = g THEN h ELSE entries[c][d]]

RegisterLowestFree(c, h) ==
  LET g == Min((3..MaxFd) \ DOMAIN entries[c])
  IN  /\ (3..MaxFd) \ DOMAIN entries[c] # {}
      /\ ~IsOpen(h)
      /\ opens[h] < MaxCalls
      /\ opens' = [opens EXCEPT ![h] = @ + 1]
      /\ entries' = [entries EXCEPT ![c] = Insert(c, g, h)]
      /\ UNCHANGED <<next_guest_fd, backend, ringVars, pending, bufferVars, history>>

Register(c, h) ==
  LET g == next_guest_fd[c]
  IN  /\ g <= MaxFd
      /\ ~IsOpen(h)
      /\ opens' = [opens EXCEPT ![h] = @ + 1]
      /\ next_guest_fd' = [next_guest_fd EXCEPT ![c] = g + 1]
      /\ entries' = [entries EXCEPT ![c] = Insert(c, g, h)]
      /\ UNCHANGED <<backend, ringVars, pending, bufferVars, history>>

(* FdTable::close, and the host closes the fd it returns.                  *)
Close(c, g) ==
  /\ g \in DOMAIN entries[c]
  /\ CloseWhileBusy \/ ~Live(c, g)
  /\ entries' = [entries EXCEPT ![c] = [d \in DOMAIN @ \ {g} |-> @[d]]]
  /\ UNCHANGED <<next_guest_fd, opens, backend, ringVars, pending, bufferVars, history>>

(* register_fixed_buffer: whatever the index, one buffer is registered, so *)
(* it is number 0 of the kernel's table; the kernel refuses a second table.*)
RegisterFixedBuffer(i) ==
  /\ backend = "uring"
  /\ kernel_buffers = << >>
  /\ kernel_buffers' = <<i>>
  /\ registered_buffer_lens' = registered_buffer_lens \cup {i}
  /\ UNCHANGED <<fdVars, backend, ringVars, pending, history>>

(* A call of submit_read_fixed or submit_write_fixed for guest fd g, which *)
(* the syscall layer resolves first (UnknownFd changes nothing).           *)
Request(c, g, id) ==
  [call |-> calls + 1, cell |-> c, guest_fd |-> g, request_id |-> id,
   host_fd |-> entries[c][g], file |-> opens[entries[c][g]]]

Calls(c, g) ==
  /\ g \in DOMAIN entries[c]
  /\ calls < MaxCalls
  /\ calls' = calls + 1

Sqe(c, g, id) == [user_data |-> PackUserData(c, g, id), of |-> Request(c, g, id)]

(* The kernel takes SQEs and looks their host fds up.                      *)
Taken(sqes) ==
  {[user_data |-> sqes[i].user_data, of |-> sqes[i].of, file |-> FileOf(sqes[i].of.host_fd)]
     : i \in 1..Len(sqes)}

(* push finds no slot: SubmissionQueueFull, returned before submit.        *)
SubmitFull(c, g) ==
  /\ backend = "uring"
  /\ Calls(c, g)
  /\ Len(sq) = Entries
  /\ UNCHANGED <<fdVars, backend, ringVars, pending, bufferVars, accepted, delivered>>

(* A submit that runs before its own SQE is pushed.                        *)
SubmitBeforePush(c, g, id) ==
  /\ backend = "uring"
  /\ Calls(c, g)
  /\ Len(sq) < Entries
  /\ inflight' = inflight \cup Taken(sq)
  /\ sq' = <<Sqe(c, g, id)>>
  /\ accepted' = accepted \cup {calls'}
  /\ UNCHANGED <<fdVars, backend, cq, pending, bufferVars, delivered>>

(* push and submit succeed: Ok.  The kernel takes whatever is queued.      *)
SubmitOk(c, g, id) ==
  /\ backend = "uring"
  /\ Calls(c, g)
  /\ Len(sq) < Entries
  /\ inflight' = inflight \cup Taken(Append(sq, Sqe(c, g, id)))
  /\ sq' = << >>
  /\ accepted' = accepted \cup {calls'}
  /\ UNCHANGED <<fdVars, backend, cq, pending, bufferVars, delivered>>

(* push succeeds and submit fails: SetupFailed, and the SQE stays queued.  *)
SubmitFails(c, g, id) ==
  /\ backend = "uring"
  /\ Calls(c, g)
  /\ Len(sq) < Entries
  /\ sq' = Append(sq, Sqe(c, g, id))
  /\ UNCHANGED <<fdVars, backend, inflight, cq, pending, bufferVars, accepted, delivered>>

(* StubIoSubsystem: the request completes at once.                         *)
SubmitStub(c, g, id) ==
  /\ backend = "stub"
  /\ Calls(c, g)
  /\ cq' = Append(cq, Sqe(c, g, id))
  /\ accepted' = accepted \cup {calls'}
  /\ UNCHANGED <<fdVars, backend, sq, inflight, pending, bufferVars, delivered>>

(* External: the kernel finishes requests in any order.                    *)
KernelCompletes(q) ==
  /\ inflight' = inflight \ {q}
  /\ cq' = Append(cq, [user_data |-> q.user_data, of |-> q.of])
  /\ UNCHANGED <<fdVars, backend, sq, pending, bufferVars, history>>

(* The IoCompletion of a CQE; the stub keeps the fields it was given.      *)
Completion(cqe) ==
  [ids |-> IF backend = "stub"
           THEN [cell |-> cqe.of.cell, guest_fd |-> cqe.of.guest_fd,
                 request_id |-> cqe.of.request_id]
           ELSE UnpackUserData(cqe.user_data),
   of |-> cqe.of]

(* poll_completions drains the queue, and the caller pushes each record    *)
(* to the PendingCompletions of the cell it names.                         *)
Routed(cqes, c) ==
  LET pushed[i \in 0..Len(cqes)] ==
        IF i = 0 THEN << >>
        ELSE IF Completion(cqes[i]).ids.cell = c THEN Append(pushed[i - 1], Completion(cqes[i]))
        ELSE pushed[i - 1]
  IN  pushed[Len(cqes)]

PollFirst ==
  /\ cq # << >>
  /\ pending' = [c \in Cells |-> pending[c] \o Routed(<<Head(cq)>>, c)]
  /\ cq' = << >>
  /\ UNCHANGED <<fdVars, backend, sq, inflight, bufferVars, history>>

PollCompletions ==
  /\ cq # << >>
  /\ pending' = [c \in Cells |-> pending[c] \o Routed(cq, c)]
  /\ cq' = << >>
  /\ UNCHANGED <<fdVars, backend, sq, inflight, bufferVars, history>>

(* PendingCompletions::drain_for_dispatch, at the cell's quantum boundary. *)
DrainForDispatch(c) ==
  /\ pending[c] # << >>
  /\ delivered' = delivered \cup
       {pending[c][i].of.call : i \in {j \in 1..Len(pending[c]) : pending[c][j].of.cell = c}}
  /\ pending' = [pending EXCEPT ![c] = << >>]
  /\ UNCHANGED <<fdVars, backend, ringVars, bufferVars, accepted, calls>>

IoNext ==
  \/ \E c \in Cells, h \in HostFds : Register(c, h)
  \/ \E c \in Cells, g \in 3..MaxFd :
       \/ Close(c, g)
       \/ SubmitFull(c, g)
       \/ \E id \in RequestIds : SubmitOk(c, g, id) \/ SubmitFails(c, g, id) \/ SubmitStub(c, g, id)
  \/ \E i \in BufferIndices : RegisterFixedBuffer(i)
  \/ \E q \in inflight : KernelCompletes(q)
  \/ PollCompletions
  \/ \E c \in Cells : DrainForDispatch(c)

IoSafety == IoInit /\ [][IoNext]_ioVars

(* The kernel finishes what it took, the worker thread polls, and every    *)
(* cell is dispatched again and again (Scheduler, EveryCellGetsATurn).     *)
(* Nothing is assumed of guests, nor that submit ever succeeds.            *)
IoSpec ==
  /\ IoSafety
  /\ \A n \in 1..MaxCalls : WF_ioVars(\E q \in inflight : q.of.call = n /\ KernelCompletes(q))
  /\ WF_ioVars(PollCompletions)
  /\ \A c \in Cells : WF_ioVars(DrainForDispatch(c))
-----------------------------------------------------------------------------
(* linux_ring.rs:9-14: the three ids survive the round trip through        *)
(* user_data, so that a completion reaches the cell, fd and request it     *)
(* belongs to while other cells' requests complete in any order.           *)
CompletionsNameTheirRequest ==
  \A c \in Cells : \A i \in 1..Len(pending[c]) :
    LET k == pending[c][i]
    IN  /\ k.of.cell = c
        /\ k.ids = [cell |-> c, guest_fd |-> k.of.guest_fd, request_id |-> k.of.request_id]

(* lib.rs:79-84, guest fds are never handed out twice: a completion that   *)
(* arrives after its fd was closed, and the host fd reopened, is never     *)
(* taken for one of a file that the guest has open now.                    *)
LateCompletionsAreHarmless ==
  \A c \in Cells : \A i \in 1..Len(pending[c]) :
    LET k == pending[c][i].of
    IN  k.guest_fd \in DOMAIN entries[c] =>
          entries[c][k.guest_fd] = k.host_fd /\ opens[k.host_fd] = k.file

(* linux_ring.rs:108-118: only requests whose caller was told of a failure *)
(* are left in the submission queue.  A request answered with Ok does not  *)
(* wait for somebody else's next call.                                     *)
QueueHoldsOnlyFailures == \A i \in 1..Len(sq) : sq[i].of.call \notin accepted

(* lib.rs:134-136, "completion arrives later": every request answered with *)
(* Ok is at last given to its cell, even if its fd is closed meanwhile,    *)
(* other submissions fail, or the submission queue stays full.             *)
EveryAcceptedCompletes ==
  \A n \in 1..MaxCalls : n \in accepted ~> n \in delivered

(* linux_ring.rs:101-106, "never torn down mid-flight for a live request": *)
(* the kernel works on the file that the guest's fd stood for when the     *)
(* request was made, if fds are closed only when no live request uses them.*)
KernelUsesTheFile == \A q \in inflight : q.file = q.of.file

(* linux_ring.rs:33-36, "Indexed identically to how they were registered": *)
(* the kernel's buffer at each registered index is the one registered.     *)
BufferIndexIsTheKernels ==
  \A i \in registered_buffer_lens : i < Len(kernel_buffers) /\ kernel_buffers[i + 1] = i
=============================================================================
