------------------------------- MODULE MmdDma -------------------------------
(***************************************************************************)
(* One mmd_dma object of the host driver                                   *)
(* (common/source/host/mmd_dma.cpp): a work queue and its worker thread,   *)
(* blocking callers that run do_dma() on their own thread, the DMA         *)
(* controller of the board behind three CSRs, and the destructor.          *)
(*                                                                         *)
(* A transfer is identified with the call that asked for it, so the        *)
(* program counter of a call is also the program counter of the thread     *)
(* that executes do_dma() for it: its own caller for a blocking call       *)
(* (op = NULL), the worker for an asynchronous one.                        *)
(*                                                                         *)
(* The constructor has succeeded: what fails in it (event handle, driver   *)
(* buffer, page of the magic number) is printed, and the object is used    *)
(* all the same.                                                           *)
(***************************************************************************)
EXTENDS Integers, Sequences

CONSTANTS
  Async,       \* calls made with an op: queued for the worker
  Blocking,    \* calls made with op = NULL: executed by the caller
  Size,        \* Size[i]: the length of call i
  Threshold,   \* dma_copy_threshold: 0 on hardware, positive in a SIM build
  DmaMaxLen,   \* value of OFS_OCL_ENV_DMA_MAX_LEN, 0 when it is not set
  Align,       \* alignment required of it (64 bytes in the code)
  Faults,      \* which calls to the platform may fail
  NULL

Calls == Async \cup Blocking
Modes == {"h2f", "f2h"}

(***************************************************************************)
(* The failures do_dma() and send_descriptors() can meet: pinning fails,   *)
(* the CSR write of an address or of the length fails, poll() times out or *)
(* returns an error, read() of the eventfd fails.                          *)
(***************************************************************************)
FaultKinds == {"prepare", "addr", "len", "timeout", "poll", "read"}

(***************************************************************************)
(* After these the driver no longer knows what the controller is doing.    *)
(***************************************************************************)
StaleFaults == {"addr", "timeout", "poll", "read"}

ASSUME CallsAssumption ==
  /\ Async \cap Blocking = {}
  /\ NULL \notin Calls
  /\ Size \in [Calls -> Nat]
ASSUME ParametersAssumption ==
  /\ Threshold \in Nat
  /\ DmaMaxLen \in Nat
  /\ Align \in Nat \ {0}
  /\ Faults \subseteq FaultKinds

VARIABLES
  m_mode,               \* direction, fixed by the constructor
  m_work_queue,         \* asynchronous calls the worker has not taken
  m_work_thread_active,
  worker,               \* where the worker thread is
  m_item,               \* the call the worker is executing
  notifying,            \* callers between push() and notify_one()
  dtor,                 \* where ~mmd_dma() is
  pc,                   \* pc[i]: where call i is
  offset,               \* offset[i]: how far do_dma() has got in call i
  dma_res,              \* dma_res[i]: result of call i
  m_dma_op_mutex,       \* the call whose thread holds the mutex
  csr,                  \* source and destination CSRs
  hw,                   \* descriptors the controller has not finished
  done,                 \* eventfd readable (h2f) or magic number seen (f2h)
  pins,                 \* pins[i]: pins of the host memory of call i
  dma_buffer,           \* dma_buffer[w]: call whose word w is in the buffer
  delivered,            \* delivered[i]: words of i that reached their target
  stale                 \* TRUE after a fault in StaleFaults

queueVars == <<m_work_queue, m_work_thread_active, worker, m_item, notifying, dtor>>
dataVars  == <<pins, dma_buffer, delivered>>
hwVars    == <<m_dma_op_mutex, csr, hw, done>>
callVars  == <<pc, offset, dma_res>>
vars == <<m_mode, queueVars, callVars, hwVars, dataVars, stale>>

-----------------------------------------------------------------------------
Words(i) == 0 .. Size[i] - 1
MaxWords == UNION {Words(i) : i \in Calls}

\* Only f2h honours the environment variable, and only when it is aligned.
AlignedMaxLen == IF DmaMaxLen % Align = 0 THEN DmaMaxLen ELSE 0
max_dma_len   == IF m_mode = "f2h" THEN AlignedMaxLen ELSE 0

UsesDmaBuffer(i) == Size[i] <= Threshold

dma_len(i)    == Size[i] - offset[i]
LastChunk(i)  == max_dma_len = 0 \/ dma_len(i) <= max_dma_len
\* Mutant: the remainder is sent with the full chunk length.
FullChunk(i)  == IF max_dma_len = 0 THEN dma_len(i) ELSE max_dma_len

ChunkLen(i)   == IF LastChunk(i) THEN dma_len(i) ELSE max_dma_len

Addresses   == [call : Calls \cup {NULL}, off : Nat]
Descriptors == [call : Calls \cup {NULL}, off : Nat, len : Nat]

\* The words of its call that a descriptor moves.
Moved(d) == (d.off .. d.off + d.len - 1) \cap (IF d.call = NULL THEN {} ELSE Words(d.call))

\* The environment makes a platform call fail.
Fail(kind) ==
  /\ kind \in Faults
  /\ stale' = (stale \/ kind \in StaleFaults)

Init ==
  /\ m_mode \in Modes
  /\ m_work_queue = <<>>
  /\ m_work_thread_active = TRUE
  /\ worker = "check"
  /\ m_item = NULL
  /\ notifying = {}
  /\ dtor = "none"
  /\ pc = [i \in Calls |-> "idle"]
  /\ offset = [i \in Calls |-> 0]
  /\ dma_res = [i \in Calls |-> 0]
  /\ m_dma_op_mutex = NULL
  /\ csr = [call |-> NULL, off |-> 0]
  /\ hw = <<>>
  /\ done = FALSE
  /\ pins = [i \in Calls |-> 0]
  /\ dma_buffer = [w \in MaxWords |-> NULL]
  /\ delivered = [i \in Calls |-> {}]
  /\ stale = FALSE

-----------------------------------------------------------------------------
(***************************************************************************)
(* Callers: enqueue_dma().  Pushing (under m_work_queue_mutex) and         *)
(* notify_one() (after the unlock) are separate steps.                     *)
(***************************************************************************)
Push(i) ==
  /\ dtor = "none"
  /\ pc[i] = "idle"
  /\ m_work_queue' = Append(m_work_queue, i)
  /\ notifying' = notifying \cup {i}
  /\ pc' = [pc EXCEPT ![i] = "queued"]
  /\ UNCHANGED <<m_mode, m_work_thread_active, worker, m_item, dtor, offset,
                 dma_res, hwVars, dataVars, stale>>

\* Mutant: the notification does not reach the worker.
NotificationLost == worker

\* notify_one() wakes the worker only if it is already blocked in wait().
Wakened == IF worker = "waiting" THEN "woken" ELSE worker

NotifyOne(i) ==
  /\ i \in notifying
  /\ notifying' = notifying \ {i}
  /\ worker' = Wakened
  /\ UNCHANGED <<m_mode, m_work_queue, m_work_thread_active, m_item, dtor,
                 callVars, hwVars, dataVars, stale>>

BlockingCall(i) ==
  /\ dtor = "none"
  /\ pc[i] = "idle"
  /\ pc' = [pc EXCEPT ![i] = "start"]
  /\ UNCHANGED <<m_mode, queueVars, offset, dma_res, hwVars, dataVars, stale>>

-----------------------------------------------------------------------------
(***************************************************************************)
(* The worker: work_thread().  Locking, testing the queue and either       *)
(* popping or blocking in wait() is one step, because m_work_queue_mutex   *)
(* is held throughout and nothing but push() needs it.                     *)
(***************************************************************************)
WorkerCheck ==
  /\ worker = "check"
  /\ worker' = IF m_work_thread_active THEN "scan" ELSE "exited"
  /\ UNCHANGED <<m_mode, m_work_queue, m_work_thread_active, m_item, notifying,
                 dtor, callVars, hwVars, dataVars, stale>>

Wait ==
  /\ m_work_queue = <<>>
  /\ worker' = "waiting"
  /\ UNCHANGED <<m_work_queue, m_item, pc>>

\* Mutant: the last item pushed is taken first.
TakeNewest ==
  /\ m_work_queue # <<>>
  /\ m_item' = m_work_queue[Len(m_work_queue)]
  /\ m_work_queue' = SubSeq(m_work_queue, 1, Len(m_work_queue) - 1)
  /\ pc' = [pc EXCEPT ![m_item'] = "start"]
  /\ worker' = "busy"

Take ==
  /\ m_work_queue # <<>>
  /\ m_item' = Head(m_work_queue)
  /\ m_work_queue' = Tail(m_work_queue)
  /\ pc' = [pc EXCEPT ![Head(m_work_queue)] = "start"]
  /\ worker' = "busy"

\* After a wake-up the test of the flag and the next test of the queue are one
\* step: a destructor that comes between them is missed like one that comes
\* between WorkerCheck and this step.
WorkerScan ==
  /\ \/ worker = "scan"
     \/ worker = "woken" /\ m_work_thread_active
  /\ Wait \/ Take
  /\ UNCHANGED <<m_mode, m_work_thread_active, notifying, dtor, offset, dma_res,
                 hwVars, dataVars, stale>>

\* The test of m_work_thread_active that follows wait().
WorkerQuit ==
  /\ worker = "woken"
  /\ ~m_work_thread_active
  /\ worker' = "exited"
  /\ UNCHANGED <<m_mode, m_work_queue, m_work_thread_active, m_item, notifying,
                 dtor, callVars, hwVars, dataVars, stale>>

\* A condition variable may wake up on its own.
SpuriousWakeup ==
  /\ worker = "waiting"
  /\ worker' = "woken"
  /\ UNCHANGED <<m_mode, m_work_queue, m_work_thread_active, m_item, notifying,
                 dtor, callVars, hwVars, dataVars, stale>>

-----------------------------------------------------------------------------
(***************************************************************************)
(* do_dma(): pin the host memory, or stage a short transfer in dma_buffer. *)
(***************************************************************************)
Pin(i) ==
  /\ pc[i] = "start"
  /\ ~UsesDmaBuffer(i)
  /\ \/ /\ pins' = [pins EXCEPT ![i] = @ + 1]
        /\ pc' = [pc EXCEPT ![i] = "send"]
        /\ UNCHANGED <<dma_res, stale>>
     \/ /\ Fail("prepare")
        /\ dma_res' = [dma_res EXCEPT ![i] = -1]
        /\ pc' = [pc EXCEPT ![i] = "report"]
        /\ UNCHANGED pins
  /\ UNCHANGED <<m_mode, queueVars, offset, hwVars, dma_buffer, delivered>>

Stage(i) ==
  /\ pc[i] = "start"
  /\ UsesDmaBuffer(i)
  /\ dma_buffer' = [w \in MaxWords |-> IF m_mode = "h2f" /\ w \in Words(i)
                                       THEN i ELSE dma_buffer[w]]
  /\ pc' = [pc EXCEPT ![i] = "send"]
  /\ UNCHANGED <<m_mode, queueVars, offset, dma_res, hwVars, pins, delivered, stale>>

\* Mutant: send_descriptors() without its lock_guard.
NoOpMutex == TRUE

OpMutexFree == m_dma_op_mutex = NULL

(***************************************************************************)
(* send_descriptors(): three CSR writes, then wait for the completion, all *)
(* under m_dma_op_mutex.  Only the result of the last write is looked at:  *)
(* a failed address write leaves the old address in place.  The writes of  *)
(* the two addresses are one step with one failure, which leaves both.     *)
(***************************************************************************)
WriteAddresses(i) ==
  /\ pc[i] = "send"
  /\ dma_len(i) > 0
  /\ OpMutexFree
  /\ m_dma_op_mutex' = i
  /\ \/ csr' = [call |-> i, off |-> offset[i]] /\ UNCHANGED stale
     \/ Fail("addr") /\ UNCHANGED csr
  /\ pc' = [pc EXCEPT ![i] = "len"]
  /\ UNCHANGED <<m_mode, queueVars, offset, dma_res, hw, done, dataVars>>

\* send_descriptors() returns 0: the loop of do_dma() moves to the next chunk.
SendSucceeds(i) ==
  /\ m_dma_op_mutex' = NULL
  /\ offset' = [offset EXCEPT ![i] = @ + ChunkLen(i)]
  /\ pc' = [pc EXCEPT ![i] = "send"]
  /\ UNCHANGED dma_res

\* send_descriptors() returns -1: inside the loop do_dma() returns at once,
\* after the loop it goes on to its clean-up.
SendFails(i) ==
  /\ m_dma_op_mutex' = NULL
  /\ dma_res' = [dma_res EXCEPT ![i] = -1]
  /\ pc' = [pc EXCEPT ![i] = IF LastChunk(i) THEN "finish" ELSE "report"]
  /\ UNCHANGED offset

\* Mutant: the descriptor is sent and not waited for.
SendDoesNotWait(i) ==
  /\ pc[i] = "len"
  /\ \/ /\ hw' = Append(hw, [call |-> csr.call, off |-> csr.off, len |-> ChunkLen(i)])
        /\ SendSucceeds(i)
        /\ UNCHANGED stale
     \/ Fail("len") /\ SendFails(i) /\ UNCHANGED hw
  /\ UNCHANGED <<m_mode, queueVars, csr, done, dataVars>>

WriteLength(i) ==
  /\ pc[i] = "len"
  /\ \/ /\ hw' = Append(hw, [call |-> csr.call, off |-> csr.off, len |-> ChunkLen(i)])
        /\ pc' = [pc EXCEPT ![i] = "wait"]
        /\ UNCHANGED <<m_dma_op_mutex, offset, dma_res, stale>>
     \/ Fail("len") /\ SendFails(i) /\ UNCHANGED hw
  /\ UNCHANGED <<m_mode, queueVars, csr, done, dataVars>>

\* Mutant: the eventfd is polled but not read, the magic number not zeroed.
CompletionNotConsumed(i) ==
  /\ pc[i] = "wait"
  /\ done
  /\ SendSucceeds(i)
  /\ UNCHANGED <<m_mode, queueVars, csr, hw, done, dataVars, stale>>

\* poll() and read() of the eventfd, or the magic number seen and zeroed.
Completion(i) ==
  /\ pc[i] = "wait"
  /\ done
  /\ done' = FALSE
  /\ SendSucceeds(i)
  /\ UNCHANGED <<m_mode, queueVars, csr, hw, dataVars, stale>>

PollTimeout(i) ==
  /\ pc[i] = "wait"
  /\ m_mode = "h2f"
  /\ ~done
  /\ Fail("timeout")
  /\ SendFails(i)
  /\ UNCHANGED <<m_mode, queueVars, csr, hw, done, dataVars>>

\* A negative result of poll() is printed and then treated as a completion.
PollError(i) ==
  /\ pc[i] = "wait"
  /\ m_mode = "h2f"
  /\ Fail("poll")
  /\ SendSucceeds(i)
  /\ UNCHANGED <<m_mode, queueVars, csr, hw, done, dataVars>>

ReadError(i) ==
  /\ pc[i] = "wait"
  /\ m_mode = "h2f"
  /\ done
  /\ Fail("read")
  /\ SendFails(i)
  /\ UNCHANGED <<m_mode, queueVars, csr, hw, done, dataVars>>

(***************************************************************************)
(* The end of do_dma(): copy out of dma_buffer (f2h, even after a failed   *)
(* send), release the pin.                                                 *)
(***************************************************************************)
\* Mutant: the staged data stays in the buffer.
NoCopyBack(i) == UNCHANGED delivered

CopyBack(i) ==
  delivered' = IF m_mode = "f2h" /\ UsesDmaBuffer(i)
               THEN [delivered EXCEPT ![i] = {w \in Words(i) : dma_buffer[w] = i}]
               ELSE delivered

\* Mutant: a failed transfer returns before the clean-up.
ReleaseIfOk(i) ==
  pins' = IF UsesDmaBuffer(i) \/ dma_res[i] # 0 THEN pins ELSE [pins EXCEPT ![i] = @ - 1]

ReleasePin(i) ==
  pins' = IF UsesDmaBuffer(i) THEN pins ELSE [pins EXCEPT ![i] = @ - 1]

Finish(i) ==
  /\ \/ pc[i] = "finish"
     \/ pc[i] = "send" /\ dma_len(i) = 0
  /\ CopyBack(i)
  /\ ReleasePin(i)
  /\ pc' = [pc EXCEPT ![i] = "report"]
  /\ UNCHANGED <<m_mode, queueVars, offset, dma_res, hwVars, dma_buffer, stale>>

\* event_update_fn(op, res) by the worker, or return to the blocking caller.
Report(i) ==
  /\ pc[i] = "report"
  /\ pc' = [pc EXCEPT ![i] = "done"]
  /\ IF i \in Async
     THEN worker' = "check" /\ m_item' = NULL
     ELSE UNCHANGED <<worker, m_item>>
  /\ UNCHANGED <<m_mode, m_work_queue, m_work_thread_active, notifying, dtor,
                 offset, dma_res, hwVars, dataVars, stale>>

-----------------------------------------------------------------------------
(***************************************************************************)
(* The DMA controller executes its descriptors in order.  An interrupt     *)
(* makes the eventfd readable, however many there were; a second magic     *)
(* number overwrites the first.                                            *)
(***************************************************************************)
HwComplete ==
  /\ hw # <<>>
  /\ LET d      == Head(hw)
         staged == Moved(d) # {} /\ UsesDmaBuffer(d.call)
         good   == {w \in Moved(d) : staged => dma_buffer[w] = d.call}
     IN  IF m_mode = "f2h" /\ staged
         THEN /\ dma_buffer' = [w \in MaxWords |-> IF w \in Moved(d) THEN d.call ELSE dma_buffer[w]]
              /\ UNCHANGED delivered
         ELSE /\ delivered' = [i \in Calls |-> IF i = d.call THEN (delivered[i] \ Moved(d)) \cup good
                                               ELSE delivered[i]]
              /\ UNCHANGED dma_buffer
  /\ hw' = Tail(hw)
  /\ done' = TRUE
  /\ UNCHANGED <<m_mode, queueVars, callVars, m_dma_op_mutex, csr, pins, stale>>

-----------------------------------------------------------------------------
(***************************************************************************)
(* ~mmd_dma().  Nobody may be inside a call on an object being destroyed,  *)
(* but the queue need not be empty.  The flag is cleared and the condition *)
(* variable notified without m_work_queue_mutex.                           *)
(***************************************************************************)
Destroy ==
  /\ dtor = "none"
  /\ notifying = {}
  /\ \A i \in Blocking : pc[i] \in {"idle", "done"}
  /\ m_work_thread_active' = FALSE
  /\ dtor' = "flagged"
  /\ UNCHANGED <<m_mode, m_work_queue, worker, m_item, notifying, callVars,
                 hwVars, dataVars, stale>>

DestroyNotify ==
  /\ dtor = "flagged"
  /\ worker' = Wakened
  /\ dtor' = "joining"
  /\ UNCHANGED <<m_mode, m_work_queue, m_work_thread_active, m_item, notifying,
                 callVars, hwVars, dataVars, stale>>

DestroyJoin ==
  /\ dtor = "joining"
  /\ worker = "exited"
  /\ dtor' = "destroyed"
  /\ UNCHANGED <<m_mode, m_work_queue, m_work_thread_active, worker, m_item,
                 notifying, callVars, hwVars, dataVars, stale>>

\* The object is gone: the only state in which nothing more can happen.
Destroyed == dtor = "destroyed" /\ UNCHANGED vars

-----------------------------------------------------------------------------
Worker == WorkerCheck \/ WorkerScan \/ WorkerQuit
Destructor == DestroyNotify \/ DestroyJoin

do_dma(i) ==
  \/ Pin(i)
  \/ Stage(i)
  \/ WriteAddresses(i)
  \/ WriteLength(i)
  \/ Completion(i)
  \/ PollTimeout(i)
  \/ PollError(i)
  \/ ReadError(i)
  \/ Finish(i)
  \/ Report(i)

Next ==
  \/ \E i \in Async : Push(i)
  \/ \E i \in Async : NotifyOne(i)
  \/ \E i \in Blocking : BlockingCall(i)
  \/ \E i \in Calls : do_dma(i)
  \/ Worker
  \/ SpuriousWakeup
  \/ HwComplete
  \/ Destroy
  \/ Destructor
  \/ Destroyed

Spec == Init /\ [][Next]_vars

(***************************************************************************)
(* Every thread that is inside the driver is scheduled, and the controller *)
(* finishes what it was given.  Nobody has to make a call or to destroy    *)
(* the object, and a spurious wakeup is never owed.                        *)
(***************************************************************************)
Fairness ==
  /\ WF_vars(Worker)
  /\ WF_vars(Destructor)
  /\ WF_vars(HwComplete)
  /\ \A i \in Async : WF_vars(NotifyOne(i))
  /\ \A i \in Calls : WF_vars(do_dma(i))

FairSpec == Spec /\ Fairness
-----------------------------------------------------------------------------
(***************************************************************************)
(* Types, and the ranges that keep the counters of do_dma() sensible: a    *)
(* pin is never taken twice nor released twice, and no chunk runs past the *)
(* end of its transfer.                                                    *)
(***************************************************************************)
TypeOK ==
  /\ m_mode \in Modes
  /\ m_work_queue \in Seq(Async)
  /\ m_work_thread_active \in BOOLEAN
  /\ worker \in {"check", "scan", "waiting", "woken", "busy", "exited"}
  /\ m_item \in Async \cup {NULL}
  /\ notifying \in SUBSET Async
  /\ dtor \in {"none", "flagged", "joining", "destroyed"}
  /\ pc \in [Calls -> {"idle", "queued", "start", "send", "len", "wait",
                       "finish", "report", "done"}]
  /\ offset \in [Calls -> Nat]
  /\ \A i \in Calls : offset[i] <= Size[i]
  /\ dma_res \in [Calls -> {0, -1}]
  /\ m_dma_op_mutex \in Calls \cup {NULL}
  /\ csr \in Addresses
  /\ hw \in Seq(Descriptors)
  /\ done \in BOOLEAN
  /\ pins \in [Calls -> {0, 1}]
  /\ dma_buffer \in [MaxWords -> Calls \cup {NULL}]
  /\ delivered \in [Calls -> SUBSET MaxWords]
  /\ stale \in BOOLEAN

(***************************************************************************)
(* As long as no fault has left the controller with work nobody waits for, *)
(* it has at most one descriptor, and a completion that can be seen is for *)
(* the descriptor of the thread that waits.  Two threads (the worker and a *)
(* blocking caller) share the CSRs, the eventfd and the magic number, so   *)
(* this is what m_dma_op_mutex and the reset of the event are for.         *)
(***************************************************************************)
CompletionBelongsToWaiter ==
  ~stale =>
    /\ Len(hw) <= 1
    /\ ~(done /\ hw # <<>>)
    /\ done \/ hw # <<>> =>
         /\ m_dma_op_mutex # NULL
         /\ pc[m_dma_op_mutex] = "wait"
    /\ \A k \in 1 .. Len(hw) : hw[k].call = m_dma_op_mutex

(***************************************************************************)
(* The controller only touches host memory that is still pinned (or the    *)
(* driver's own buffer): do_dma() never unpins under a running descriptor. *)
(***************************************************************************)
PinnedWhileInFlight ==
  ~stale => \A k \in 1 .. Len(hw) : UsesDmaBuffer(hw[k].call) \/ pins[hw[k].call] = 1

(***************************************************************************)
(* Status 0 means the operation is complete: every word of the transfer,   *)
(* in however many chunks, has reached its target.  Failures of pinning    *)
(* and of the length write are reported honestly.                          *)
(***************************************************************************)
SuccessMeansDelivered ==
  ~stale => \A i \in Calls : pc[i] = "done" /\ dma_res[i] = 0 => delivered[i] = Words(i)

(***************************************************************************)
(* A finished call has released its pin, except on the one path that       *)
(* returns early: a chunk that is not the last of an f2h transfer fails.   *)
(***************************************************************************)
PinsReleased ==
  \A i \in Calls :
    pc[i] = "done" /\ pins[i] # 0 => dma_res[i] = -1 /\ ~LastChunk(i)

(***************************************************************************)
(* The same without the exception, which is what the comment on do_dma()   *)
(* says ("it pins the host memory and unpins when done with DMA").         *)
(***************************************************************************)
UnpinnedWhenDone == \A i \in Calls : pc[i] = "done" => pins[i] = 0

(***************************************************************************)
(* Status 0 means complete, whatever the platform calls return: the        *)
(* comment on aocl_mmd_write, without the proviso of                       *)
(* SuccessMeansDelivered.                                                  *)
(***************************************************************************)
StatusZeroMeansComplete ==
  \A i \in Calls : pc[i] = "done" /\ dma_res[i] = 0 => delivered[i] = Words(i)

(***************************************************************************)
(* No wakeup is lost between push() and wait(), and nobody blocks forever  *)
(* on m_dma_op_mutex or on a completion: a queued transfer is reported     *)
(* unless the object is destroyed first, and a blocking call returns.      *)
(***************************************************************************)
EveryTransferEnds ==
  /\ \A i \in Async : pc[i] = "queued" ~> (pc[i] = "done" \/ dtor # "none")
  /\ \A i \in Blocking : pc[i] = "start" ~> pc[i] = "done"

(***************************************************************************)
(* The destructor returns, so that aocl_mmd_close() can return: the join() *)
(* succeeds because the worker sees the flag.                              *)
(***************************************************************************)
DestructorReturns == dtor = "flagged" ~> dtor = "destroyed"

(***************************************************************************)
(* The object implements the promise made to the runtime.  The calls       *)
(* accepted are the one the worker executes and those queued behind it;    *)
(* the statuses can be trusted until a fault leaves the controller with    *)
(* work nobody waits for, and order and number of the reports always.      *)
(***************************************************************************)
Outcome(i) ==
  IF pc[i] # "done" THEN "none" ELSE IF dma_res[i] = 0 THEN "ok" ELSE "failed"

Service == INSTANCE TransferService WITH
  Empty    <- {i \in Calls : Size[i] = 0},
  accepted <- (IF m_item = NULL THEN <<>> ELSE <<m_item>>) \o m_work_queue,
  running  <- {i \in Blocking : pc[i] \notin {"idle", "done"}},
  inPlace  <- {i \in Calls : delivered[i] = Words(i)},
  outcome  <- [i \in Calls |-> Outcome(i)],
  closed   <- dtor # "none",
  trusted  <- ~stale

ImplementsService == Service!Spec
=============================================================================
