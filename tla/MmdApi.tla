------------------------------- MODULE MmdApi -------------------------------
(***************************************************************************)
(* The data calls of the MMD (mmd.cpp: aocl_mmd_write, aocl_mmd_read,      *)
(* aocl_mmd_copy) and the Device functions under them (mmd_device.cpp:     *)
(* write_block, read_block, copy_block, write_mmio, read_mmio).            *)
(*                                                                         *)
(* Each element of Calls is one call, in a thread of its own.  Data is not *)
(* represented: moved[c] is the set of pairs <<s, d>> such that the byte   *)
(* at s of the call's source has been stored at d of its destination.      *)
(* Offsets in device memory are taken relative to ddr_offset, which        *)
(* read_block and write_block subtract and assert to be no larger than the *)
(* offset.  The two mmd_dma objects are a queue for calls with an op and a *)
(* transfer that ends in one step for the others: MmdDma models them.      *)
(*                                                                         *)
(* mmd_copy_buffer belongs to the device and has no lock: the host is      *)
(* taken to have one copy at a time, as the runtime has, and no call in    *)
(* progress when it programs the device.                                   *)
(***************************************************************************)
EXTENDS Integers, Sequences, FiniteSets

CONSTANTS
  Calls,                \* identities of the calls, each made at most once
  Requests,             \* the arguments a call may have
  Handlers,             \* the status handlers the host registers
  MMD_COPY_BUFFER_SIZE,
  NULL

Dirs == {"h2f", "f2h"}

\* op is TRUE for a call with an op (one that is reported to the status
\* handler); open says whether the handle is that of an open device.
ASSUME ApiAssumption ==
  /\ MMD_COPY_BUFFER_SIZE \in Nat \ {0}
  /\ \A r \in Requests :
       r \in [fn    : {"write", "read", "copy"},
              op    : BOOLEAN,
              iface : {"memory", "mmio"},
              src : Nat, dst : Nat, len : Nat,
              open : BOOLEAN]
  /\ NULL \notin Handlers
  /\ NULL \notin Requests

VARIABLES
  req,         \* call -> its arguments, NULL before it is made
  at,          \* call -> where it is
  left,        \* call -> size or bytes_left, what is still to be moved
  moved,       \* call -> pairs moved
  padded,      \* call -> bytes beyond its data that write_mmio has zeroed
  broken,      \* call -> a transfer or register access failed under it
  ret,         \* call -> what it returned, NULL before
  reports,     \* call -> <<handler, status>> of each report of its op
  copyBuffer,  \* mmd_copy_buffer: the source offset of each byte, or NULL
  queue,       \* direction -> calls that wait in the mmd_dma object
  handler,     \* status handlers of the Device and of its mmd_dma objects
  registered   \* the host has registered a handler since open or program

callVars == <<req, at, left, moved, padded, broken, ret, reports>>
vars == <<callVars, copyBuffer, queue, handler, registered>>

-----------------------------------------------------------------------------
Done(c) == req[c].len - left[c]       \* what the call has moved so far

Pairs(src, dst, n) == {<<src + k, dst + k>> : k \in 0 .. n - 1}

\* The pairs of a request.
Bytes(r) == Pairs(r.src, r.dst, r.len)

Init ==
  /\ req = [c \in Calls |-> NULL]
  /\ at = [c \in Calls |-> "new"]
  /\ left = [c \in Calls |-> 0]
  /\ moved = [c \in Calls |-> {}]
  /\ padded = [c \in Calls |-> {}]
  /\ broken = [c \in Calls |-> FALSE]
  /\ ret = [c \in Calls |-> NULL]
  /\ reports = [c \in Calls |-> <<>>]
  /\ copyBuffer = [i \in 0 .. MMD_COPY_BUFFER_SIZE - 1 |-> NULL]
  /\ queue = [d \in Dirs |-> <<>>]
  /\ handler = [h \in Dirs \cup {"device"} |-> NULL]
  /\ registered = FALSE

Running(c) == at[c] \notin {"new", "queued", "returned"}
Quiet == \A c \in Calls : at[c] \in {"new", "returned"}

-----------------------------------------------------------------------------
(***************************************************************************)
(* Handlers.                                                               *)
(***************************************************************************)
\* Mutant: the FPGA-to-host object is forgotten.
SetStatusHandlerH2FOnly(h) ==
  /\ handler' = [handler EXCEPT !["device"] = h, !["h2f"] = h]
  /\ registered' = TRUE
  /\ UNCHANGED <<callVars, copyBuffer, queue>>

\* One step: the three pairs of handler and user data are set one after the
\* other and without a lock, and the host registers before it makes calls.
SetStatusHandler(h) ==
  /\ handler' = [x \in Dirs \cup {"device"} |-> h]
  /\ registered' = TRUE
  /\ UNCHANGED <<callVars, copyBuffer, queue>>

\* program_bitstream() makes new mmd_dma objects, which have no handler; that
\* of the Device stays.  The host registers its handlers again before it
\* makes a call with an op.
Program ==
  /\ Quiet
  /\ registered
  /\ handler' = [handler EXCEPT !["h2f"] = NULL, !["f2h"] = NULL]
  /\ registered' = FALSE
  /\ UNCHANGED <<callVars, copyBuffer, queue>>

\* event_update_fn of the Device and of the mmd_dma objects.
Report(c, h, status) ==
  reports' = [reports EXCEPT ![c] = Append(@, <<handler[h], status>>)]

\* The end of a call that reports its op itself.
Return(c, status, reported) ==
  /\ at' = [at EXCEPT ![c] = "returned"]
  /\ ret' = [ret EXCEPT ![c] = status]
  /\ IF req[c].op THEN Report(c, "device", reported) ELSE UNCHANGED reports

-----------------------------------------------------------------------------
(***************************************************************************)
(* The start of a call.                                                    *)
(***************************************************************************)
Dir(r) == IF r.fn = "write" THEN "h2f" ELSE "f2h"

\* device_from_handle() finds nothing: -1, and no report.
StartUnknown(c, r) ==
  /\ ~r.open
  /\ at' = [at EXCEPT ![c] = "returned"]
  /\ ret' = [ret EXCEPT ![c] = -1]
  /\ UNCHANGED queue

\* Memory, with an op: enqueue_dma() leaves the transfer to the work thread.
StartQueued(c, r) ==
  /\ r.open /\ r.iface = "memory" /\ r.fn # "copy" /\ r.op
  /\ queue' = [queue EXCEPT ![Dir(r)] = Append(@, c)]
  /\ at' = [at EXCEPT ![c] = "queued"]
  /\ ret' = [ret EXCEPT ![c] = 0]

\* Memory, without: do_dma() in the calling thread.
StartBlocking(c, r) ==
  /\ r.open /\ r.iface = "memory" /\ r.fn # "copy" /\ ~r.op
  /\ at' = [at EXCEPT ![c] = "dma"]
  /\ UNCHANGED <<queue, ret>>

StartMmio(c, r) ==
  /\ r.open /\ r.iface = "mmio" /\ r.fn # "copy"
  /\ at' = [at EXCEPT ![c] = "mmio"]
  /\ UNCHANGED <<queue, ret>>

StartCopy(c, r) ==
  /\ r.open /\ r.fn = "copy"
  /\ \A b \in Calls : Running(b) => req[b].fn # "copy"
  /\ at' = [at EXCEPT ![c] = IF r.iface = "memory" THEN "copy" ELSE "refused"]
  /\ UNCHANGED <<queue, ret>>

Start(c, r) ==
  /\ at[c] = "new"
  /\ r.op => registered
  /\ req' = [req EXCEPT ![c] = r]
  /\ left' = [left EXCEPT ![c] = r.len]
  /\ \/ StartUnknown(c, r)
     \/ StartQueued(c, r)
     \/ StartBlocking(c, r)
     \/ StartMmio(c, r)
     \/ StartCopy(c, r)
  /\ UNCHANGED <<moved, padded, broken, reports, copyBuffer, handler,
                 registered>>

-----------------------------------------------------------------------------
(***************************************************************************)
(* Transfers of the DMA objects.                                           *)
(***************************************************************************)
BlockingDma(c, ok) ==
  /\ at[c] = "dma"
  /\ at' = [at EXCEPT ![c] = "returned"]
  /\ ret' = [ret EXCEPT ![c] = IF ok THEN 0 ELSE -1]
  /\ moved' = [moved EXCEPT ![c] = IF ok THEN Bytes(req[c]) ELSE @]
  /\ broken' = [broken EXCEPT ![c] = ~ok]
  /\ UNCHANGED <<req, left, padded, reports, copyBuffer, queue, handler,
                 registered>>

\* Mutant: the work thread reports only what succeeded.
WorkerSilentFailure(d, ok) ==
  /\ queue[d] # <<>>
  /\ LET c == Head(queue[d]) IN
       /\ queue' = [queue EXCEPT ![d] = Tail(@)]
       /\ at' = [at EXCEPT ![c] = "returned"]
       /\ moved' = [moved EXCEPT ![c] = IF ok THEN Bytes(req[c]) ELSE @]
       /\ broken' = [broken EXCEPT ![c] = ~ok]
       /\ IF ok THEN Report(c, d, 0) ELSE UNCHANGED reports
  /\ UNCHANGED <<req, left, padded, ret, copyBuffer, handler, registered>>

\* The work thread ends its next transfer and reports it.
Worker(d, ok) ==
  /\ queue[d] # <<>>
  /\ LET c == Head(queue[d]) IN
       /\ queue' = [queue EXCEPT ![d] = Tail(@)]
       /\ at' = [at EXCEPT ![c] = "returned"]
       /\ moved' = [moved EXCEPT ![c] = IF ok THEN Bytes(req[c]) ELSE @]
       /\ broken' = [broken EXCEPT ![c] = ~ok]
       /\ Report(c, d, IF ok THEN 0 ELSE -1)
  /\ UNCHANGED <<req, left, padded, ret, copyBuffer, handler, registered>>

-----------------------------------------------------------------------------
(***************************************************************************)
(* Registers: accesses of 8 bytes, then of 4, then a last one of 4 of      *)
(* which read_mmio keeps what is asked for and which write_mmio fills up   *)
(* with zeroes.                                                            *)
(***************************************************************************)
\* Mutant: the last access always counts as a whole one.
AccessWidthWhole(n) == IF n >= 8 THEN 8 ELSE 4

\* How many bytes the next access takes.
AccessWidth(n) == IF n >= 8 THEN 8 ELSE IF n >= 4 THEN 4 ELSE n

\* Mutant: the last access is one of 8 bytes.
PaddingWide(r, done, n) ==
  IF r.fn = "write" /\ n < 4
  THEN {r.dst + done + k : k \in n .. 7}
  ELSE {}

\* The bytes the last access of a write stores beyond the data.
Padding(r, done, n) ==
  IF r.fn = "write" /\ n < 4
  THEN {r.dst + done + k : k \in n .. 3}
  ELSE {}

MmioAccess(c) ==
  /\ at[c] = "mmio"
  /\ left[c] > 0
  /\ LET n == AccessWidth(left[c]) IN
       /\ moved' = [moved EXCEPT ![c] = @ \cup
             Pairs(req[c].src + Done(c), req[c].dst + Done(c), n)]
       /\ padded' = [padded EXCEPT ![c] = @ \cup Padding(req[c], Done(c), n)]
       /\ left' = [left EXCEPT ![c] = @ - n]
  /\ UNCHANGED <<req, at, broken, ret, reports, copyBuffer, queue, handler,
                 registered>>

\* Whatever failed before, read_mmio and write_mmio return at once.
MmioFails(c) ==
  /\ at[c] = "mmio"
  /\ left[c] > 0
  /\ broken' = [broken EXCEPT ![c] = TRUE]
  /\ Return(c, -1, -1)
  /\ UNCHANGED <<req, left, moved, padded, copyBuffer, queue, handler,
                 registered>>

MmioReturn(c) ==
  /\ at[c] = "mmio"
  /\ left[c] = 0
  /\ Return(c, 0, 0)
  /\ UNCHANGED <<req, left, moved, padded, broken, copyBuffer, queue, handler,
                 registered>>

-----------------------------------------------------------------------------
(***************************************************************************)
(* copy_block.                                                             *)
(***************************************************************************)
Chunk(n) == IF n > MMD_COPY_BUFFER_SIZE THEN MMD_COPY_BUFFER_SIZE ELSE n

\* read_block(NULL, ...) into mmd_copy_buffer, from its start.
CopyRead(c) ==
  /\ at[c] = "copy"
  /\ left[c] # 0
  /\ copyBuffer' = [i \in DOMAIN copyBuffer |->
        IF i < Chunk(left[c]) THEN req[c].src + Done(c) + i ELSE copyBuffer[i]]
  /\ at' = [at EXCEPT ![c] = "copy_write"]
  /\ UNCHANGED <<req, left, moved, padded, broken, ret, reports, queue,
                 handler, registered>>

\* Mutant: write_offset is not advanced.
CopyWriteStays(c) ==
  /\ at[c] = "copy_write"
  /\ moved' = [moved EXCEPT ![c] = @ \cup
        {<<copyBuffer[i], req[c].dst + i>> :
            i \in 0 .. Chunk(left[c]) - 1}]
  /\ left' = [left EXCEPT ![c] = @ - Chunk(@)]
  /\ at' = [at EXCEPT ![c] = "copy"]
  /\ UNCHANGED <<req, padded, broken, ret, reports, copyBuffer, queue,
                 handler, registered>>

\* write_block(NULL, ...) from it, and the offsets move on.
CopyWrite(c) ==
  /\ at[c] = "copy_write"
  /\ moved' = [moved EXCEPT ![c] = @ \cup
        {<<copyBuffer[i], req[c].dst + Done(c) + i>> :
            i \in 0 .. Chunk(left[c]) - 1}]
  /\ left' = [left EXCEPT ![c] = @ - Chunk(@)]
  /\ at' = [at EXCEPT ![c] = "copy"]
  /\ UNCHANGED <<req, padded, broken, ret, reports, copyBuffer, queue,
                 handler, registered>>

\* Either half of a chunk fails: the loop is left, and the status is 0.
CopyFails(c) ==
  /\ at[c] \in {"copy", "copy_write"}
  /\ left[c] # 0
  /\ broken' = [broken EXCEPT ![c] = TRUE]
  /\ Return(c, 0, 0)
  /\ UNCHANGED <<req, left, moved, padded, copyBuffer, queue, handler,
                 registered>>

CopyReturn(c) ==
  /\ at[c] = "copy"
  /\ left[c] = 0
  /\ Return(c, 0, 0)
  /\ UNCHANGED <<req, left, moved, padded, broken, copyBuffer, queue, handler,
                 registered>>

\* Any other interface: -1 is returned, and 0 reported.
CopyRefused(c) ==
  /\ at[c] = "refused"
  /\ Return(c, -1, 0)
  /\ UNCHANGED <<req, left, moved, padded, broken, copyBuffer, queue, handler,
                 registered>>

-----------------------------------------------------------------------------
\* The steps of a call that has started.
Step(c) ==
  \/ \E ok \in BOOLEAN : BlockingDma(c, ok)
  \/ MmioAccess(c) \/ MmioFails(c) \/ MmioReturn(c)
  \/ CopyRead(c) \/ CopyWrite(c) \/ CopyFails(c) \/ CopyReturn(c)
  \/ CopyRefused(c)

\* The host makes no further call.
Finished ==
  /\ \A c \in Calls : at[c] = "returned"
  /\ UNCHANGED vars

Next ==
  \/ \E h \in Handlers : SetStatusHandler(h)
  \/ Program
  \/ \E c \in Calls : Step(c) \/ \E r \in Requests : Start(c, r)
  \/ \E d \in Dirs, ok \in BOOLEAN : Worker(d, ok)
  \/ Finished

Spec == Init /\ [][Next]_vars

\* Threads in a call go on, and the work threads serve their queues
\* (EveryTransferEnds of MmdDma).  Nothing makes the host call.
FairSpec ==
  /\ Spec
  /\ \A c \in Calls : WF_vars(Step(c))
  /\ \A d \in Dirs : WF_vars(\E ok \in BOOLEAN : Worker(d, ok))

-----------------------------------------------------------------------------
(***************************************************************************)
(* Properties.                                                             *)
(***************************************************************************)
\* The variables have their types (read_block, write_block, copy_block): in
\* particular size and bytes_left, which are unsigned, never go below 0.
TypeOK ==
  /\ req \in [Calls -> {NULL} \cup Requests]
  /\ at \in [Calls -> {"new", "queued", "dma", "mmio", "copy", "copy_write",
                       "refused", "returned"}]
  /\ left \in [Calls -> Nat]
  /\ moved \in [Calls -> SUBSET (Nat \X Nat)]
  /\ padded \in [Calls -> SUBSET Nat]
  /\ broken \in [Calls -> BOOLEAN]
  /\ ret \in [Calls -> {NULL, 0, -1}]
  /\ reports \in [Calls -> Seq(({NULL} \cup Handlers) \X {0, -1})]
  /\ copyBuffer \in [0 .. MMD_COPY_BUFFER_SIZE - 1 -> {NULL} \cup Nat]
  /\ queue \in [Dirs -> Seq(Calls)]
  /\ handler \in [Dirs \cup {"device"} -> {NULL} \cup Handlers]
  /\ registered \in BOOLEAN

\* The verdict on a call: what was reported, or returned when it has no op.
Outcome(c) == IF reports[c] = <<>> THEN ret[c] ELSE reports[c][1][2]

\* aocl_mmd_write and aocl_mmd_read (mmd.cpp:1214, 1262): a transfer that
\* ends with status 0 has moved every byte to its place and no other.
\* aocl_mmd_copy (mmd.cpp:1308): chunk after chunk, a copy has moved a prefix
\* of its bytes and no other byte, and the whole unless a chunk failed.
Delivers(c) ==
  at[c] = "returned" =>
    IF req[c].fn = "copy"
    THEN /\ moved[c] = Pairs(req[c].src, req[c].dst, Done(c))
         /\ ret[c] = 0 => broken[c] \/ moved[c] = Bytes(req[c])
    ELSE Outcome(c) = 0 => moved[c] = Bytes(req[c])

CallsDeliver == \A c \in Calls : Delivers(c)

\* read_mmio and write_mmio (mmd_device.cpp:1143, 1211): at every moment of a
\* register call the bytes moved are the first Done(c) ones; every access is
\* naturally aligned when the call begins on a multiple of 8; and a write
\* zeroes nothing but what completes the 32-bit register of its last byte.
MmioExact ==
  \A c \in Calls :
    (req[c] # NULL /\ req[c].iface = "mmio" /\ req[c].fn # "copy") =>
      /\ moved[c] = Pairs(req[c].src, req[c].dst, Done(c))
      /\ at[c] = "mmio" /\ left[c] >= 8 => Done(c) % 8 = 0
      /\ at[c] = "mmio" /\ left[c] > 0 => Done(c) % 4 = 0
      /\ padded[c] = {} \/ left[c] = 0
      /\ \A a \in padded[c] :
            /\ a >= req[c].dst + req[c].len
            /\ a - req[c].dst < 4 * ((req[c].len + 3) \div 4)

\* mmd.cpp:1186-1193: a call without an op is never reported (not even the
\* transfers inside a copy), a call with one at most once, to a handler that
\* the host has registered, and it has been by the time the call is over,
\* unless there was no such device.
OneReport ==
  \A c \in Calls :
    /\ Len(reports[c]) <= 1
    /\ \A i \in 1 .. Len(reports[c]) :
         req[c].op /\ reports[c][i][1] \in Handlers
    /\ (at[c] = "returned" /\ req[c].op /\ req[c].open) => reports[c] # <<>>

\* mmd.cpp:1191: the operation of a call that has an op and a device is
\* reported some time.
OpsAnswered ==
  \A c \in Calls :
    (req[c] # NULL /\ req[c].op /\ req[c].open) ~> reports[c] # <<>>

\* mmd.cpp:1160-1161, "status 0 when the operation has completed
\* successfully": an operation that is reported with 0 has moved its bytes.
StatusTellsTruth ==
  \A c \in Calls :
    (reports[c] # <<>> /\ Outcome(c) = 0) => moved[c] = Bytes(req[c])

=============================================================================
