---------------------------- MODULE MmdDmaProofs ----------------------------
(***************************************************************************)
(* Proofs about MmdDma for any set of calls, any sizes, any chunk length   *)
(* and any set of faults.                                                  *)
(***************************************************************************)
EXTENDS MmdDma, TLAPS

-----------------------------------------------------------------------------
(***************************************************************************)
(* The inductive invariant.                                                *)
(***************************************************************************)

\* The threads that are inside do_dma() with the memory of call i pinned.
Holding == {"send", "len", "wait", "finish"}

\* The queue holds the queued calls, each once.
QueueInv ==
  /\ \A k \in 1 .. Len(m_work_queue) : pc[m_work_queue[k]] = "queued"
  /\ \A k, l \in 1 .. Len(m_work_queue) : m_work_queue[k] = m_work_queue[l] => k = l

\* The worker executes one call at a time.
WorkerInv ==
  /\ worker # "busy" => m_item = NULL
  /\ \A i \in Async : pc[i] \in Holding \cup {"start", "report"} => m_item = i

\* What a call has done so far, given where it is.
CallOK(i) ==
  /\ pc[i] \in {"idle", "queued", "start"} => pins[i] = 0 /\ offset[i] = 0
  /\ pc[i] \in Holding => pins[i] = IF UsesDmaBuffer(i) THEN 0 ELSE 1
  /\ pc[i] \in {"report", "done"} /\ pins[i] # 0 => dma_res[i] = -1 /\ ~LastChunk(i)
  /\ pc[i] \in {"idle", "queued", "start", "send", "len", "wait"} => dma_res[i] = 0
  /\ pc[i] \in {"len", "wait"} => dma_len(i) > 0
  /\ pc[i] = "finish" => dma_res[i] = -1

CallInv == \A i \in Calls : CallOK(i)

\* The mutex is held exactly while a thread is between its CSR writes and
\* its completion.
MutexInv ==
  \A i \in Calls : m_dma_op_mutex = i <=> pc[i] \in {"len", "wait"}

\* Until a fault, the controller works for the thread that waits, or not at all.
HwInv ==
  ~stale =>
    /\ Len(hw) <= 1
    /\ done => hw = <<>>
    /\ done \/ hw # <<>> => m_dma_op_mutex # NULL /\ pc[m_dma_op_mutex] = "wait"
    /\ hw # <<>> => /\ hw[1].call = m_dma_op_mutex
                    /\ hw[1].off = offset[m_dma_op_mutex]
                    /\ hw[1].len = ChunkLen(m_dma_op_mutex)
    /\ \A i \in Calls : pc[i] = "len" => csr.call = i /\ csr.off = offset[i]

\* Word w of call i is where the clean-up of do_dma() expects it.
Landed(i, w) ==
  IF UsesDmaBuffer(i) /\ m_mode = "f2h" THEN dma_buffer[w] = i ELSE w \in delivered[i]

\* How far the controller has got in call i.
Reached(i) == IF pc[i] = "wait" /\ done THEN offset[i] + ChunkLen(i) ELSE offset[i]

DataOK(i, w) ==
  /\ pc[i] \in Holding /\ w < Reached(i) => Landed(i, w)
  /\ pc[i] \in Holding /\ UsesDmaBuffer(i) /\ m_mode = "h2f" => dma_buffer[w] = i
  /\ pc[i] \in {"report", "done"} /\ dma_res[i] = 0 => w \in delivered[i]

DataInv == ~stale => \A i \in Calls : \A w \in Words(i) : DataOK(i, w)

OwnWords == \A i \in Calls : delivered[i] \subseteq Words(i)

\* Nobody shares dma_buffer with the worker.
BufferPrivate == \A i \in Blocking : Size[i] = 0 \/ ~UsesDmaBuffer(i)

IInv ==
  /\ TypeOK
  /\ QueueInv
  /\ WorkerInv
  /\ CallInv
  /\ MutexInv
  /\ HwInv
-----------------------------------------------------------------------------
\* The environment variable is a length, or ignored.
LEMMA AlignedMaxLenNat == AlignedMaxLen \in Nat
  BY ParametersAssumption DEF AlignedMaxLen

\* A chunk never runs past the end of its transfer.
LEMMA ChunkFacts ==
  ASSUME TypeOK, NEW i \in Calls
  PROVE  /\ max_dma_len \in Nat
         /\ dma_len(i) \in Nat
         /\ ChunkLen(i) \in Nat
         /\ ChunkLen(i) <= dma_len(i)
         /\ offset[i] + ChunkLen(i) \in Nat
         /\ offset[i] + ChunkLen(i) <= Size[i]
  BY AlignedMaxLenNat, CallsAssumption
  DEF TypeOK, max_dma_len, dma_len, ChunkLen, LastChunk

\* No step breaks the types; the ranges of pins and offset need CallInv.
LEMMA TypeStep == TypeOK /\ QueueInv /\ CallInv /\ [Next]_vars => TypeOK'
<1> SUFFICES ASSUME TypeOK, QueueInv, CallInv, [Next]_vars PROVE TypeOK'
  OBVIOUS
<1> USE CallsAssumption, ChunkFacts DEF TypeOK, queueVars, dataVars, hwVars, callVars
<1>1. ASSUME NEW i \in Async, Push(i) PROVE TypeOK'
  <2>1. m_work_queue' \in Seq(Async)
    BY <1>1 DEF Push
  <2>2. pc' \in [Calls -> {"idle", "queued", "start", "send", "len", "wait",
                           "finish", "report", "done"}]
    BY <1>1 DEF Push
  <2>3. QED
    BY <1>1, <2>1, <2>2 DEF Push
<1>2. ASSUME NEW i \in Async, NotifyOne(i) PROVE TypeOK'
  BY <1>2 DEF NotifyOne, Wakened
<1>3. ASSUME NEW i \in Blocking, BlockingCall(i) PROVE TypeOK'
  BY <1>3 DEF BlockingCall
<1>4. ASSUME NEW i \in Calls, Pin(i) PROVE TypeOK'
  <2>1. pins[i] = 0
    BY <1>4 DEF Pin, CallInv, CallOK
  <2>2. pins' \in [Calls -> {0, 1}]
    BY <1>4, <2>1 DEF Pin
  <2>3. stale' \in BOOLEAN
    BY <1>4 DEF Pin, Fail
  <2>4. dma_res' \in [Calls -> {0, -1}]
    BY <1>4 DEF Pin
  <2>5. pc' \in [Calls -> {"idle", "queued", "start", "send", "len", "wait",
                           "finish", "report", "done"}]
    BY <1>4 DEF Pin
  <2>6. QED
    BY <1>4, <2>2, <2>3, <2>4, <2>5 DEF Pin
<1>5. ASSUME NEW i \in Calls, Stage(i) PROVE TypeOK'
  BY <1>5 DEF Stage
<1>6. ASSUME NEW i \in Calls, WriteAddresses(i) PROVE TypeOK'
  <2>1. csr' \in Addresses
    BY <1>6 DEF WriteAddresses, Fail, Addresses
  <2>2. stale' \in BOOLEAN
    BY <1>6 DEF WriteAddresses, Fail
  <2>3. QED
    BY <1>6, <2>1, <2>2 DEF WriteAddresses
<1>7. ASSUME NEW i \in Calls, WriteLength(i) PROVE TypeOK'
  <2>1. CASE Fail("len") /\ SendFails(i) /\ UNCHANGED hw
    BY <1>7, <2>1 DEF WriteLength, SendFails, Fail
  <2>2. CASE /\ hw' = Append(hw, [call |-> csr.call, off |-> csr.off, len |-> ChunkLen(i)])
             /\ pc' = [pc EXCEPT ![i] = "wait"]
             /\ UNCHANGED <<m_dma_op_mutex, offset, dma_res, stale>>
    <3>1. [call |-> csr.call, off |-> csr.off, len |-> ChunkLen(i)]
            \in Descriptors
      BY DEF Addresses, Descriptors
    <3>2. hw' \in Seq(Descriptors)
      BY <2>2, <3>1
    <3>3. QED
      BY <1>7, <2>2, <3>2 DEF WriteLength
  <2>3. QED
    BY <1>7, <2>1, <2>2 DEF WriteLength
<1>8. ASSUME NEW i \in Calls, Completion(i) PROVE TypeOK'
  BY <1>8 DEF Completion, SendSucceeds
<1>9. ASSUME NEW i \in Calls, PollTimeout(i) PROVE TypeOK'
  BY <1>9 DEF PollTimeout, SendFails, Fail
<1>10. ASSUME NEW i \in Calls, PollError(i) PROVE TypeOK'
  BY <1>10 DEF PollError, SendSucceeds, Fail
<1>11. ASSUME NEW i \in Calls, ReadError(i) PROVE TypeOK'
  BY <1>11 DEF ReadError, SendFails, Fail
<1>12. ASSUME NEW i \in Calls, Finish(i) PROVE TypeOK'
  <2>1. pins[i] = IF UsesDmaBuffer(i) THEN 0 ELSE 1
    BY <1>12 DEF Finish, CallInv, CallOK, Holding
  <2>2. pins' \in [Calls -> {0, 1}]
    BY <1>12, <2>1 DEF Finish, ReleasePin
  <2>3. Words(i) \subseteq MaxWords
    BY DEF MaxWords
  <2>4. delivered' \in [Calls -> SUBSET MaxWords]
    BY <1>12, <2>3 DEF Finish, CopyBack
  <2>5. pc' \in [Calls -> {"idle", "queued", "start", "send", "len", "wait",
                           "finish", "report", "done"}]
    BY <1>12 DEF Finish
  <2>6. QED
    BY <1>12, <2>2, <2>4, <2>5 DEF Finish
<1>13. ASSUME NEW i \in Calls, Report(i) PROVE TypeOK'
  BY <1>13 DEF Report
<1>14. ASSUME WorkerCheck PROVE TypeOK'
  BY <1>14 DEF WorkerCheck
<1>15. ASSUME WorkerScan PROVE TypeOK'
  <2>1. CASE Wait
    BY <1>15, <2>1 DEF WorkerScan, Wait
  <2>2. CASE Take
    <3>1. Head(m_work_queue) \in Async /\ Tail(m_work_queue) \in Seq(Async)
      BY <2>2 DEF Take
    <3>2. QED
      BY <1>15, <2>2, <3>1 DEF WorkerScan, Take
  <2>3. QED
    BY <1>15, <2>1, <2>2 DEF WorkerScan
<1>16. ASSUME WorkerQuit PROVE TypeOK'
  BY <1>16 DEF WorkerQuit
<1>17. ASSUME SpuriousWakeup PROVE TypeOK'
  BY <1>17 DEF SpuriousWakeup
<1>18. ASSUME HwComplete PROVE TypeOK'
  <2>1. /\ hw' \in Seq(Descriptors)
        /\ Head(hw) \in Descriptors
    BY <1>18 DEF HwComplete
  <2>2. Moved(Head(hw)) \subseteq MaxWords
    BY <2>1 DEF Moved, MaxWords, Descriptors
  <2>3. dma_buffer' \in [MaxWords -> Calls \cup {NULL}]
    <3>1. Head(hw).call \in Calls \cup {NULL}
      BY <2>1 DEF Descriptors
    <3>2. CASE UNCHANGED dma_buffer
      BY <3>2
    <3>3. CASE dma_buffer' = [w \in MaxWords |-> IF w \in Moved(Head(hw)) THEN Head(hw).call
                                                 ELSE dma_buffer[w]]
      BY <3>1, <3>3
    <3> QED
      BY <1>18, <3>2, <3>3 DEF HwComplete
  <2>4. delivered' \in [Calls -> SUBSET MaxWords]
    <3>1. CASE UNCHANGED delivered
      BY <3>1
    <3>2. CASE \E good \in SUBSET Moved(Head(hw)) :
                 delivered' = [i \in Calls |-> IF i = Head(hw).call
                                               THEN (delivered[i] \ Moved(Head(hw))) \cup good
                                               ELSE delivered[i]]
      <4>1. ASSUME NEW i \in Calls PROVE delivered'[i] \subseteq MaxWords
        BY <2>2, <3>2
      <4> QED
        BY <3>2, <4>1
    <3>3. QED
      BY <1>18, <3>1, <3>2 DEF HwComplete
  <2>5. QED
    BY <1>18, <2>1, <2>3, <2>4 DEF HwComplete
<1>19. ASSUME Destroy PROVE TypeOK'
  BY <1>19 DEF Destroy
<1>20. ASSUME DestroyNotify PROVE TypeOK'
  BY <1>20 DEF DestroyNotify, Wakened
<1>21. ASSUME DestroyJoin PROVE TypeOK'
  BY <1>21 DEF DestroyJoin
<1>22. CASE UNCHANGED vars
  BY <1>22 DEF vars
<1>23. QED
  BY <1>1, <1>2, <1>3, <1>4, <1>5, <1>6, <1>7, <1>8, <1>9, <1>10, <1>11, <1>12, <1>13, <1>14, <1>15, <1>16, <1>17, <1>18, <1>19, <1>20, <1>21, <1>22 DEF Next, do_dma, Worker, Destructor, Destroyed

\* No step breaks CallInv: pins, offset and result follow the thread.
LEMMA CallStep == TypeOK /\ QueueInv /\ CallInv /\ [Next]_vars => CallInv'
<1> SUFFICES ASSUME TypeOK, QueueInv, CallInv, [Next]_vars, NEW j \in Calls
             PROVE  CallOK(j)'
  BY DEF CallInv
<1>a. /\ pc \in [Calls -> {"idle", "queued", "start", "send", "len", "wait",
                           "finish", "report", "done"}]
      /\ offset \in [Calls -> Nat]
      /\ dma_res \in [Calls -> {0, -1}]
      /\ pins \in [Calls -> {0, 1}]
      /\ CallOK(j)
      /\ Size[j] \in Nat
      /\ AlignedMaxLen \in Nat
  BY CallsAssumption, AlignedMaxLenNat DEF TypeOK, CallInv
<1> USE <1>a DEF CallOK, Holding, UsesDmaBuffer, dma_len, LastChunk, max_dma_len,
                 queueVars, dataVars, hwVars, callVars
<1>1. ASSUME NEW i \in Async, Push(i) PROVE CallOK(j)'
  BY <1>1 DEF Push
<1>2. ASSUME NEW i \in Async, NotifyOne(i) PROVE CallOK(j)'
  BY <1>2 DEF NotifyOne, Wakened
<1>3. ASSUME NEW i \in Blocking, BlockingCall(i) PROVE CallOK(j)'
  BY <1>3 DEF BlockingCall
<1>4. ASSUME NEW i \in Calls, Pin(i) PROVE CallOK(j)'
  BY <1>4 DEF Pin, Fail
<1>5. ASSUME NEW i \in Calls, Stage(i) PROVE CallOK(j)'
  BY <1>5 DEF Stage
<1>6. ASSUME NEW i \in Calls, WriteAddresses(i) PROVE CallOK(j)'
  BY <1>6 DEF WriteAddresses, OpMutexFree, Fail
<1>7. ASSUME NEW i \in Calls, WriteLength(i) PROVE CallOK(j)'
  BY <1>7 DEF WriteLength, SendFails, Fail
<1>8. ASSUME NEW i \in Calls, Completion(i) PROVE CallOK(j)'
  BY <1>8 DEF Completion, SendSucceeds
<1>9. ASSUME NEW i \in Calls, PollTimeout(i) PROVE CallOK(j)'
  BY <1>9 DEF PollTimeout, SendFails, Fail
<1>10. ASSUME NEW i \in Calls, PollError(i) PROVE CallOK(j)'
  BY <1>10 DEF PollError, SendSucceeds, Fail
<1>11. ASSUME NEW i \in Calls, ReadError(i) PROVE CallOK(j)'
  BY <1>11 DEF ReadError, SendFails, Fail
<1>12. ASSUME NEW i \in Calls, Finish(i) PROVE CallOK(j)'
  BY <1>12 DEF Finish, CopyBack, ReleasePin
<1>13. ASSUME NEW i \in Calls, Report(i) PROVE CallOK(j)'
  BY <1>13 DEF Report
<1>14. ASSUME WorkerCheck PROVE CallOK(j)'
  BY <1>14 DEF WorkerCheck
<1>15. ASSUME WorkerScan PROVE CallOK(j)'
  <2>1. CASE Wait
    BY <1>15, <2>1 DEF WorkerScan, Wait
  <2>2. CASE Take
    <3>1. pc[Head(m_work_queue)] = "queued"
      BY <2>2 DEF Take, QueueInv, TypeOK
    <3>2. QED
      BY <1>15, <2>2, <3>1 DEF WorkerScan, Take
  <2>3. QED
    BY <1>15, <2>1, <2>2 DEF WorkerScan
<1>16. ASSUME WorkerQuit PROVE CallOK(j)'
  BY <1>16 DEF WorkerQuit
<1>17. ASSUME SpuriousWakeup PROVE CallOK(j)'
  BY <1>17 DEF SpuriousWakeup
<1>18. ASSUME HwComplete PROVE CallOK(j)'
  BY <1>18 DEF HwComplete
<1>19. ASSUME Destroy PROVE CallOK(j)'
  BY <1>19 DEF Destroy
<1>20. ASSUME DestroyNotify PROVE CallOK(j)'
  BY <1>20 DEF DestroyNotify, Wakened
<1>21. ASSUME DestroyJoin PROVE CallOK(j)'
  BY <1>21 DEF DestroyJoin
<1>22. CASE UNCHANGED vars
  BY <1>22 DEF vars
<1>23. QED
  BY <1>1, <1>2, <1>3, <1>4, <1>5, <1>6, <1>7, <1>8, <1>9, <1>10, <1>11, <1>12, <1>13, <1>14, <1>15, <1>16, <1>17, <1>18, <1>19, <1>20, <1>21, <1>22 DEF Next, do_dma, Worker, Destructor, Destroyed

\* No step breaks QueueInv: a call is pushed once and leaves when it is taken.
LEMMA QueueStep == TypeOK /\ QueueInv /\ [Next]_vars => QueueInv'
<1> SUFFICES ASSUME TypeOK, QueueInv, [Next]_vars PROVE QueueInv'
  OBVIOUS
<1>a. /\ m_work_queue \in Seq(Async)
      /\ pc \in [Calls -> {"idle", "queued", "start", "send", "len", "wait",
                           "finish", "report", "done"}]
      /\ \A i \in Async : i \in Calls
  BY DEF TypeOK, Calls
<1> USE <1>a DEF QueueInv, queueVars, dataVars, hwVars, callVars
<1>1. ASSUME NEW i \in Async, Push(i) PROVE QueueInv'
  BY <1>1 DEF Push
<1>2. ASSUME NEW i \in Async, NotifyOne(i) PROVE QueueInv'
  BY <1>2 DEF NotifyOne, Wakened
<1>3. ASSUME NEW i \in Blocking, BlockingCall(i) PROVE QueueInv'
  BY <1>3 DEF BlockingCall
<1>4. ASSUME NEW i \in Calls, Pin(i) PROVE QueueInv'
  BY <1>4 DEF Pin, Fail
<1>5. ASSUME NEW i \in Calls, Stage(i) PROVE QueueInv'
  BY <1>5 DEF Stage
<1>6. ASSUME NEW i \in Calls, WriteAddresses(i) PROVE QueueInv'
  BY <1>6 DEF WriteAddresses, OpMutexFree, Fail
<1>7. ASSUME NEW i \in Calls, WriteLength(i) PROVE QueueInv'
  BY <1>7 DEF WriteLength, SendFails, Fail
<1>8. ASSUME NEW i \in Calls, Completion(i) PROVE QueueInv'
  BY <1>8 DEF Completion, SendSucceeds
<1>9. ASSUME NEW i \in Calls, PollTimeout(i) PROVE QueueInv'
  BY <1>9 DEF PollTimeout, SendFails, Fail
<1>10. ASSUME NEW i \in Calls, PollError(i) PROVE QueueInv'
  BY <1>10 DEF PollError, SendSucceeds, Fail
<1>11. ASSUME NEW i \in Calls, ReadError(i) PROVE QueueInv'
  BY <1>11 DEF ReadError, SendFails, Fail
<1>12. ASSUME NEW i \in Calls, Finish(i) PROVE QueueInv'
  BY <1>12 DEF Finish, CopyBack, ReleasePin
<1>13. ASSUME NEW i \in Calls, Report(i) PROVE QueueInv'
  BY <1>13 DEF Report
<1>14. ASSUME WorkerCheck PROVE QueueInv'
  BY <1>14 DEF WorkerCheck
<1>15. ASSUME WorkerScan PROVE QueueInv'
  <2>1. CASE Wait
    BY <1>15, <2>1 DEF WorkerScan, Wait
  <2>2. CASE Take
    <3>1. /\ m_work_queue # <<>>
          /\ Head(m_work_queue) = m_work_queue[1]
          /\ Len(m_work_queue') = Len(m_work_queue) - 1
          /\ \A k \in 1 .. Len(m_work_queue') : m_work_queue'[k] = m_work_queue[k + 1]
      BY <2>2 DEF Take
    <3>2. \A k \in 1 .. Len(m_work_queue') : m_work_queue'[k] # Head(m_work_queue)
      BY <3>1
    <3>3. \A k \in 1 .. Len(m_work_queue') : pc'[m_work_queue'[k]] = "queued"
      BY <2>2, <3>1, <3>2 DEF Take
    <3>4. QED
      BY <3>1, <3>3
  <2>3. QED
    BY <1>15, <2>1, <2>2 DEF WorkerScan
<1>16. ASSUME WorkerQuit PROVE QueueInv'
  BY <1>16 DEF WorkerQuit
<1>17. ASSUME SpuriousWakeup PROVE QueueInv'
  BY <1>17 DEF SpuriousWakeup
<1>18. ASSUME HwComplete PROVE QueueInv'
  BY <1>18 DEF HwComplete
<1>19. ASSUME Destroy PROVE QueueInv'
  BY <1>19 DEF Destroy
<1>20. ASSUME DestroyNotify PROVE QueueInv'
  BY <1>20 DEF DestroyNotify, Wakened
<1>21. ASSUME DestroyJoin PROVE QueueInv'
  BY <1>21 DEF DestroyJoin
<1>22. CASE UNCHANGED vars
  BY <1>22 DEF vars
<1>23. QED
  BY <1>1, <1>2, <1>3, <1>4, <1>5, <1>6, <1>7, <1>8, <1>9, <1>10, <1>11, <1>12, <1>13, <1>14, <1>15, <1>16, <1>17, <1>18, <1>19, <1>20, <1>21, <1>22 DEF Next, do_dma, Worker, Destructor, Destroyed

\* No step breaks WorkerInv: the worker takes a call only when it has none.
LEMMA WorkerStep == TypeOK /\ QueueInv /\ WorkerInv /\ [Next]_vars => WorkerInv'
<1> SUFFICES ASSUME TypeOK, QueueInv, WorkerInv, [Next]_vars PROVE WorkerInv'
  OBVIOUS
<1>a. /\ m_work_queue \in Seq(Async)
      /\ pc \in [Calls -> {"idle", "queued", "start", "send", "len", "wait",
                           "finish", "report", "done"}]
      /\ \A i \in Async : i \in Calls /\ i # NULL
      /\ \A i \in Blocking : i \notin Async
  BY CallsAssumption DEF TypeOK, Calls
<1> USE <1>a DEF WorkerInv, Holding, queueVars, dataVars, hwVars, callVars
<1>1. ASSUME NEW i \in Async, Push(i) PROVE WorkerInv'
  BY <1>1 DEF Push
<1>2. ASSUME NEW i \in Async, NotifyOne(i) PROVE WorkerInv'
  BY <1>2 DEF NotifyOne, Wakened
<1>3. ASSUME NEW i \in Blocking, BlockingCall(i) PROVE WorkerInv'
  BY <1>3 DEF BlockingCall
<1>4. ASSUME NEW i \in Calls, Pin(i) PROVE WorkerInv'
  BY <1>4 DEF Pin, Fail
<1>5. ASSUME NEW i \in Calls, Stage(i) PROVE WorkerInv'
  BY <1>5 DEF Stage
<1>6. ASSUME NEW i \in Calls, WriteAddresses(i) PROVE WorkerInv'
  BY <1>6 DEF WriteAddresses, OpMutexFree, Fail
<1>7. ASSUME NEW i \in Calls, WriteLength(i) PROVE WorkerInv'
  BY <1>7 DEF WriteLength, SendFails, Fail
<1>8. ASSUME NEW i \in Calls, Completion(i) PROVE WorkerInv'
  BY <1>8 DEF Completion, SendSucceeds
<1>9. ASSUME NEW i \in Calls, PollTimeout(i) PROVE WorkerInv'
  BY <1>9 DEF PollTimeout, SendFails, Fail
<1>10. ASSUME NEW i \in Calls, PollError(i) PROVE WorkerInv'
  BY <1>10 DEF PollError, SendSucceeds, Fail
<1>11. ASSUME NEW i \in Calls, ReadError(i) PROVE WorkerInv'
  BY <1>11 DEF ReadError, SendFails, Fail
<1>12. ASSUME NEW i \in Calls, Finish(i) PROVE WorkerInv'
  BY <1>12 DEF Finish, CopyBack, ReleasePin
<1>13. ASSUME NEW i \in Calls, Report(i) PROVE WorkerInv'
  BY <1>13 DEF Report
<1>14. ASSUME WorkerCheck PROVE WorkerInv'
  BY <1>14 DEF WorkerCheck
<1>15. ASSUME WorkerScan PROVE WorkerInv'
  BY <1>15 DEF WorkerScan, Wait, Take
<1>16. ASSUME WorkerQuit PROVE WorkerInv'
  BY <1>16 DEF WorkerQuit
<1>17. ASSUME SpuriousWakeup PROVE WorkerInv'
  BY <1>17 DEF SpuriousWakeup
<1>18. ASSUME HwComplete PROVE WorkerInv'
  BY <1>18 DEF HwComplete
<1>19. ASSUME Destroy PROVE WorkerInv'
  BY <1>19 DEF Destroy
<1>20. ASSUME DestroyNotify PROVE WorkerInv'
  BY <1>20 DEF DestroyNotify, Wakened
<1>21. ASSUME DestroyJoin PROVE WorkerInv'
  BY <1>21 DEF DestroyJoin
<1>22. CASE UNCHANGED vars
  BY <1>22 DEF vars
<1>23. QED
  BY <1>1, <1>2, <1>3, <1>4, <1>5, <1>6, <1>7, <1>8, <1>9, <1>10, <1>11, <1>12, <1>13, <1>14, <1>15, <1>16, <1>17, <1>18, <1>19, <1>20, <1>21, <1>22 DEF Next, do_dma, Worker, Destructor, Destroyed

\* No step breaks MutexInv: m_dma_op_mutex is taken and released in pairs.
LEMMA MutexStep == TypeOK /\ QueueInv /\ MutexInv /\ [Next]_vars => MutexInv'
<1> SUFFICES ASSUME TypeOK, QueueInv, MutexInv, [Next]_vars PROVE MutexInv'
  OBVIOUS
<1>a. /\ m_work_queue \in Seq(Async)
      /\ pc \in [Calls -> {"idle", "queued", "start", "send", "len", "wait",
                           "finish", "report", "done"}]
      /\ \A i \in Async : i \in Calls
      /\ NULL \notin Calls
  BY CallsAssumption DEF TypeOK, Calls
<1> USE <1>a DEF MutexInv, queueVars, dataVars, hwVars, callVars
<1>1. ASSUME NEW i \in Async, Push(i) PROVE MutexInv'
  BY <1>1 DEF Push
<1>2. ASSUME NEW i \in Async, NotifyOne(i) PROVE MutexInv'
  BY <1>2 DEF NotifyOne, Wakened
<1>3. ASSUME NEW i \in Blocking, BlockingCall(i) PROVE MutexInv'
  BY <1>3 DEF BlockingCall
<1>4. ASSUME NEW i \in Calls, Pin(i) PROVE MutexInv'
  BY <1>4 DEF Pin, Fail
<1>5. ASSUME NEW i \in Calls, Stage(i) PROVE MutexInv'
  BY <1>5 DEF Stage
<1>6. ASSUME NEW i \in Calls, WriteAddresses(i) PROVE MutexInv'
  BY <1>6 DEF WriteAddresses, OpMutexFree, Fail
<1>7. ASSUME NEW i \in Calls, WriteLength(i) PROVE MutexInv'
  BY <1>7 DEF WriteLength, SendFails, Fail
<1>8. ASSUME NEW i \in Calls, Completion(i) PROVE MutexInv'
  BY <1>8 DEF Completion, SendSucceeds
<1>9. ASSUME NEW i \in Calls, PollTimeout(i) PROVE MutexInv'
  BY <1>9 DEF PollTimeout, SendFails, Fail
<1>10. ASSUME NEW i \in Calls, PollError(i) PROVE MutexInv'
  BY <1>10 DEF PollError, SendSucceeds, Fail
<1>11. ASSUME NEW i \in Calls, ReadError(i) PROVE MutexInv'
  BY <1>11 DEF ReadError, SendFails, Fail
<1>12. ASSUME NEW i \in Calls, Finish(i) PROVE MutexInv'
  BY <1>12 DEF Finish, CopyBack, ReleasePin
<1>13. ASSUME NEW i \in Calls, Report(i) PROVE MutexInv'
  BY <1>13 DEF Report
<1>14. ASSUME WorkerCheck PROVE MutexInv'
  BY <1>14 DEF WorkerCheck
<1>15. ASSUME WorkerScan PROVE MutexInv'
  BY <1>15 DEF WorkerScan, Wait, Take, QueueInv
<1>16. ASSUME WorkerQuit PROVE MutexInv'
  BY <1>16 DEF WorkerQuit
<1>17. ASSUME SpuriousWakeup PROVE MutexInv'
  BY <1>17 DEF SpuriousWakeup
<1>18. ASSUME HwComplete PROVE MutexInv'
  BY <1>18 DEF HwComplete
<1>19. ASSUME Destroy PROVE MutexInv'
  BY <1>19 DEF Destroy
<1>20. ASSUME DestroyNotify PROVE MutexInv'
  BY <1>20 DEF DestroyNotify, Wakened
<1>21. ASSUME DestroyJoin PROVE MutexInv'
  BY <1>21 DEF DestroyJoin
<1>22. CASE UNCHANGED vars
  BY <1>22 DEF vars
<1>23. QED
  BY <1>1, <1>2, <1>3, <1>4, <1>5, <1>6, <1>7, <1>8, <1>9, <1>10, <1>11, <1>12, <1>13, <1>14, <1>15, <1>16, <1>17, <1>18, <1>19, <1>20, <1>21, <1>22 DEF Next, do_dma, Worker, Destructor, Destroyed

\* No step breaks HwInv: while no fault has happened, a descriptor is sent
\* only to an idle controller, and a completion is consumed before the next.
LEMMA HwStep ==
  TypeOK /\ QueueInv /\ CallInv /\ MutexInv /\ HwInv /\ [Next]_vars => HwInv'
<1> SUFFICES ASSUME TypeOK, QueueInv, CallInv, MutexInv, HwInv, [Next]_vars, ~stale'
             PROVE  HwInv'
  BY DEF HwInv
<1>a. /\ pc \in [Calls -> {"idle", "queued", "start", "send", "len", "wait",
                           "finish", "report", "done"}]
      /\ offset \in [Calls -> Nat]
      /\ m_dma_op_mutex \in Calls \cup {NULL}
      /\ hw \in Seq(Descriptors)
      /\ done \in BOOLEAN
      /\ stale \in BOOLEAN
      /\ m_work_queue \in Seq(Async)
      /\ Async \subseteq Calls
      /\ NULL \notin Calls
  BY CallsAssumption DEF TypeOK, Calls
<1> USE <1>a DEF HwInv, MutexInv, dma_len, LastChunk, ChunkLen, max_dma_len,
                 queueVars, dataVars, hwVars, callVars
<1>1. ASSUME NEW i \in Async, Push(i) PROVE HwInv'
  BY <1>1 DEF Push
<1>2. ASSUME NEW i \in Async, NotifyOne(i) PROVE HwInv'
  BY <1>2 DEF NotifyOne, Wakened
<1>3. ASSUME NEW i \in Blocking, BlockingCall(i) PROVE HwInv'
  BY <1>3 DEF BlockingCall
<1>4. ASSUME NEW i \in Calls, Pin(i) PROVE HwInv'
  BY <1>4 DEF Pin, Fail
<1>5. ASSUME NEW i \in Calls, Stage(i) PROVE HwInv'
  BY <1>5 DEF Stage
<1>6. ASSUME NEW i \in Calls, WriteAddresses(i) PROVE HwInv'
  <2>1. ~stale /\ csr' = [call |-> i, off |-> offset[i]]
    <3>1. ~Fail("addr")
      BY DEF Fail, StaleFaults
    <3>2. QED
      BY <1>6, <3>1 DEF WriteAddresses
  <2>2. hw = <<>> /\ ~done /\ \A j \in Calls : pc[j] # "len"
    BY <1>6, <2>1 DEF WriteAddresses, OpMutexFree
  <2>3. \A j \in Calls : pc'[j] = "len" => j = i
    BY <1>6, <2>2 DEF WriteAddresses
  <2>4. UNCHANGED <<hw, done, offset>>
    BY <1>6 DEF WriteAddresses
  <2>5. QED
    BY <2>1, <2>2, <2>3, <2>4
<1>7. ASSUME NEW i \in Calls, WriteLength(i) PROVE HwInv'
  BY <1>7 DEF WriteLength, SendFails, Fail
<1>8. ASSUME NEW i \in Calls, Completion(i) PROVE HwInv'
  BY <1>8 DEF Completion, SendSucceeds
<1>9. ASSUME NEW i \in Calls, PollTimeout(i) PROVE HwInv'
  BY <1>9 DEF PollTimeout, SendFails, Fail, StaleFaults
<1>10. ASSUME NEW i \in Calls, PollError(i) PROVE HwInv'
  BY <1>10 DEF PollError, SendSucceeds, Fail, StaleFaults
<1>11. ASSUME NEW i \in Calls, ReadError(i) PROVE HwInv'
  BY <1>11 DEF ReadError, SendFails, Fail, StaleFaults
<1>12. ASSUME NEW i \in Calls, Finish(i) PROVE HwInv'
  BY <1>12 DEF Finish, CopyBack, ReleasePin
<1>13. ASSUME NEW i \in Calls, Report(i) PROVE HwInv'
  BY <1>13 DEF Report
<1>14. ASSUME WorkerCheck PROVE HwInv'
  BY <1>14 DEF WorkerCheck
<1>15. ASSUME WorkerScan PROVE HwInv'
  BY <1>15 DEF WorkerScan, Wait, Take, QueueInv
<1>16. ASSUME WorkerQuit PROVE HwInv'
  BY <1>16 DEF WorkerQuit
<1>17. ASSUME SpuriousWakeup PROVE HwInv'
  BY <1>17 DEF SpuriousWakeup
<1>18. ASSUME HwComplete PROVE HwInv'
  BY <1>18 DEF HwComplete
<1>19. ASSUME Destroy PROVE HwInv'
  BY <1>19 DEF Destroy
<1>20. ASSUME DestroyNotify PROVE HwInv'
  BY <1>20 DEF DestroyNotify, Wakened
<1>21. ASSUME DestroyJoin PROVE HwInv'
  BY <1>21 DEF DestroyJoin
<1>22. CASE UNCHANGED vars
  BY <1>22 DEF vars
<1>23. QED
  BY <1>1, <1>2, <1>3, <1>4, <1>5, <1>6, <1>7, <1>8, <1>9, <1>10, <1>11, <1>12, <1>13, <1>14, <1>15, <1>16, <1>17, <1>18, <1>19, <1>20, <1>21, <1>22 DEF Next, do_dma, Worker, Destructor, Destroyed

-----------------------------------------------------------------------------
(***************************************************************************)
(* IInv is inductive: it holds initially and every step preserves it.      *)
(***************************************************************************)
THEOREM Invariance == Spec => []IInv
<1>1. Init => IInv
  <2> SUFFICES ASSUME Init PROVE IInv
    OBVIOUS
  <2>1. TypeOK
    <3>1. /\ m_work_queue \in Seq(Async)
          /\ hw \in Seq(Descriptors)
          /\ csr \in Addresses
      BY DEF Init, Addresses
    <3>2. /\ offset \in [Calls -> Nat]
          /\ \A i \in Calls : offset[i] <= Size[i]
          /\ dma_res \in [Calls -> {0, -1}]
          /\ pins \in [Calls -> {0, 1}]
      BY CallsAssumption DEF Init
    <3>3. /\ pc \in [Calls -> {"idle", "queued", "start", "send", "len", "wait",
                               "finish", "report", "done"}]
          /\ dma_buffer \in [MaxWords -> Calls \cup {NULL}]
          /\ delivered \in [Calls -> SUBSET MaxWords]
      BY DEF Init
    <3>4. QED
      BY <3>1, <3>2, <3>3 DEF Init, TypeOK
  <2>2. QueueInv /\ WorkerInv /\ MutexInv
    BY CallsAssumption DEF Init, QueueInv, WorkerInv, MutexInv, Holding, Calls
  <2>3. CallInv
    BY DEF Init, CallInv, CallOK, Holding
  <2>4. HwInv
    BY DEF Init, HwInv
  <2>5. QED
    BY <2>1, <2>2, <2>3, <2>4 DEF IInv
<1>2. IInv /\ [Next]_vars => IInv'
  BY TypeStep, QueueStep, WorkerStep, CallStep, MutexStep, HwStep DEF IInv
<1>3. QED
  BY <1>1, <1>2, PTL DEF Spec

(***************************************************************************)
(* Every state is well typed: no pin is taken or released twice, and no    *)
(* chunk runs past its transfer.                                           *)
(***************************************************************************)
THEOREM TypeCorrect == Spec => []TypeOK
<1>1. IInv => TypeOK
  BY DEF IInv
<1>2. QED
  BY <1>1, Invariance, PTL

(***************************************************************************)
(* Whatever the threads do, a completion is seen by the thread whose       *)
(* descriptor it is for.                                                   *)
(***************************************************************************)
THEOREM CompletionsCorrect == Spec => []CompletionBelongsToWaiter
<1>1. IInv => CompletionBelongsToWaiter
  BY DEF IInv, HwInv, CompletionBelongsToWaiter, TypeOK
<1>2. QED
  BY <1>1, Invariance, PTL

(***************************************************************************)
(* The controller never reads or writes host memory that has been          *)
(* unpinned.                                                               *)
(***************************************************************************)
THEOREM PinningCorrect == Spec => []PinnedWhileInFlight
<1>1. IInv => PinnedWhileInFlight
  <2> SUFFICES ASSUME IInv, ~stale, NEW k \in 1 .. Len(hw)
               PROVE  UsesDmaBuffer(hw[k].call) \/ pins[hw[k].call] = 1
    BY DEF PinnedWhileInFlight
  <2>1. hw \in Seq(Descriptors) /\ Len(hw) <= 1
    BY DEF IInv, TypeOK, HwInv
  <2>2. k = 1 /\ hw # <<>>
    BY <2>1
  <2>3. /\ hw[1].call = m_dma_op_mutex
        /\ m_dma_op_mutex \in Calls
        /\ pc[m_dma_op_mutex] = "wait"
    BY <2>2 DEF IInv, HwInv, TypeOK
  <2>4. QED
    BY <2>2, <2>3 DEF IInv, CallInv, CallOK, Holding
<1>2. QED
  BY <1>1, Invariance, PTL

(***************************************************************************)
(* A finished call holds no pin, except after the early return of the      *)
(* chunk loop.                                                             *)
(***************************************************************************)
THEOREM PinsCorrect == Spec => []PinsReleased
<1>1. IInv => PinsReleased
  BY DEF IInv, CallInv, CallOK, PinsReleased
<1>2. QED
  BY <1>1, Invariance, PTL

-----------------------------------------------------------------------------
(***************************************************************************)
(* The data.  These lemmas need more than IInv: that nobody shares         *)
(* dma_buffer with the worker.                                             *)
(***************************************************************************)
\* A transfer only ever delivers words of its own.
LEMMA OwnWordsStep == TypeOK /\ OwnWords /\ [Next]_vars => OwnWords'
<1> SUFFICES ASSUME TypeOK, OwnWords, [Next]_vars PROVE OwnWords'
  OBVIOUS
<1> USE DEF OwnWords, Words, queueVars, dataVars, hwVars, callVars
<1>a. delivered \in [Calls -> SUBSET MaxWords]
  BY DEF TypeOK
<1>1. ASSUME NEW i \in Async, Push(i) PROVE OwnWords'
  BY <1>1 DEF Push
<1>2. ASSUME NEW i \in Async, NotifyOne(i) PROVE OwnWords'
  BY <1>2 DEF NotifyOne, Wakened
<1>3. ASSUME NEW i \in Blocking, BlockingCall(i) PROVE OwnWords'
  BY <1>3 DEF BlockingCall
<1>4. ASSUME NEW i \in Calls, Pin(i) PROVE OwnWords'
  BY <1>4 DEF Pin, Fail
<1>5. ASSUME NEW i \in Calls, Stage(i) PROVE OwnWords'
  BY <1>5 DEF Stage
<1>6. ASSUME NEW i \in Calls, WriteAddresses(i) PROVE OwnWords'
  BY <1>6 DEF WriteAddresses, OpMutexFree, Fail
<1>7. ASSUME NEW i \in Calls, WriteLength(i) PROVE OwnWords'
  BY <1>7 DEF WriteLength, SendFails, Fail
<1>8. ASSUME NEW i \in Calls, Completion(i) PROVE OwnWords'
  BY <1>8 DEF Completion, SendSucceeds
<1>9. ASSUME NEW i \in Calls, PollTimeout(i) PROVE OwnWords'
  BY <1>9 DEF PollTimeout, SendFails, Fail
<1>10. ASSUME NEW i \in Calls, PollError(i) PROVE OwnWords'
  BY <1>10 DEF PollError, SendSucceeds, Fail
<1>11. ASSUME NEW i \in Calls, ReadError(i) PROVE OwnWords'
  BY <1>11 DEF ReadError, SendFails, Fail
<1>12. ASSUME NEW i \in Calls, Finish(i) PROVE OwnWords'
  BY <1>12, <1>a DEF Finish, CopyBack, ReleasePin
<1>13. ASSUME NEW i \in Calls, Report(i) PROVE OwnWords'
  BY <1>13 DEF Report
<1>14. ASSUME WorkerCheck PROVE OwnWords'
  BY <1>14 DEF WorkerCheck
<1>15. ASSUME WorkerScan PROVE OwnWords'
  BY <1>15 DEF WorkerScan, Wait, Take
<1>16. ASSUME WorkerQuit PROVE OwnWords'
  BY <1>16 DEF WorkerQuit
<1>17. ASSUME SpuriousWakeup PROVE OwnWords'
  BY <1>17 DEF SpuriousWakeup
<1>18. ASSUME HwComplete PROVE OwnWords'
  BY <1>18, <1>a DEF HwComplete, Moved
<1>19. ASSUME Destroy PROVE OwnWords'
  BY <1>19 DEF Destroy
<1>20. ASSUME DestroyNotify PROVE OwnWords'
  BY <1>20 DEF DestroyNotify, Wakened
<1>21. ASSUME DestroyJoin PROVE OwnWords'
  BY <1>21 DEF DestroyJoin
<1>22. CASE UNCHANGED vars
  BY <1>22 DEF vars
<1>23. QED
  BY <1>1, <1>2, <1>3, <1>4, <1>5, <1>6, <1>7, <1>8, <1>9, <1>10, <1>11, <1>12, <1>13, <1>14, <1>15, <1>16, <1>17, <1>18, <1>19, <1>20, <1>21, <1>22 DEF Next, do_dma, Worker, Destructor, Destroyed

\* No step breaks DataInv: each chunk adds its words to those already landed,
\* and nobody overwrites the words of another call in dma_buffer.
LEMMA DataStep ==
  ASSUME BufferPrivate
  PROVE  IInv /\ DataInv /\ [Next]_vars => DataInv'
<1> SUFFICES ASSUME IInv, DataInv, [Next]_vars, ~stale',
                    NEW j \in Calls, NEW w \in Words(j)
             PROVE  DataOK(j, w)'
  BY DEF DataInv, Words
<1>a. /\ pc \in [Calls -> {"idle", "queued", "start", "send", "len", "wait",
                           "finish", "report", "done"}]
      /\ offset \in [Calls -> Nat]
      /\ dma_res \in [Calls -> {0, -1}]
      /\ stale \in BOOLEAN
      /\ done \in BOOLEAN
      /\ m_mode \in Modes
      /\ Size[j] \in Nat
      /\ AlignedMaxLen \in Nat
      /\ w \in Int /\ 0 <= w /\ w < Size[j]
      /\ w \in MaxWords
      /\ dma_buffer \in [MaxWords -> Calls \cup {NULL}]
      /\ delivered \in [Calls -> SUBSET MaxWords]
      /\ Async \subseteq Calls /\ Blocking \subseteq Calls
      /\ CallOK(j)
  BY CallsAssumption, AlignedMaxLenNat DEF IInv, CallInv, TypeOK, Words, MaxWords, Calls
<1>b. ~stale => DataOK(j, w)
  BY DEF DataInv
\* Two calls that are in do_dma() with words in the buffer are one call.
<1>c. ASSUME NEW i \in Calls, pc[i] \in Holding \cup {"start"}, Words(i) # {}, UsesDmaBuffer(i),
             pc[j] \in Holding, UsesDmaBuffer(j)
      PROVE  i = j
  <2>1. i \in Async /\ j \in Async
    BY <1>a, <1>c, CallsAssumption DEF BufferPrivate, Words, Calls
  <2>2. QED
    BY <1>c, <2>1 DEF IInv, WorkerInv
<1> USE <1>a, <1>b DEF DataOK, Holding, Landed, Reached, dma_len, LastChunk, ChunkLen,
                 max_dma_len, queueVars, dataVars, hwVars, callVars
<1>1. ASSUME NEW i \in Async, Push(i) PROVE DataOK(j, w)'
  BY <1>1 DEF Push
<1>2. ASSUME NEW i \in Async, NotifyOne(i) PROVE DataOK(j, w)'
  BY <1>2 DEF NotifyOne, Wakened
<1>3. ASSUME NEW i \in Blocking, BlockingCall(i) PROVE DataOK(j, w)'
  BY <1>3 DEF BlockingCall
<1>4. ASSUME NEW i \in Calls, Pin(i) PROVE DataOK(j, w)'
  BY <1>4 DEF Pin, Fail, CallOK
<1>5. ASSUME NEW i \in Calls, Stage(i) PROVE DataOK(j, w)'
  BY <1>5, <1>c DEF Stage, CallOK
<1>6. ASSUME NEW i \in Calls, WriteAddresses(i) PROVE DataOK(j, w)'
  BY <1>6 DEF WriteAddresses, OpMutexFree, Fail, StaleFaults
<1>7. ASSUME NEW i \in Calls, WriteLength(i) PROVE DataOK(j, w)'
  <2>1. pc[i] = "len" /\ UNCHANGED <<m_mode, done, dma_buffer, delivered>>
    BY <1>7 DEF WriteLength
  <2>2. ~stale
    BY <1>7 DEF WriteLength, Fail
  <2>3. ~done
    BY <2>1, <2>2 DEF IInv, HwInv, MutexInv
  <2>4. CASE Fail("len") /\ SendFails(i) /\ UNCHANGED hw
    BY <2>1, <2>2, <2>3, <2>4 DEF SendFails
  <2>5. CASE pc' = [pc EXCEPT ![i] = "wait"] /\ UNCHANGED <<offset, dma_res>>
    BY <2>1, <2>2, <2>3, <2>5
  <2>6. QED
    BY <1>7, <2>4, <2>5 DEF WriteLength
<1>8. ASSUME NEW i \in Calls, Completion(i) PROVE DataOK(j, w)'
  BY <1>8 DEF Completion, SendSucceeds
<1>9. ASSUME NEW i \in Calls, PollTimeout(i) PROVE DataOK(j, w)'
  BY <1>9 DEF PollTimeout, SendFails, Fail, StaleFaults
<1>10. ASSUME NEW i \in Calls, PollError(i) PROVE DataOK(j, w)'
  BY <1>10 DEF PollError, SendSucceeds, Fail, StaleFaults
<1>11. ASSUME NEW i \in Calls, ReadError(i) PROVE DataOK(j, w)'
  BY <1>11 DEF ReadError, SendFails, Fail, StaleFaults
<1>12. ASSUME NEW i \in Calls, Finish(i) PROVE DataOK(j, w)'
  <2>1. ~stale /\ pc' = [pc EXCEPT ![i] = "report"]
        /\ UNCHANGED <<m_mode, done, dma_buffer, offset, dma_res>>
    BY <1>12 DEF Finish
  <2>2. CASE j # i
    <3>1. delivered'[j] = delivered[j]
      BY <1>12, <2>2 DEF Finish, CopyBack
    <3>2. QED
      BY <2>1, <2>2, <3>1
  <2>3. CASE j = i /\ dma_res[j] = 0
    <3>1. pc[j] = "send" /\ offset[j] = Size[j]
      BY <1>12, <2>3 DEF Finish, CallOK
    <3>2. Landed(j, w)
      BY <2>1, <3>1
    <3>3. w \in delivered'[j]
      BY <1>12, <2>3, <3>2 DEF Finish, CopyBack, Modes
    <3>4. QED
      BY <2>1, <2>3, <3>3
  <2>4. CASE j = i /\ dma_res[j] # 0
    BY <2>1, <2>4
  <2>5. QED
    BY <2>2, <2>3, <2>4
<1>13. ASSUME NEW i \in Calls, Report(i) PROVE DataOK(j, w)'
  BY <1>13 DEF Report
<1>14. ASSUME WorkerCheck PROVE DataOK(j, w)'
  BY <1>14 DEF WorkerCheck
<1>15. ASSUME WorkerScan PROVE DataOK(j, w)'
  BY <1>15 DEF WorkerScan, Wait, Take
<1>16. ASSUME WorkerQuit PROVE DataOK(j, w)'
  BY <1>16 DEF WorkerQuit
<1>17. ASSUME SpuriousWakeup PROVE DataOK(j, w)'
  BY <1>17 DEF SpuriousWakeup
<1>18. ASSUME HwComplete PROVE DataOK(j, w)'
  <2> DEFINE d      == Head(hw)
             staged == Moved(d) # {} /\ UsesDmaBuffer(d.call)
  <2>1. ~stale /\ hw # <<>> /\ UNCHANGED <<m_mode, pc, offset, dma_res>> /\ done' = TRUE
    BY <1>18 DEF HwComplete
  <2>2. /\ d.call \in Calls
        /\ d.call = m_dma_op_mutex
        /\ pc[d.call] = "wait"
        /\ d.off = offset[d.call]
        /\ d.len = ChunkLen(d.call)
        /\ ~done
    <3>1. hw \in Seq(Descriptors) /\ d = hw[1]
      BY <2>1 DEF IInv, TypeOK
    <3>2. m_dma_op_mutex \in Calls
      BY <2>1 DEF IInv, TypeOK, HwInv
    <3>3. QED
      BY <2>1, <3>1, <3>2 DEF IInv, HwInv
  <2>3. Moved(d) = (d.off .. d.off + d.len - 1) \cap Words(d.call)
    BY <2>2, CallsAssumption DEF Moved
  <2>4. CASE j = d.call
    <3>1. ChunkLen(j) \in Nat /\ offset[j] + ChunkLen(j) \in Nat
      BY ChunkFacts DEF IInv
    <3>2. Reached(j)' = offset[j] + ChunkLen(j) /\ Reached(j) = offset[j]
      BY <2>1, <2>2, <2>4
    <3>3. w \in Moved(d) <=> offset[j] <= w /\ w < offset[j] + ChunkLen(j)
      BY <2>2, <2>3, <2>4, <3>1 DEF Words
    <3>4. CASE m_mode = "f2h" /\ UsesDmaBuffer(j)
      <4>1. w \in Moved(d) => dma_buffer'[w] = j
        BY <1>18, <2>4, <3>4 DEF HwComplete
      <4>2. w \notin Moved(d) => dma_buffer'[w] = dma_buffer[w]
        BY <1>18, <2>4, <3>4 DEF HwComplete
      <4>3. QED
        BY <2>1, <2>2, <2>4, <3>2, <3>3, <3>4, <4>1, <4>2
    <3>5. CASE ~(m_mode = "f2h" /\ UsesDmaBuffer(j))
      <4>1. UNCHANGED dma_buffer
        BY <1>18, <2>4, <3>5 DEF HwComplete
      <4>2. w \notin Moved(d) /\ w \in delivered[j] => w \in delivered'[j]
        BY <1>18, <2>4, <3>5 DEF HwComplete
      <4>3. UsesDmaBuffer(j) => dma_buffer[w] = j
        BY <2>1, <2>2, <2>4, <3>5 DEF Modes
      <4>4. w \in Moved(d) => w \in delivered'[j]
        BY <1>18, <2>4, <3>5, <4>3 DEF HwComplete
      <4>5. QED
        BY <2>1, <2>2, <2>4, <3>2, <3>3, <3>5, <4>1, <4>2, <4>3, <4>4
    <3>6. QED
      BY <3>4, <3>5
  <2>5. CASE j # d.call
    <3>1. pc[j] # "wait"
      BY <2>2, <2>5 DEF IInv, MutexInv
    <3>2. delivered'[j] = delivered[j]
      BY <1>18, <2>5 DEF HwComplete
    <3>3. pc[j] \in Holding /\ UsesDmaBuffer(j) => dma_buffer'[w] = dma_buffer[w]
      <4>1. CASE staged
        <5>1. Words(d.call) # {} /\ UsesDmaBuffer(d.call)
          BY <2>3, <4>1
        <5>2. QED
          BY <1>c, <2>2, <2>5, <5>1
      <4>2. CASE ~staged
        BY <1>18, <4>2 DEF HwComplete
      <4>3. QED
        BY <4>1, <4>2
    <3>4. QED
      BY <2>1, <3>1, <3>2, <3>3
  <2>6. QED
    BY <2>4, <2>5
<1>19. ASSUME Destroy PROVE DataOK(j, w)'
  BY <1>19 DEF Destroy
<1>20. ASSUME DestroyNotify PROVE DataOK(j, w)'
  BY <1>20 DEF DestroyNotify, Wakened
<1>21. ASSUME DestroyJoin PROVE DataOK(j, w)'
  BY <1>21 DEF DestroyJoin
<1>22. CASE UNCHANGED vars
  BY <1>22 DEF vars
<1>23. QED
  BY <1>1, <1>2, <1>3, <1>4, <1>5, <1>6, <1>7, <1>8, <1>9, <1>10, <1>11, <1>12, <1>13, <1>14, <1>15, <1>16, <1>17, <1>18, <1>19, <1>20, <1>21, <1>22 DEF Next, do_dma, Worker, Destructor, Destroyed

(***************************************************************************)
(* Status 0 is only reported for a transfer that is complete, as long as   *)
(* the driver does not lose track of the controller and no two threads     *)
(* share dma_buffer.  On hardware Threshold is 0 and BufferPrivate holds.  *)
(***************************************************************************)
THEOREM DeliveryCorrect ==
  ASSUME BufferPrivate
  PROVE  Spec => []SuccessMeansDelivered
<1>1. Init => DataInv /\ OwnWords
  BY DEF Init, DataInv, DataOK, OwnWords, Holding
<1>2. IInv /\ DataInv /\ OwnWords /\ [Next]_vars => (DataInv /\ OwnWords)'
  BY DataStep, OwnWordsStep DEF IInv
<1>3. DataInv /\ OwnWords => SuccessMeansDelivered
  BY DEF DataInv, DataOK, OwnWords, SuccessMeansDelivered
<1>4. QED
  BY <1>1, <1>2, <1>3, Invariance, PTL DEF Spec

\* With Threshold = 0 only empty transfers are staged.
LEMMA HardwareBufferPrivate == Threshold = 0 => BufferPrivate
  BY CallsAssumption DEF BufferPrivate, UsesDmaBuffer, Calls

(***************************************************************************)
(* The hardware build, where dma_copy_threshold is 0: status 0 means the   *)
(* transfer is complete, with no condition on the calls.                   *)
(***************************************************************************)
THEOREM HardwareDeliveryCorrect ==
  ASSUME Threshold = 0
  PROVE  Spec => []SuccessMeansDelivered
  BY DeliveryCorrect, HardwareBufferPrivate

-----------------------------------------------------------------------------
(***************************************************************************)
(* The promise to the runtime: what the parts of TransferService are here. *)
(***************************************************************************)
Inside == Holding \cup {"start", "report"}

Accepted == (IF m_item = NULL THEN <<>> ELSE <<m_item>>) \o m_work_queue
Running  == {i \in Blocking : pc[i] \notin {"idle", "done"}}
InPlace  == {i \in Calls : delivered[i] = Words(i)}
Outcomes == [i \in Calls |-> Outcome(i)]

\* The worker's call has begun and has not ended.
ItemInv == m_item # NULL => m_item \in Async /\ pc[m_item] \in Inside

\* What is read into dma_buffer reaches the caller in one go.
StagedInv ==
  \A i \in Calls :
    m_mode = "f2h" /\ UsesDmaBuffer(i) /\ pc[i] \notin {"report", "done"} => delivered[i] = {}

ServiceInv == IInv /\ DataInv /\ OwnWords /\ ItemInv /\ StagedInv

LEMMA AcceptedFacts ==
  ASSUME NEW q \in Seq(Async), NEW m \in Async
  PROVE  /\ <<>> \o q = q
         /\ <<m>> \o q \in Seq(Async) /\ <<m>> \o q # <<>>
         /\ Head(<<m>> \o q) = m /\ Tail(<<m>> \o q) = q
         /\ Len(<<m>> \o q) = Len(q) + 1
         /\ (<<m>> \o q)[1] = m
         /\ \A k \in 2 .. Len(q) + 1 : (<<m>> \o q)[k] = q[k - 1]
<1>1. <<>> \o q = q
  OBVIOUS
<1>2. /\ <<m>> \o q \in Seq(Async) /\ Len(<<m>> \o q) = Len(q) + 1
      /\ (<<m>> \o q)[1] = m
      /\ \A k \in 2 .. Len(q) + 1 : (<<m>> \o q)[k] = q[k - 1]
  OBVIOUS
<1>3. <<m>> \o q # <<>> /\ Head(<<m>> \o q) = m
  BY <1>2
<1>4. Tail(<<m>> \o q) = q
  BY <1>2
<1> QED BY <1>1, <1>2, <1>3, <1>4

LEMMA AcceptedGrows ==
  ASSUME NEW q \in Seq(Async), NEW m \in Async, NEW i \in Async
  PROVE  <<m>> \o Append(q, i) = Append(<<m>> \o q, i)
OBVIOUS

LEMMA QueueParts ==
  ASSUME NEW q \in Seq(Async), q # <<>>
  PROVE  <<Head(q)>> \o Tail(q) = q
OBVIOUS

\* The worker executes a call from its start to its report.
LEMMA ItemStep == TypeOK /\ ItemInv /\ [Next]_vars => ItemInv'
<1> SUFFICES ASSUME TypeOK, ItemInv, [Next]_vars PROVE ItemInv'
  OBVIOUS
<1>a. /\ m_work_queue \in Seq(Async)
      /\ pc \in [Calls -> {"idle", "queued", "start", "send", "len", "wait",
                           "finish", "report", "done"}]
      /\ \A i \in Async : i \in Calls
      /\ \A i \in Blocking : i \notin Async
  BY CallsAssumption DEF TypeOK, Calls
<1> USE <1>a DEF ItemInv, Inside, Holding, queueVars, dataVars, hwVars, callVars
<1>1. ASSUME NEW i \in Async, Push(i) PROVE ItemInv'
  BY <1>1 DEF Push
<1>2. ASSUME NEW i \in Async, NotifyOne(i) PROVE ItemInv'
  BY <1>2 DEF NotifyOne, Wakened
<1>3. ASSUME NEW i \in Blocking, BlockingCall(i) PROVE ItemInv'
  BY <1>3 DEF BlockingCall
<1>4. ASSUME NEW i \in Calls, Pin(i) PROVE ItemInv'
  BY <1>4 DEF Pin, Fail
<1>5. ASSUME NEW i \in Calls, Stage(i) PROVE ItemInv'
  BY <1>5 DEF Stage
<1>6. ASSUME NEW i \in Calls, WriteAddresses(i) PROVE ItemInv'
  BY <1>6 DEF WriteAddresses, OpMutexFree, Fail
<1>7. ASSUME NEW i \in Calls, WriteLength(i) PROVE ItemInv'
  BY <1>7 DEF WriteLength, SendFails, Fail
<1>8. ASSUME NEW i \in Calls, Completion(i) PROVE ItemInv'
  BY <1>8 DEF Completion, SendSucceeds
<1>9. ASSUME NEW i \in Calls, PollTimeout(i) PROVE ItemInv'
  BY <1>9 DEF PollTimeout, SendFails, Fail
<1>10. ASSUME NEW i \in Calls, PollError(i) PROVE ItemInv'
  BY <1>10 DEF PollError, SendSucceeds, Fail
<1>11. ASSUME NEW i \in Calls, ReadError(i) PROVE ItemInv'
  BY <1>11 DEF ReadError, SendFails, Fail
<1>12. ASSUME NEW i \in Calls, Finish(i) PROVE ItemInv'
  BY <1>12 DEF Finish, CopyBack, ReleasePin
<1>13. ASSUME NEW i \in Calls, Report(i) PROVE ItemInv'
  BY <1>13 DEF Report
<1>14. ASSUME WorkerCheck PROVE ItemInv'
  BY <1>14 DEF WorkerCheck
<1>15. ASSUME WorkerScan PROVE ItemInv'
  <2>1. CASE Wait
    BY <1>15, <2>1 DEF WorkerScan, Wait
  <2>2. CASE Take
    <3>1. Head(m_work_queue) \in Async
      BY <2>2 DEF Take
    <3>2. m_item' = Head(m_work_queue) /\ pc'[m_item'] = "start"
      BY <2>2, <3>1 DEF Take
    <3> QED BY <3>1, <3>2
  <2> QED BY <1>15, <2>1, <2>2 DEF WorkerScan
<1>16. ASSUME WorkerQuit PROVE ItemInv'
  BY <1>16 DEF WorkerQuit
<1>17. ASSUME SpuriousWakeup PROVE ItemInv'
  BY <1>17 DEF SpuriousWakeup
<1>18. ASSUME HwComplete PROVE ItemInv'
  BY <1>18 DEF HwComplete
<1>19. ASSUME Destroy PROVE ItemInv'
  BY <1>19 DEF Destroy
<1>20. ASSUME DestroyNotify PROVE ItemInv'
  BY <1>20 DEF DestroyNotify, Wakened
<1>21. ASSUME DestroyJoin PROVE ItemInv'
  BY <1>21 DEF DestroyJoin
<1>22. CASE UNCHANGED vars
  BY <1>22 DEF vars
<1>23. QED
  BY <1>1, <1>2, <1>3, <1>4, <1>5, <1>6, <1>7, <1>8, <1>9, <1>10, <1>11,
     <1>12, <1>13, <1>14, <1>15, <1>16, <1>17, <1>18, <1>19, <1>20, <1>21, <1>22
  DEF Next, do_dma, Worker, Destructor, Destroyed

\* No step puts a part of a staged read in place.
LEMMA StagedStep == TypeOK /\ QueueInv /\ StagedInv /\ [Next]_vars => StagedInv'
<1> SUFFICES ASSUME TypeOK, QueueInv, StagedInv, [Next]_vars PROVE StagedInv'
  OBVIOUS
<1>a. /\ pc \in [Calls -> {"idle", "queued", "start", "send", "len", "wait",
                           "finish", "report", "done"}]
      /\ delivered \in [Calls -> SUBSET MaxWords]
      /\ \A i \in Async : i \in Calls
      /\ \A i \in Blocking : i \in Calls
  BY DEF TypeOK, Calls
<1> USE <1>a DEF StagedInv, UsesDmaBuffer, queueVars, dataVars, hwVars, callVars
<1>1. ASSUME NEW i \in Async, Push(i) PROVE StagedInv'
  BY <1>1 DEF Push
<1>2. ASSUME NEW i \in Async, NotifyOne(i) PROVE StagedInv'
  BY <1>2 DEF NotifyOne, Wakened
<1>3. ASSUME NEW i \in Blocking, BlockingCall(i) PROVE StagedInv'
  BY <1>3 DEF BlockingCall
<1>4. ASSUME NEW i \in Calls, Pin(i) PROVE StagedInv'
  BY <1>4 DEF Pin, Fail
<1>5. ASSUME NEW i \in Calls, Stage(i) PROVE StagedInv'
  BY <1>5 DEF Stage
<1>6. ASSUME NEW i \in Calls, WriteAddresses(i) PROVE StagedInv'
  BY <1>6 DEF WriteAddresses, OpMutexFree, Fail
<1>7. ASSUME NEW i \in Calls, WriteLength(i) PROVE StagedInv'
  BY <1>7 DEF WriteLength, SendFails, Fail
<1>8. ASSUME NEW i \in Calls, Completion(i) PROVE StagedInv'
  BY <1>8 DEF Completion, SendSucceeds
<1>9. ASSUME NEW i \in Calls, PollTimeout(i) PROVE StagedInv'
  BY <1>9 DEF PollTimeout, SendFails, Fail
<1>10. ASSUME NEW i \in Calls, PollError(i) PROVE StagedInv'
  BY <1>10 DEF PollError, SendSucceeds, Fail
<1>11. ASSUME NEW i \in Calls, ReadError(i) PROVE StagedInv'
  BY <1>11 DEF ReadError, SendFails, Fail
<1>12. ASSUME NEW i \in Calls, Finish(i) PROVE StagedInv'
  BY <1>12 DEF Finish, CopyBack, ReleasePin
<1>13. ASSUME NEW i \in Calls, Report(i) PROVE StagedInv'
  BY <1>13 DEF Report
<1>14. ASSUME WorkerCheck PROVE StagedInv'
  BY <1>14 DEF WorkerCheck
<1>15. ASSUME WorkerScan PROVE StagedInv'
  <2>1. CASE Wait
    BY <1>15, <2>1 DEF WorkerScan, Wait
  <2>2. CASE Take
    <3>1. pc[Head(m_work_queue)] = "queued"
      BY <2>2 DEF Take, QueueInv, TypeOK
    <3> QED BY <1>15, <2>2, <3>1 DEF WorkerScan, Take
  <2> QED BY <1>15, <2>1, <2>2 DEF WorkerScan
<1>16. ASSUME WorkerQuit PROVE StagedInv'
  BY <1>16 DEF WorkerQuit
<1>17. ASSUME SpuriousWakeup PROVE StagedInv'
  BY <1>17 DEF SpuriousWakeup
<1>18. ASSUME HwComplete PROVE StagedInv'
  <2>1. PICK d : Head(hw) = d
    OBVIOUS
  <2>2. CASE UNCHANGED delivered
    BY <1>18, <2>2 DEF HwComplete
  <2>3. CASE /\ ~(m_mode = "f2h" /\ Moved(d) # {} /\ UsesDmaBuffer(d.call))
             /\ \E good \in SUBSET Moved(d) :
                  delivered' = [i \in Calls |-> IF i = d.call THEN (delivered[i] \ Moved(d)) \cup good
                                                ELSE delivered[i]]
    BY <1>18, <2>3 DEF HwComplete
  <2> QED BY <1>18, <2>1, <2>2, <2>3 DEF HwComplete
<1>19. ASSUME Destroy PROVE StagedInv'
  BY <1>19 DEF Destroy
<1>20. ASSUME DestroyNotify PROVE StagedInv'
  BY <1>20 DEF DestroyNotify, Wakened
<1>21. ASSUME DestroyJoin PROVE StagedInv'
  BY <1>21 DEF DestroyJoin
<1>22. CASE UNCHANGED vars
  BY <1>22 DEF vars
<1>23. QED
  BY <1>1, <1>2, <1>3, <1>4, <1>5, <1>6, <1>7, <1>8, <1>9, <1>10, <1>11,
     <1>12, <1>13, <1>14, <1>15, <1>16, <1>17, <1>18, <1>19, <1>20, <1>21, <1>22
  DEF Next, do_dma, Worker, Destructor, Destroyed

-----------------------------------------------------------------------------
\* The parts of the promise that a step leaves alone.
LEMMA SameAccepted ==
  ASSUME UNCHANGED <<m_item, m_work_queue>>
  PROVE  Accepted' = Accepted
BY DEF Accepted

LEMMA SameRunning ==
  ASSUME \A i \in Blocking : pc[i] \in {"idle", "done"} <=> pc'[i] \in {"idle", "done"}
  PROVE  Running' = Running
BY DEF Running

LEMMA SameInPlace ==
  ASSUME UNCHANGED delivered
  PROVE  InPlace' = InPlace
BY DEF InPlace

LEMMA SameOutcomes ==
  ASSUME \A i \in Calls : /\ pc[i] = "done" <=> pc'[i] = "done"
                          /\ pc[i] = "done" => dma_res'[i] = dma_res[i]
  PROVE  Outcomes' = Outcomes
<1>1. ASSUME NEW i \in Calls PROVE Outcome(i)' = Outcome(i)
  <2>1. CASE pc[i] # "done"
    <3>1. Outcome(i) = "none" /\ Outcome(i)' = "none"
      BY <2>1 DEF Outcome
    <3> QED BY <3>1
  <2>2. CASE pc[i] = "done"
    BY <2>2 DEF Outcome
  <2> QED BY <2>1, <2>2
<1> QED BY <1>1 DEF Outcomes

LEMMA ServiceVars ==
  ASSUME Accepted' = Accepted, Running' = Running, InPlace' = InPlace, Outcomes' = Outcomes,
         dtor # "none" <=> dtor' # "none", stale <=> stale'
  PROVE  UNCHANGED Service!vars
<1>1. ~stale <=> ~stale'
  OBVIOUS
<1> QED BY <1>1 DEF Service!vars, Accepted, Running, InPlace, Outcomes

\* A step that only makes the driver lose track of the controller.
LEMMA Losing ==
  ASSUME Accepted' = Accepted, Running' = Running, InPlace' = InPlace, Outcomes' = Outcomes,
         dtor # "none" <=> dtor' # "none", stale => stale'
  PROVE  Service!Next \/ UNCHANGED Service!vars
<1>1. CASE stale <=> stale'
  BY <1>1, ServiceVars
<1>2. CASE ~stale /\ stale'
  <2>1. (~stale)' = FALSE
    BY <1>2
  <2>2. Service!Distrust
    BY <2>1 DEF Service!Distrust, Accepted, Running, InPlace, Outcomes
  <2> QED BY <2>2 DEF Service!Next
<1> QED BY <1>1, <1>2

\* Once it has, data may be overwritten.
LEMMA Scrambled ==
  ASSUME Accepted' = Accepted, Running' = Running, Outcomes' = Outcomes, dtor' = dtor,
         stale, stale'
  PROVE  Service!Next
<1>1. ~stale <=> ~stale'
  OBVIOUS
<1>2. InPlace' \in SUBSET Calls
  BY DEF InPlace
<1>3. Service!Scramble
  BY <1>1, <1>2 DEF Service!Scramble, Service!Calls, Calls, Accepted, Running, InPlace, Outcomes
<1> QED BY <1>3 DEF Service!Next

\* Calls inside do_dma() are known to the service, calls that have not begun are not.
LEMMA KnownCalls ==
  ASSUME ServiceInv, NEW i \in Calls
  PROVE  /\ pc[i] = "idle" => Service!Fresh(i)
         /\ pc[i] \in Inside => ~Service!Fresh(i)
<1>1. /\ m_work_queue \in Seq(Async) /\ m_item \in Async \cup {NULL}
      /\ \A k \in 1 .. Len(m_work_queue) : pc[m_work_queue[k]] = "queued"
      /\ m_item # NULL => m_item \in Async /\ pc[m_item] \in Inside
      /\ i \in Async /\ pc[i] \in Inside => m_item = i
      /\ i # NULL /\ (i \in Async \/ i \in Blocking)
  BY CallsAssumption DEF ServiceInv, IInv, TypeOK, QueueInv, WorkerInv, ItemInv, Inside, Calls
<1>2. CASE pc[i] = "idle"
  <2>1. Outcomes[i] = "none" /\ i \notin Running
    <3>1. Outcome(i) = "none"
      BY <1>2 DEF Outcome
    <3> QED BY <1>2, <3>1 DEF Outcomes, Running
  <2>2. ASSUME NEW k \in 1 .. Len(Accepted) PROVE Accepted[k] # i
    <3>1. CASE m_item = NULL
      <4>1. Accepted = m_work_queue
        BY <1>1, <3>1 DEF Accepted
      <4> QED BY <1>1, <1>2, <2>2, <4>1
    <3>2. CASE m_item # NULL
      <4>1. Accepted = <<m_item>> \o m_work_queue /\ m_item \in Async
        BY <1>1, <3>2 DEF Accepted
      <4>2. /\ Len(Accepted) = Len(m_work_queue) + 1 /\ Len(m_work_queue) \in Nat
            /\ Accepted[1] = m_item
            /\ \A l \in 2 .. Len(m_work_queue) + 1 : Accepted[l] = m_work_queue[l - 1]
        BY <1>1, <4>1, AcceptedFacts
      <4>3. CASE k = 1
        BY <1>1, <1>2, <3>2, <4>2, <4>3 DEF Inside, Holding
      <4>4. CASE k # 1
        <5>1. k \in 2 .. Len(m_work_queue) + 1 /\ k - 1 \in 1 .. Len(m_work_queue)
          BY <2>2, <4>2, <4>4
        <5> QED BY <1>1, <1>2, <4>2, <5>1
      <4> QED BY <4>3, <4>4
    <3> QED BY <3>1, <3>2
  <2> QED BY <1>2, <2>1, <2>2 DEF Service!Fresh, Inside, Holding, Accepted, Running, Outcomes
<1>3. CASE pc[i] \in Inside
  <2>1. CASE i \in Async
    <3>1. m_item = i
      BY <1>1, <1>3, <2>1
    <3>2. Accepted = <<i>> \o m_work_queue
      BY <1>1, <3>1 DEF Accepted
    <3>3. 1 \in 1 .. Len(Accepted) /\ Accepted[1] = i
      BY <1>1, <2>1, <3>2, AcceptedFacts
    <3> QED BY <1>3, <3>3 DEF Service!Fresh, Inside, Holding, Accepted
  <2>2. CASE i \in Blocking
    BY <1>3, <2>2 DEF Service!Fresh, Inside, Holding, Running
  <2> QED BY <1>1, <2>1, <2>2
<1> QED BY <1>2, <1>3

\* A step of the thread of call i inside do_dma() that moves no data is not seen.
LEMMA InsideStep ==
  ASSUME TypeOK, NEW i \in Calls, pc[i] \in Inside, NEW x \in Inside,
         pc' = [pc EXCEPT ![i] = x],
         \A j \in Calls : j # i => dma_res'[j] = dma_res[j],
         UNCHANGED <<m_item, m_work_queue, dtor>>
  PROVE  /\ Accepted' = Accepted /\ Running' = Running /\ Outcomes' = Outcomes
         /\ delivered' = delivered /\ (stale => stale') => Service!Next \/ UNCHANGED Service!vars
<1>1. /\ pc'[i] = x /\ pc[i] \notin {"idle", "queued", "done"}
      /\ x \notin {"idle", "queued", "done"}
      /\ \A j \in Calls : j # i => pc'[j] = pc[j]
  BY DEF TypeOK, Inside, Holding
<1>2. Accepted' = Accepted
  BY SameAccepted
<1>3. Running' = Running
  BY <1>1, SameRunning DEF Calls
<1>4. Outcomes' = Outcomes
  BY <1>1, SameOutcomes
<1>5. ASSUME delivered' = delivered, stale => stale'
      PROVE  Service!Next \/ UNCHANGED Service!vars
  BY <1>2, <1>3, <1>4, <1>5, SameInPlace, Losing
<1> QED BY <1>2, <1>3, <1>4, <1>5

LEMMA PushAccepts ==
  ASSUME ServiceInv, NEW i \in Async, Push(i)
  PROVE  Service!Accept(i)
<1>1. i \in Calls /\ i \notin Blocking /\ pc[i] = "idle" /\ dtor = "none"
      /\ m_work_queue \in Seq(Async) /\ m_item \in Async \cup {NULL}
  BY CallsAssumption DEF Push, Calls, ServiceInv, IInv, TypeOK
<1>2. \A j \in Calls : pc'[j] = IF j = i THEN "queued" ELSE pc[j]
  BY DEF Push, ServiceInv, IInv, TypeOK
<1>3. Service!Fresh(i)
  BY <1>1, KnownCalls
<1>4. Accepted' = Append(Accepted, i)
  <2>1. m_item' = m_item /\ m_work_queue' = Append(m_work_queue, i)
    BY DEF Push
  <2>2. CASE m_item = NULL
    <3>1. Accepted = m_work_queue /\ Accepted' = Append(m_work_queue, i)
      BY <1>1, <2>1, <2>2 DEF Accepted
    <3> QED BY <3>1
  <2>3. CASE m_item # NULL
    <3>1. Accepted = <<m_item>> \o m_work_queue
          /\ Accepted' = <<m_item>> \o Append(m_work_queue, i)
      BY <2>1, <2>3 DEF Accepted
    <3>2. <<m_item>> \o Append(m_work_queue, i) = Append(<<m_item>> \o m_work_queue, i)
      BY <1>1, <2>3, AcceptedGrows
    <3> QED BY <3>1, <3>2
  <2> QED BY <2>2, <2>3
<1>5. Running' = Running
  BY <1>1, <1>2, SameRunning DEF Calls
<1>6. Outcomes' = Outcomes
  <2>1. dma_res' = dma_res
    BY DEF Push
  <2> QED BY <1>1, <1>2, <2>1, SameOutcomes
<1>7. InPlace' = InPlace /\ dtor' = dtor /\ stale' = stale
  BY SameInPlace DEF Push, dataVars
<1> QED BY <1>1, <1>3, <1>4, <1>5, <1>6, <1>7
     DEF Service!Accept, Accepted, Running, InPlace, Outcomes

LEMMA BlockingCallEnters ==
  ASSUME ServiceInv, NEW i \in Blocking, BlockingCall(i)
  PROVE  Service!Enter(i)
<1>1. i \in Calls /\ pc[i] = "idle" /\ dtor = "none" /\ dtor' = dtor /\ dma_res' = dma_res
      /\ UNCHANGED <<m_item, m_work_queue, delivered, stale>>
  BY DEF BlockingCall, Calls, queueVars, dataVars
<1>2. \A j \in Calls : pc'[j] = IF j = i THEN "start" ELSE pc[j]
  BY DEF BlockingCall, ServiceInv, IInv, TypeOK
<1>3. Service!Fresh(i)
  BY <1>1, KnownCalls
<1>4. Running' = Running \cup {i}
  BY <1>1, <1>2 DEF Running, Calls
<1>5. Accepted' = Accepted /\ InPlace' = InPlace
  BY <1>1, SameAccepted, SameInPlace
<1>6. Outcomes' = Outcomes
  BY <1>1, <1>2, SameOutcomes
<1> QED BY <1>1, <1>3, <1>4, <1>5, <1>6
     DEF Service!Enter, Accepted, Running, InPlace, Outcomes

LEMMA TakeUnseen ==
  ASSUME ServiceInv, WorkerScan
  PROVE  UNCHANGED Service!vars
<1>1. /\ m_work_queue \in Seq(Async) /\ NULL \notin Async
      /\ UNCHANGED <<delivered, dma_res, dtor, stale>>
      /\ m_item = NULL
  BY CallsAssumption DEF WorkerScan, dataVars, ServiceInv, IInv, TypeOK, WorkerInv, Calls
<1>2. InPlace' = InPlace
  BY <1>1, SameInPlace
<1>3. CASE Wait
  <2>1. UNCHANGED <<m_work_queue, m_item, pc>>
    BY <1>3 DEF Wait
  <2>2. Accepted' = Accepted /\ Running' = Running /\ Outcomes' = Outcomes
    BY <1>1, <2>1, SameAccepted, SameRunning, SameOutcomes
  <2> QED BY <1>1, <1>2, <2>2, ServiceVars
<1>4. CASE Take
  <2>1. PICK i \in Async : /\ Head(m_work_queue) = i /\ m_item' = i
                           /\ m_work_queue # <<>> /\ m_work_queue' = Tail(m_work_queue)
                           /\ pc' = [pc EXCEPT ![i] = "start"]
    <3>1. m_work_queue # <<>> /\ Head(m_work_queue) \in Async
      BY <1>1, <1>4 DEF Take
    <3> QED BY <1>4, <3>1 DEF Take
  <2>2. pc[i] = "queued" /\ i \in Calls /\ i \notin Blocking
    <3>1. 1 \in 1 .. Len(m_work_queue) /\ m_work_queue[1] = i
      BY <1>1, <2>1
    <3> QED BY <3>1, CallsAssumption DEF ServiceInv, IInv, QueueInv, Calls
  <2>3. \A j \in Calls : pc'[j] = IF j = i THEN "start" ELSE pc[j]
    BY <2>1 DEF ServiceInv, IInv, TypeOK
  <2>4. Accepted' = Accepted
    <3>1. Accepted = m_work_queue
      BY <1>1 DEF Accepted
    <3>2. Accepted' = <<i>> \o Tail(m_work_queue)
      BY <1>1, <2>1 DEF Accepted
    <3>3. <<Head(m_work_queue)>> \o Tail(m_work_queue) = m_work_queue
      BY <1>1, <2>1, QueueParts
    <3> QED BY <2>1, <3>1, <3>2, <3>3
  <2>5. Running' = Running
    BY <2>2, <2>3, SameRunning DEF Calls
  <2>6. Outcomes' = Outcomes
    BY <1>1, <2>2, <2>3, SameOutcomes
  <2> QED BY <1>1, <1>2, <2>4, <2>5, <2>6, ServiceVars
<1> QED BY <1>3, <1>4 DEF WorkerScan

\* A call that ends with status 0 has its data in place.
LEMMA ReportVerdict ==
  ASSUME ServiceInv, NEW i \in Calls, Report(i)
  PROVE  \E v \in {"ok", "failed"} : /\ v = "ok" /\ ~stale => i \in InPlace
                                     /\ Outcomes' = [Outcomes EXCEPT ![i] = v]
<1>1. pc[i] = "report" /\ pc' = [pc EXCEPT ![i] = "done"] /\ dma_res' = dma_res
  BY DEF Report
<1>2. \A j \in Calls : pc'[j] = IF j = i THEN "done" ELSE pc[j]
  BY <1>1 DEF ServiceInv, IInv, TypeOK
<1>3. PICK v \in {"ok", "failed"} : v = IF dma_res[i] = 0 THEN "ok" ELSE "failed"
  OBVIOUS
<1>4. v = "ok" /\ ~stale => i \in InPlace
  <2>1. SUFFICES ASSUME dma_res[i] = 0, ~stale PROVE delivered[i] = Words(i)
    BY <1>3 DEF InPlace
  <2>2. Words(i) \subseteq delivered[i]
    BY <1>1, <2>1 DEF ServiceInv, DataInv, DataOK
  <2> QED BY <2>2 DEF ServiceInv, OwnWords
<1>5. Outcomes' = [Outcomes EXCEPT ![i] = v]
  <2>1. ASSUME NEW j \in Calls PROVE Outcome(j)' = IF j = i THEN v ELSE Outcome(j)
    BY <1>1, <1>2, <1>3 DEF Outcome
  <2> QED BY <2>1 DEF Outcomes
<1> QED BY <1>4, <1>5

LEMMA ReportSeen ==
  ASSUME ServiceInv, NEW i \in Calls, Report(i)
  PROVE  Service!Next
<1>1. PICK v \in {"ok", "failed"} : /\ v = "ok" /\ ~stale => i \in InPlace
                                    /\ Outcomes' = [Outcomes EXCEPT ![i] = v]
  BY ReportVerdict
<1>2. /\ pc[i] = "report" /\ i # NULL /\ NULL \notin Async
      /\ \A j \in Calls : pc'[j] = IF j = i THEN "done" ELSE pc[j]
      /\ UNCHANGED <<m_work_queue, delivered, dtor, stale>>
      /\ m_work_queue \in Seq(Async)
  BY CallsAssumption DEF Report, Calls, dataVars, ServiceInv, IInv, TypeOK
<1>3. InPlace' = InPlace
  BY <1>2, SameInPlace
<1>4. CASE i \in Async
  <2>1. m_item = i /\ m_item' = NULL
    BY <1>2, <1>4 DEF Report, ServiceInv, IInv, WorkerInv
  <2>2. Accepted = <<i>> \o m_work_queue /\ Accepted' = <<>> \o m_work_queue
    BY <1>2, <2>1 DEF Accepted
  <2>3. Accepted # <<>> /\ Head(Accepted) = i /\ Accepted' = Tail(Accepted)
    BY <1>2, <1>4, <2>2, AcceptedFacts
  <2>4. Running' = Running
    <3>1. i \notin Blocking
      BY <1>4, CallsAssumption
    <3> QED BY <1>2, <3>1, SameRunning DEF Calls
  <2>5. Service!Verdict(Head(Accepted))
    BY <1>1, <2>3 DEF Service!Verdict, InPlace, Outcomes
  <2>6. Service!Notify
    BY <1>2, <1>3, <2>3, <2>4, <2>5 DEF Service!Notify, Accepted, Running, InPlace
  <2> QED BY <2>6 DEF Service!Next
<1>5. CASE i \in Blocking
  <2>1. i \notin Async
    BY <1>5, CallsAssumption
  <2>2. Accepted' = Accepted
    BY <1>2, <2>1, SameAccepted DEF Report
  <2>3. i \in Running /\ Running' = Running \ {i}
    BY <1>2, <1>5 DEF Running, Calls
  <2>4. Service!Verdict(i)
    BY <1>1 DEF Service!Verdict, InPlace, Outcomes
  <2>5. Service!Return(i)
    BY <1>2, <1>3, <2>2, <2>3, <2>4 DEF Service!Return, Accepted, Running, InPlace
  <2> QED BY <1>5, <2>5 DEF Service!Next
<1> QED BY <1>4, <1>5 DEF Calls

\* Words that reach call i put at most call i in place.
LEMMA Lands ==
  ASSUME ServiceInv, NEW i \in Calls, pc[i] \in Inside,
         Accepted' = Accepted, Running' = Running, Outcomes' = Outcomes, dtor' = dtor, stale' = stale,
         \A j \in Calls : j # i => delivered'[j] = delivered[j],
         delivered[i] = Words(i) => delivered'[i] = Words(i)
  PROVE  Service!Next \/ UNCHANGED Service!vars
<1>1. InPlace' = InPlace \/ InPlace' = InPlace \cup {i}
  BY DEF InPlace, Words
<1>2. CASE InPlace' = InPlace
  BY <1>2, ServiceVars
<1>3. CASE InPlace' = InPlace \cup {i}
  <2>1. Outcomes[i] = "none"
    BY DEF Outcomes, Outcome, Inside, Holding
  <2>2. ~Service!Fresh(i)
    BY KnownCalls
  <2>3. Service!Land(i)
    BY <1>3, <2>1, <2>2 DEF Service!Land, Accepted, Running, InPlace, Outcomes
  <2> QED BY <2>3 DEF Service!Next, Service!Calls, Calls
<1> QED BY <1>1, <1>2, <1>3

LEMMA FinishSeen ==
  ASSUME ServiceInv, NEW i \in Calls, Finish(i)
  PROVE  Service!Next \/ UNCHANGED Service!vars
<1>1. /\ pc[i] \in {"finish", "send"} /\ pc[i] \in Inside
      /\ pc' = [pc EXCEPT ![i] = "report"] /\ dma_res' = dma_res
      /\ UNCHANGED <<m_item, m_work_queue, dtor, m_mode, stale>>
      /\ TypeOK
  BY DEF Finish, Inside, Holding, queueVars, ServiceInv, IInv
<1>2. Accepted' = Accepted /\ Running' = Running /\ Outcomes' = Outcomes
  BY <1>1, InsideStep DEF Inside
<1>3. /\ \A j \in Calls : j # i => delivered'[j] = delivered[j]
      /\ delivered[i] = Words(i) => delivered'[i] = Words(i)
  <2>1. CASE m_mode = "f2h" /\ UsesDmaBuffer(i)
    <3>1. delivered' = [delivered EXCEPT ![i] = {w \in Words(i) : dma_buffer[w] = i}]
      BY <2>1 DEF Finish, CopyBack
    <3>2. delivered[i] = {}
      BY <1>1, <2>1 DEF ServiceInv, StagedInv
    <3>3. delivered \in [Calls -> SUBSET MaxWords]
      BY <1>1 DEF TypeOK
    <3> QED BY <3>1, <3>2, <3>3
  <2>2. CASE ~(m_mode = "f2h" /\ UsesDmaBuffer(i))
    BY <2>2 DEF Finish, CopyBack
  <2> QED BY <2>1, <2>2
<1> QED BY <1>1, <1>2, <1>3, Lands

\* Of a descriptor of the thread that waits.
LEMMA TrackedCompletionSeen ==
  ASSUME ServiceInv, HwComplete, ~stale
  PROVE  Service!Next \/ UNCHANGED Service!vars
<1>0. PICK d : d = Head(hw)
  OBVIOUS
<1>1. PICK i \in Calls : /\ Head(hw) = d /\ d.call = i /\ i # NULL
                         /\ pc[i] = "wait" /\ pc[i] \in Inside
  <2>1. hw # <<>> /\ hw \in Seq(Descriptors) /\ m_dma_op_mutex \in Calls \cup {NULL}
    BY DEF HwComplete, ServiceInv, IInv, TypeOK
  <2>2. Head(hw) = hw[1]
    BY <2>1
  <2>3. m_dma_op_mutex # NULL /\ pc[m_dma_op_mutex] = "wait" /\ hw[1].call = m_dma_op_mutex
    BY <2>1 DEF ServiceInv, IInv, HwInv
  <2> QED BY <1>0, <2>1, <2>2, <2>3 DEF Inside, Holding
<1>2. /\ UNCHANGED <<m_item, m_work_queue, pc, dma_res, dtor, stale>>
      /\ TypeOK
  BY DEF HwComplete, queueVars, callVars, ServiceInv, IInv
<1>3. Accepted' = Accepted /\ Running' = Running /\ Outcomes' = Outcomes
  BY <1>2, SameAccepted, SameRunning, SameOutcomes
<1>4. CASE UNCHANGED delivered
  BY <1>2, <1>3, <1>4, SameInPlace, ServiceVars
<1>5. CASE ~(m_mode = "f2h" /\ Moved(d) # {} /\ UsesDmaBuffer(i))
  <2> DEFINE good == {w \in Moved(d) : Moved(d) # {} /\ UsesDmaBuffer(i) => dma_buffer[w] = i}
  <2>1. delivered' = [j \in Calls |-> IF j = i THEN (delivered[j] \ Moved(d)) \cup good
                                      ELSE delivered[j]]
    BY <1>1, <1>5 DEF HwComplete
  <2>2. Moved(d) \subseteq Words(i)
    BY <1>1 DEF Moved
  <2>3. good = Moved(d)
    <3>1. ASSUME NEW w \in Moved(d), UsesDmaBuffer(i) PROVE dma_buffer[w] = i
      <4>1. m_mode = "h2f" /\ w \in Words(i)
        BY <1>2, <1>5, <2>2, <3>1 DEF TypeOK, Modes
      <4> QED BY <1>1, <3>1, <4>1 DEF ServiceInv, DataInv, DataOK, Holding
    <3> QED BY <2>1, <3>1
  <2>4. \A j \in Calls : j # i => delivered'[j] = delivered[j]
    BY <2>1
  <2>5. delivered[i] = Words(i) => delivered'[i] = Words(i)
    BY <2>1, <2>2, <2>3
  <2> QED BY <1>1, <1>2, <1>3, <2>4, <2>5, Lands
<1> QED BY <1>1, <1>4, <1>5 DEF HwComplete

LEMMA CompletionSeen ==
  ASSUME ServiceInv, HwComplete
  PROVE  Service!Next \/ UNCHANGED Service!vars
<1>1. /\ UNCHANGED <<m_item, m_work_queue, pc, dma_res, dtor, stale>>
      /\ TypeOK
  BY DEF HwComplete, queueVars, callVars, ServiceInv, IInv
<1>2. Accepted' = Accepted /\ Running' = Running /\ Outcomes' = Outcomes
  BY <1>1, SameAccepted, SameRunning, SameOutcomes
<1>3. CASE stale
  BY <1>1, <1>2, <1>3, Scrambled
<1>4. CASE ~stale
  BY <1>4, TrackedCompletionSeen
<1> QED BY <1>3, <1>4

LEMMA DestroySeen ==
  ASSUME ServiceInv, Destroy
  PROVE  Service!Close
<1>1. /\ Running = {} /\ dtor' = "flagged"
      /\ UNCHANGED <<m_item, m_work_queue, pc, dma_res, delivered, stale>>
  BY DEF Destroy, Running, callVars, dataVars
<1>2. Accepted' = Accepted /\ Running' = Running /\ InPlace' = InPlace /\ Outcomes' = Outcomes
  BY <1>1, SameAccepted, SameRunning, SameInPlace, SameOutcomes
<1> QED BY <1>1, <1>2 DEF Service!Close, Accepted, Running, InPlace, Outcomes

-----------------------------------------------------------------------------
\* Steps of the threads inside do_dma().
LEMMA DoDmaSeen ==
  ASSUME ServiceInv, NEW i \in Calls, do_dma(i)
  PROVE  Service!Next \/ UNCHANGED Service!vars
<1>a. TypeOK
  BY DEF ServiceInv, IInv
<1> USE DEF queueVars, dataVars, hwVars, callVars
<1>1. ASSUME pc[i] \in Inside,
             \E x \in Inside : pc' = [pc EXCEPT ![i] = x],
             \A j \in Calls : j # i => dma_res'[j] = dma_res[j],
             UNCHANGED <<m_item, m_work_queue, dtor, delivered>>, stale => stale'
      PROVE  Service!Next \/ UNCHANGED Service!vars
  BY <1>a, <1>1, InsideStep
<1>2. /\ {"start", "send", "len", "wait", "finish", "report"} \subseteq Inside
      /\ dma_res \in [Calls -> {0, -1}]
  BY <1>a DEF Inside, Holding, TypeOK
<1>3. SendSucceeds(i) => /\ \E x \in Inside : pc' = [pc EXCEPT ![i] = x]
                         /\ \A j \in Calls : j # i => dma_res'[j] = dma_res[j]
  BY <1>2 DEF SendSucceeds
<1>4. ASSUME SendFails(i)
      PROVE  /\ \E x \in Inside : pc' = [pc EXCEPT ![i] = x]
             /\ \A j \in Calls : j # i => dma_res'[j] = dma_res[j]
  <2>1. pc' = [pc EXCEPT ![i] = "finish"] \/ pc' = [pc EXCEPT ![i] = "report"]
    BY <1>4 DEF SendFails
  <2> QED BY <1>2, <1>4, <2>1 DEF SendFails
<1>b. \A kind : Fail(kind) => (stale => stale')
  BY DEF Fail
<1>5. CASE Pin(i)
  <2>1. pc' = [pc EXCEPT ![i] = "send"] \/ pc' = [pc EXCEPT ![i] = "report"]
    BY <1>5 DEF Pin
  <2>2. \A j \in Calls : j # i => dma_res'[j] = dma_res[j]
    BY <1>2, <1>5 DEF Pin
  <2>3. pc[i] = "start" /\ UNCHANGED <<m_item, m_work_queue, dtor, delivered>>
    BY <1>5 DEF Pin
  <2>4. stale => stale'
    BY <1>5, <1>b DEF Pin
  <2> QED BY <1>1, <1>2, <2>1, <2>2, <2>3, <2>4
<1>6. CASE Stage(i)
  BY <1>1, <1>2, <1>6 DEF Stage
<1>7. CASE WriteAddresses(i)
  <2>1. /\ pc[i] = "send" /\ pc' = [pc EXCEPT ![i] = "len"]
        /\ UNCHANGED <<m_item, m_work_queue, dtor, delivered, dma_res>>
    BY <1>7 DEF WriteAddresses
  <2>2. stale => stale'
    BY <1>7, <1>b DEF WriteAddresses
  <2> QED BY <1>1, <1>2, <2>1, <2>2
<1>8. CASE WriteLength(i)
  <2>1. pc[i] = "len" /\ UNCHANGED <<m_item, m_work_queue, dtor, delivered>>
    BY <1>8 DEF WriteLength
  <2>0. stale => stale'
    BY <1>8, <1>b DEF WriteLength
  <2>2. CASE SendFails(i)
    BY <1>1, <1>2, <1>4, <2>1, <2>2, <2>0
  <2>3. CASE pc' = [pc EXCEPT ![i] = "wait"] /\ UNCHANGED dma_res
    BY <1>1, <1>2, <2>1, <2>3, <2>0
  <2> QED BY <1>8, <2>2, <2>3 DEF WriteLength
<1>9. CASE Completion(i)
  BY <1>1, <1>2, <1>3, <1>9 DEF Completion
<1>10. CASE PollTimeout(i)
  BY <1>1, <1>2, <1>4, <1>10, <1>b DEF PollTimeout
<1>11. CASE PollError(i)
  BY <1>1, <1>2, <1>3, <1>11, <1>b DEF PollError
<1>12. CASE ReadError(i)
  BY <1>1, <1>2, <1>4, <1>12, <1>b DEF ReadError
<1>13. CASE Finish(i)
  BY <1>13, FinishSeen
<1>14. CASE Report(i)
  BY <1>14, ReportSeen
<1> QED BY <1>5, <1>6, <1>7, <1>8, <1>9, <1>10, <1>11, <1>12, <1>13, <1>14 DEF do_dma

\* Notifications, the moves of the worker that take nothing, and the
\* destructor after its first step are not seen.
LEMMA Unseen ==
  ASSUME UNCHANGED <<m_item, m_work_queue, pc, dma_res, delivered, stale>>,
         dtor # "none" <=> dtor' # "none"
  PROVE  UNCHANGED Service!vars
<1>1. Accepted' = Accepted /\ Running' = Running /\ InPlace' = InPlace /\ Outcomes' = Outcomes
  BY SameAccepted, SameRunning, SameInPlace, SameOutcomes
<1> QED BY <1>1, ServiceVars

\* Every step of the object is a step of the service or is not seen.
LEMMA ServiceStep == ServiceInv /\ [Next]_vars => [Service!Next]_Service!vars
<1> SUFFICES ASSUME ServiceInv, [Next]_vars
             PROVE  Service!Next \/ UNCHANGED Service!vars
  BY DEF Service!vars
<1> USE DEF queueVars, dataVars, hwVars, callVars
<1>1. ASSUME NEW i \in Async, Push(i) PROVE Service!Next
  BY <1>1, PushAccepts DEF Service!Next
<1>2. ASSUME NEW i \in Async, NotifyOne(i) PROVE UNCHANGED Service!vars
  BY <1>2, Unseen DEF NotifyOne
<1>3. ASSUME NEW i \in Blocking, BlockingCall(i) PROVE Service!Next
  BY <1>3, BlockingCallEnters DEF Service!Next
<1>4. ASSUME NEW i \in Calls, do_dma(i) PROVE Service!Next \/ UNCHANGED Service!vars
  BY <1>4, DoDmaSeen
<1>5. CASE WorkerCheck
  BY <1>5, Unseen DEF WorkerCheck
<1>6. CASE WorkerScan
  BY <1>6, TakeUnseen
<1>7. CASE WorkerQuit
  BY <1>7, Unseen DEF WorkerQuit
<1>8. CASE SpuriousWakeup
  BY <1>8, Unseen DEF SpuriousWakeup
<1>9. CASE HwComplete
  BY <1>9, CompletionSeen
<1>10. CASE Destroy
  BY <1>10, DestroySeen DEF Service!Next
<1>11. CASE DestroyNotify
  BY <1>11, Unseen DEF DestroyNotify
<1>12. CASE DestroyJoin
  BY <1>12, Unseen DEF DestroyJoin
<1>13. CASE UNCHANGED vars
  BY <1>13, Unseen DEF vars
<1> QED BY <1>1, <1>2, <1>3, <1>4, <1>5, <1>6, <1>7, <1>8, <1>9, <1>10, <1>11, <1>12, <1>13
        DEF Next, Worker, Destructor, Destroyed

LEMMA ServiceStart ==
  ASSUME Init
  PROVE  DataInv /\ OwnWords /\ ItemInv /\ StagedInv /\ Service!Init
<1>1. DataInv /\ OwnWords
  BY DEF Init, DataInv, DataOK, OwnWords, Holding
<1>2. ItemInv /\ StagedInv /\ ~stale
  BY DEF Init, ItemInv, StagedInv
<1>3. Accepted = <<>>
  BY DEF Init, Accepted
<1>4. Running = {}
  BY DEF Init, Running, Calls
<1>5. InPlace = {i \in Calls : Size[i] = 0}
  <2>1. ASSUME NEW i \in Calls PROVE delivered[i] = Words(i) <=> Size[i] = 0
    <3>1. delivered[i] = {} /\ Size[i] \in Nat
      BY CallsAssumption DEF Init
    <3>2. CASE Size[i] = 0
      BY <3>1, <3>2 DEF Words
    <3>3. CASE Size[i] # 0
      <4>1. 0 \in Words(i)
        BY <3>1, <3>3 DEF Words
      <4> QED BY <3>1, <3>3, <4>1
    <3> QED BY <3>2, <3>3
  <2> QED BY <2>1 DEF InPlace
<1>6. Outcomes = [i \in Calls |-> "none"]
  <2>1. ASSUME NEW i \in Calls PROVE Outcome(i) = "none"
    BY DEF Init, Outcome
  <2> QED BY <2>1 DEF Outcomes
<1>7. dtor = "none" /\ ~stale
  BY DEF Init
<1>8. Service!Init
  BY <1>3, <1>4, <1>5, <1>6, <1>7
     DEF Service!Init, Service!Calls, Calls, Accepted, Running, InPlace, Outcomes
<1> QED BY <1>1, <1>2, <1>8

(***************************************************************************)
(* The object implements the promise made to the runtime, for any calls,   *)
(* sizes and chunk length and whatever the platform calls return: calls    *)
(* are reported once and in order, and status 0 only for a transfer that   *)
(* is all in place as long as the driver has not lost track of the         *)
(* controller, with the worker, blocking callers and the destructor in     *)
(* any interleaving.  The condition is that no two threads share           *)
(* dma_buffer, as in DeliveryCorrect.                                      *)
(***************************************************************************)
THEOREM ServiceImplemented ==
  ASSUME BufferPrivate
  PROVE  Spec => ImplementsService
<1> DEFINE More == DataInv /\ OwnWords /\ ItemInv /\ StagedInv
<1>1. Init => More /\ Service!Init
  BY ServiceStart
<1>2. IInv /\ More /\ [Next]_vars => More'
  BY DataStep, OwnWordsStep, ItemStep, StagedStep DEF IInv
<1>3. IInv /\ More /\ [Next]_vars => [Service!Next]_Service!vars
  BY ServiceStep DEF ServiceInv
<1> QED BY <1>1, <1>2, <1>3, Invariance, PTL DEF Spec, ImplementsService, Service!Spec
-----------------------------------------------------------------------------
(***************************************************************************)
(* No deadlock and no lost wakeup: the part of EveryTransferEnds that is   *)
(* about states.                                                           *)
(***************************************************************************)

\* The thread of call i has no step to take in do_dma().
Blocked(i) ==
  \/ pc[i] \in {"idle", "queued", "done"}
  \/ pc[i] = "send" /\ dma_len(i) # 0 /\ ~OpMutexFree
  \/ pc[i] = "wait" /\ ~done

\* Neither has the worker, nor a caller that owes a notification, nor the
\* controller.
AtRest ==
  /\ worker \in {"waiting", "busy", "exited"}
  /\ notifying = {}
  /\ hw = <<>>
  /\ \A i \in Calls : Blocked(i)

\* A call that was made has ended, or is dropped with its object.
Settled(i) == pc[i] \in {"idle", "done"} \/ (pc[i] = "queued" /\ dtor # "none")

RestMeansSettled == AtRest => \A i \in Calls : Settled(i)

\* The worker that waits for work is told of it, and leaves only when the
\* object is being destroyed.
WakeInv ==
  /\ worker = "waiting" /\ m_work_queue # <<>> => notifying # {}
  /\ worker = "busy" => m_item # NULL
  /\ worker = "exited" => dtor # "none"
  /\ m_work_thread_active <=> dtor = "none"

\* A queued call is in the queue.
QueuedInv ==
  \A i \in Calls : pc[i] = "queued" => \E k \in 1 .. Len(m_work_queue) : m_work_queue[k] = i

\* Who waits for a completion has it, or has asked for it.
WaitInv == \A i \in Calls : pc[i] = "wait" => done \/ hw # <<>>

\* A notification is owed or the worker is awake.
LEMMA WakeStep == TypeOK /\ WakeInv /\ [Next]_vars => WakeInv'
<1> SUFFICES ASSUME TypeOK, WakeInv, [Next]_vars PROVE WakeInv'
  OBVIOUS
<1> USE DEF WakeInv, queueVars, hwVars, callVars
<1>1. ASSUME NEW i \in Async, Push(i) PROVE WakeInv'
  <2>1. worker' = worker /\ m_item' = m_item /\ dtor' = dtor
        /\ m_work_thread_active' = m_work_thread_active /\ notifying' # {}
    BY <1>1 DEF Push
  <2> QED BY <2>1
<1>2. ASSUME NEW i \in Async, NotifyOne(i) PROVE WakeInv'
  BY <1>2 DEF NotifyOne, Wakened
<1>3. ASSUME NEW i \in Blocking, BlockingCall(i) PROVE WakeInv'
  BY <1>3 DEF BlockingCall
<1>4. ASSUME NEW i \in Calls, Pin(i) PROVE WakeInv'
  BY <1>4 DEF Pin
<1>5. ASSUME NEW i \in Calls, Stage(i) PROVE WakeInv'
  BY <1>5 DEF Stage
<1>6. ASSUME NEW i \in Calls, WriteAddresses(i) PROVE WakeInv'
  BY <1>6 DEF WriteAddresses, OpMutexFree
<1>7. ASSUME NEW i \in Calls, WriteLength(i) PROVE WakeInv'
  BY <1>7 DEF WriteLength, SendFails
<1>8. ASSUME NEW i \in Calls, Completion(i) PROVE WakeInv'
  BY <1>8 DEF Completion, SendSucceeds
<1>9. ASSUME NEW i \in Calls, PollTimeout(i) PROVE WakeInv'
  BY <1>9 DEF PollTimeout, SendFails
<1>10. ASSUME NEW i \in Calls, PollError(i) PROVE WakeInv'
  BY <1>10 DEF PollError, SendSucceeds
<1>11. ASSUME NEW i \in Calls, ReadError(i) PROVE WakeInv'
  BY <1>11 DEF ReadError, SendFails
<1>12. ASSUME NEW i \in Calls, Finish(i) PROVE WakeInv'
  BY <1>12 DEF Finish
<1>13. ASSUME NEW i \in Calls, Report(i) PROVE WakeInv'
  BY <1>13 DEF Report
<1>14. ASSUME WorkerCheck PROVE WakeInv'
  BY <1>14 DEF WorkerCheck
<1>15. ASSUME WorkerScan PROVE WakeInv'
  <2>1. CASE Wait
    BY <1>15, <2>1 DEF WorkerScan, Wait
  <2>2. CASE Take
    <3>1. Head(m_work_queue) # NULL
      BY <2>2, CallsAssumption DEF Take, TypeOK, Calls
    <3> QED BY <1>15, <2>2, <3>1 DEF WorkerScan, Take
  <2> QED BY <1>15, <2>1, <2>2 DEF WorkerScan
<1>16. ASSUME WorkerQuit PROVE WakeInv'
  BY <1>16 DEF WorkerQuit
<1>17. ASSUME SpuriousWakeup PROVE WakeInv'
  BY <1>17 DEF SpuriousWakeup
<1>18. ASSUME HwComplete PROVE WakeInv'
  BY <1>18 DEF HwComplete
<1>19. ASSUME Destroy PROVE WakeInv'
  BY <1>19 DEF Destroy
<1>20. ASSUME DestroyNotify PROVE WakeInv'
  BY <1>20 DEF DestroyNotify, Wakened
<1>21. ASSUME DestroyJoin PROVE WakeInv'
  BY <1>21 DEF DestroyJoin
<1>22. CASE UNCHANGED vars
  BY <1>22 DEF vars
<1>23. QED
  BY <1>1, <1>2, <1>3, <1>4, <1>5, <1>6, <1>7, <1>8, <1>9, <1>10, <1>11,
     <1>12, <1>13, <1>14, <1>15, <1>16, <1>17, <1>18, <1>19, <1>20, <1>21, <1>22
  DEF Next, do_dma, Worker, Destructor, Destroyed

\* A call leaves the queue when the worker takes it, and not otherwise.
LEMMA QueuedStep == TypeOK /\ QueuedInv /\ [Next]_vars => QueuedInv'
<1> SUFFICES ASSUME TypeOK, QueuedInv, [Next]_vars PROVE QueuedInv'
  OBVIOUS
<1>a. /\ pc \in [Calls -> {"idle", "queued", "start", "send", "len", "wait",
                           "finish", "report", "done"}]
      /\ \A i \in Async : i \in Calls
      /\ \A i \in Blocking : i \in Calls
  BY DEF TypeOK, Calls
<1> USE <1>a DEF QueuedInv, queueVars, hwVars, callVars
<1>1. ASSUME NEW i \in Async, Push(i) PROVE QueuedInv'
  <2>1. /\ m_work_queue \in Seq(Async)
        /\ m_work_queue' = Append(m_work_queue, i)
        /\ pc' = [pc EXCEPT ![i] = "queued"]
    BY <1>1 DEF Push, TypeOK
  <2>2. /\ Len(m_work_queue') = Len(m_work_queue) + 1
        /\ m_work_queue'[Len(m_work_queue) + 1] = i
        /\ \A k \in 1 .. Len(m_work_queue) : m_work_queue'[k] = m_work_queue[k]
        /\ Len(m_work_queue) \in Nat
    BY <2>1
  <2>3. SUFFICES ASSUME NEW j \in Calls, pc'[j] = "queued"
                 PROVE  \E k \in 1 .. Len(m_work_queue') : m_work_queue'[k] = j
    OBVIOUS
  <2>4. CASE j = i
    BY <2>2, <2>4
  <2>5. CASE j # i
    <3>1. PICK k \in 1 .. Len(m_work_queue) : m_work_queue[k] = j
      BY <2>1, <2>3, <2>5
    <3> QED BY <2>2, <3>1
  <2> QED BY <2>4, <2>5
<1>2. ASSUME NEW i \in Async, NotifyOne(i) PROVE QueuedInv'
  BY <1>2 DEF NotifyOne, Wakened
<1>3. ASSUME NEW i \in Blocking, BlockingCall(i) PROVE QueuedInv'
  BY <1>3 DEF BlockingCall
<1>4. ASSUME NEW i \in Calls, Pin(i) PROVE QueuedInv'
  BY <1>4 DEF Pin
<1>5. ASSUME NEW i \in Calls, Stage(i) PROVE QueuedInv'
  BY <1>5 DEF Stage
<1>6. ASSUME NEW i \in Calls, WriteAddresses(i) PROVE QueuedInv'
  BY <1>6 DEF WriteAddresses, OpMutexFree
<1>7. ASSUME NEW i \in Calls, WriteLength(i) PROVE QueuedInv'
  BY <1>7 DEF WriteLength, SendFails
<1>8. ASSUME NEW i \in Calls, Completion(i) PROVE QueuedInv'
  BY <1>8 DEF Completion, SendSucceeds
<1>9. ASSUME NEW i \in Calls, PollTimeout(i) PROVE QueuedInv'
  BY <1>9 DEF PollTimeout, SendFails
<1>10. ASSUME NEW i \in Calls, PollError(i) PROVE QueuedInv'
  BY <1>10 DEF PollError, SendSucceeds
<1>11. ASSUME NEW i \in Calls, ReadError(i) PROVE QueuedInv'
  BY <1>11 DEF ReadError, SendFails
<1>12. ASSUME NEW i \in Calls, Finish(i) PROVE QueuedInv'
  BY <1>12 DEF Finish
<1>13. ASSUME NEW i \in Calls, Report(i) PROVE QueuedInv'
  BY <1>13 DEF Report
<1>14. ASSUME WorkerCheck PROVE QueuedInv'
  BY <1>14 DEF WorkerCheck
<1>15. ASSUME WorkerScan PROVE QueuedInv'
  <2>1. CASE Wait
    BY <1>15, <2>1 DEF WorkerScan, Wait
  <2>2. CASE Take
    <3>1. /\ m_work_queue \in Seq(Async) /\ m_work_queue # <<>>
          /\ m_work_queue' = Tail(m_work_queue)
          /\ pc' = [pc EXCEPT ![Head(m_work_queue)] = "start"]
      BY <2>2 DEF Take, TypeOK
    <3>2. /\ Len(m_work_queue) \in Nat
          /\ Len(m_work_queue') = Len(m_work_queue) - 1
          /\ Head(m_work_queue) = m_work_queue[1]
          /\ \A k \in 1 .. Len(m_work_queue) - 1 : m_work_queue'[k] = m_work_queue[k + 1]
      BY <3>1
    <3>3. SUFFICES ASSUME NEW j \in Calls, pc'[j] = "queued"
                   PROVE  \E k \in 1 .. Len(m_work_queue') : m_work_queue'[k] = j
      OBVIOUS
    <3>4. j # m_work_queue[1] /\ pc[j] = "queued"
      BY <3>1, <3>2, <3>3
    <3>5. PICK k \in 1 .. Len(m_work_queue) : m_work_queue[k] = j
      BY <3>4
    <3>6. /\ k - 1 \in 1 .. Len(m_work_queue')
          /\ m_work_queue'[k - 1] = j
      BY <3>2, <3>4, <3>5
    <3> QED BY <3>6
  <2> QED BY <1>15, <2>1, <2>2 DEF WorkerScan
<1>16. ASSUME WorkerQuit PROVE QueuedInv'
  BY <1>16 DEF WorkerQuit
<1>17. ASSUME SpuriousWakeup PROVE QueuedInv'
  BY <1>17 DEF SpuriousWakeup
<1>18. ASSUME HwComplete PROVE QueuedInv'
  BY <1>18 DEF HwComplete
<1>19. ASSUME Destroy PROVE QueuedInv'
  BY <1>19 DEF Destroy
<1>20. ASSUME DestroyNotify PROVE QueuedInv'
  BY <1>20 DEF DestroyNotify, Wakened
<1>21. ASSUME DestroyJoin PROVE QueuedInv'
  BY <1>21 DEF DestroyJoin
<1>22. CASE UNCHANGED vars
  BY <1>22 DEF vars
<1>23. QED
  BY <1>1, <1>2, <1>3, <1>4, <1>5, <1>6, <1>7, <1>8, <1>9, <1>10, <1>11,
     <1>12, <1>13, <1>14, <1>15, <1>16, <1>17, <1>18, <1>19, <1>20, <1>21, <1>22
  DEF Next, do_dma, Worker, Destructor, Destroyed

\* A completion that is taken is the waiter's own.
LEMMA WaitStep == TypeOK /\ QueueInv /\ MutexInv /\ WaitInv /\ [Next]_vars => WaitInv'
<1> SUFFICES ASSUME TypeOK, QueueInv, MutexInv, WaitInv, [Next]_vars PROVE WaitInv'
  OBVIOUS
<1>a. /\ pc \in [Calls -> {"idle", "queued", "start", "send", "len", "wait",
                           "finish", "report", "done"}]
      /\ \A i \in Async : i \in Calls
      /\ \A i \in Blocking : i \in Calls
  BY DEF TypeOK, Calls
<1> USE <1>a DEF WaitInv, queueVars, hwVars, callVars
<1>1. ASSUME NEW i \in Async, Push(i) PROVE WaitInv'
  BY <1>1 DEF Push
<1>2. ASSUME NEW i \in Async, NotifyOne(i) PROVE WaitInv'
  BY <1>2 DEF NotifyOne, Wakened
<1>3. ASSUME NEW i \in Blocking, BlockingCall(i) PROVE WaitInv'
  BY <1>3 DEF BlockingCall
<1>4. ASSUME NEW i \in Calls, Pin(i) PROVE WaitInv'
  BY <1>4 DEF Pin
<1>5. ASSUME NEW i \in Calls, Stage(i) PROVE WaitInv'
  BY <1>5 DEF Stage
<1>6. ASSUME NEW i \in Calls, WriteAddresses(i) PROVE WaitInv'
  BY <1>6 DEF WriteAddresses, OpMutexFree
<1>7. ASSUME NEW i \in Calls, WriteLength(i) PROVE WaitInv'
  <2>1. CASE Fail("len") /\ SendFails(i) /\ UNCHANGED hw
    BY <1>7, <2>1 DEF WriteLength, SendFails
  <2>2. CASE hw' = Append(hw, [call |-> csr.call, off |-> csr.off, len |-> ChunkLen(i)])
    <3>1. [call |-> csr.call, off |-> csr.off, len |-> ChunkLen(i)] \in Descriptors
      BY ChunkFacts DEF TypeOK, Addresses, Descriptors
    <3>2. hw \in Seq(Descriptors)
      BY DEF TypeOK
    <3>3. Len(hw') = Len(hw) + 1 /\ Len(hw) \in Nat
      BY <2>2, <3>1, <3>2
    <3> QED BY <3>3
  <2> QED BY <1>7, <2>1, <2>2 DEF WriteLength
<1>8. ASSUME NEW i \in Calls, Completion(i) PROVE WaitInv'
  <2>1. \A j \in Calls : pc[j] = "wait" => j = i
    BY <1>8 DEF Completion, MutexInv
  <2> QED BY <1>8, <2>1 DEF Completion, SendSucceeds
<1>9. ASSUME NEW i \in Calls, PollTimeout(i) PROVE WaitInv'
  BY <1>9 DEF PollTimeout, SendFails
<1>10. ASSUME NEW i \in Calls, PollError(i) PROVE WaitInv'
  BY <1>10 DEF PollError, SendSucceeds
<1>11. ASSUME NEW i \in Calls, ReadError(i) PROVE WaitInv'
  BY <1>11 DEF ReadError, SendFails
<1>12. ASSUME NEW i \in Calls, Finish(i) PROVE WaitInv'
  BY <1>12 DEF Finish
<1>13. ASSUME NEW i \in Calls, Report(i) PROVE WaitInv'
  BY <1>13 DEF Report
<1>14. ASSUME WorkerCheck PROVE WaitInv'
  BY <1>14 DEF WorkerCheck
<1>15. ASSUME WorkerScan PROVE WaitInv'
  <2>1. CASE Wait
    BY <1>15, <2>1 DEF WorkerScan, Wait
  <2>2. CASE Take
    BY <1>15, <2>2 DEF WorkerScan, Take
  <2> QED BY <1>15, <2>1, <2>2 DEF WorkerScan
<1>16. ASSUME WorkerQuit PROVE WaitInv'
  BY <1>16 DEF WorkerQuit
<1>17. ASSUME SpuriousWakeup PROVE WaitInv'
  BY <1>17 DEF SpuriousWakeup
<1>18. ASSUME HwComplete PROVE WaitInv'
  BY <1>18 DEF HwComplete
<1>19. ASSUME Destroy PROVE WaitInv'
  BY <1>19 DEF Destroy
<1>20. ASSUME DestroyNotify PROVE WaitInv'
  BY <1>20 DEF DestroyNotify, Wakened
<1>21. ASSUME DestroyJoin PROVE WaitInv'
  BY <1>21 DEF DestroyJoin
<1>22. CASE UNCHANGED vars
  BY <1>22 DEF vars
<1>23. QED
  BY <1>1, <1>2, <1>3, <1>4, <1>5, <1>6, <1>7, <1>8, <1>9, <1>10, <1>11,
     <1>12, <1>13, <1>14, <1>15, <1>16, <1>17, <1>18, <1>19, <1>20, <1>21, <1>22
  DEF Next, do_dma, Worker, Destructor, Destroyed

LEMMA SettledAtRest ==
  ASSUME IInv, ItemInv, WakeInv, QueuedInv, WaitInv, AtRest
  PROVE  \A i \in Calls : Settled(i)
<1>1. \A i \in Calls : pc[i] # "wait"
  BY DEF AtRest, Blocked, WaitInv
<1>2. \A i \in Calls : pc[i] \notin {"len", "start", "finish", "report"}
  BY DEF AtRest, Blocked
<1>3. \A i \in Calls : pc[i] # "send"
  <2>1. SUFFICES ASSUME NEW i \in Calls, pc[i] = "send" PROVE FALSE
    OBVIOUS
  <2>2. m_dma_op_mutex # NULL
    BY <2>1 DEF AtRest, Blocked, OpMutexFree
  <2>3. m_dma_op_mutex \in Calls
    BY <2>2 DEF IInv, TypeOK
  <2>4. pc[m_dma_op_mutex] \in {"len", "wait"}
    BY <2>3 DEF IInv, MutexInv
  <2> QED BY <1>1, <1>2, <2>3, <2>4
<1>4. m_item = NULL
  <2>1. SUFFICES ASSUME m_item # NULL PROVE FALSE
    OBVIOUS
  <2>2. m_item \in Calls /\ pc[m_item] \in {"start", "send", "len", "wait", "finish", "report"}
    BY <2>1 DEF ItemInv, Inside, Holding, Calls
  <2> QED BY <1>1, <1>2, <1>3, <2>2
<1>5. dtor # "none" \/ m_work_queue = <<>>
  BY <1>4 DEF AtRest, WakeInv
<1>6. \A i \in Calls : pc[i] = "queued" => dtor # "none"
  <2>1. SUFFICES ASSUME NEW i \in Calls, pc[i] = "queued", dtor = "none" PROVE FALSE
    OBVIOUS
  <2>2. PICK k \in 1 .. Len(m_work_queue) : m_work_queue[k] = i
    BY <2>1 DEF QueuedInv
  <2>3. Len(m_work_queue) = 0
    BY <1>5, <2>1
  <2> QED BY <2>2, <2>3
<1>7. QED
  BY <1>1, <1>2, <1>3, <1>6 DEF Settled, IInv, TypeOK

(***************************************************************************)
(* When every thread inside the driver is blocked and the controller has   *)
(* nothing to do, no call is left behind: no wakeup between push() and     *)
(* wait() is lost, and nobody is blocked on m_dma_op_mutex or on a         *)
(* completion, whatever fault has occurred.  Only the destruction of the   *)
(* object drops calls, those still queued.                                 *)
(***************************************************************************)
THEOREM DriverNeverStuck == Spec => []RestMeansSettled
<1> DEFINE Rest == ItemInv /\ WakeInv /\ QueuedInv /\ WaitInv
<1>1. Init => Rest
  BY DEF Init, ItemInv, WakeInv, QueuedInv, WaitInv
<1>2. IInv /\ Rest /\ [Next]_vars => Rest'
  BY ItemStep, WakeStep, QueuedStep, WaitStep DEF IInv
<1>3. IInv /\ Rest => RestMeansSettled
  BY SettledAtRest DEF RestMeansSettled
<1>4. QED
  BY Invariance, <1>1, <1>2, <1>3, PTL DEF Spec
=============================================================================
