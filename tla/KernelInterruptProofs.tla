------------------------- MODULE KernelInterruptProofs -------------------------
(***************************************************************************)
(* The safety invariants of KernelInterrupt, for every set of kernels and  *)
(* of handlers.  The strengthening says where the work thread is, and      *)
(* which resources exist, at each point of disable_interrupts() and        *)
(* enable_interrupts().                                                    *)
(***************************************************************************)
EXTENDS KernelInterrupt, Integers, FiniteSets, FiniteSetTheorems, TLAPS

\* With a work thread: it exists from StartThread to the join, the event from
\* its registration to the join, the mask from its write to DisableMask.
ThreadInv ==
  enable_thread =>
    /\ worker # "none" <=> ctl \in {"enabled", "flagged", "joining"}
    /\ running # NULL <=> worker = "handler"
    /\ registered \/ eventfd => ctl \notin {"programmed", "unregistered", "disabled"}
    /\ ena_state => ctl \notin {"programmed", "registered", "disabled"}

\* Without one: nothing is ever registered nor unmasked.
YieldInv ==
  ~enable_thread =>
    /\ ctl \in {"programmed", "enabled", "disabled"}
    /\ ~registered /\ ~eventfd /\ ~ena_state
    /\ running # NULL => ctl = "enabled"

IInv == TypeOK /\ ThreadInv /\ YieldInv /\ HandlerIsCurrent

USE DEF Line, MutexHeld

LEMMA InitIInv == Init => IInv
  BY HandlersAssumption DEF Init, IInv, TypeOK, ThreadInv, YieldInv, HandlerIsCurrent

\* The board can only make the eventfd readable, and only while it is registered.
LEMMA BoardStep ==
  ASSUME IInv, (\E k \in Kernels : KernelEnds(k)) \/ SampleLine \/ SendIrq
  PROVE  IInv'
<1> USE DEF IInv, TypeOK, ThreadInv, YieldInv, HandlerIsCurrent, board, event, thread, flags, handler
<1>1. ASSUME NEW k \in Kernels, KernelEnds(k) PROVE IInv'
  BY <1>1 DEF KernelEnds
<1>2. ASSUME SampleLine PROVE IInv'
  BY <1>2 DEF SampleLine
<1>3. ASSUME SendIrq PROVE IInv'
  <2>1. CASE registered
    <3>1. UNCHANGED <<kernel_irq, asp_irq_d, registered, thread, handler, ena_state, ctl>>
      BY <1>3, <2>1 DEF SendIrq
    <3>2. irq_pending' \in BOOLEAN /\ eventfd' \in BOOLEAN
      BY <1>3, <2>1 DEF SendIrq
    <3>3. TypeOK'
      BY <3>1, <3>2
    <3>4. ThreadInv' /\ YieldInv' /\ HandlerIsCurrent'
      BY <2>1, <3>1
    <3> QED BY <3>3, <3>4
  <2>2. CASE ~registered
    <3>1. UNCHANGED <<kernel_irq, asp_irq_d, eventfd, registered, thread, handler, ena_state, ctl>>
      BY <1>3, <2>2 DEF SendIrq
    <3>2. irq_pending' \in BOOLEAN
      BY <1>3 DEF SendIrq
    <3> QED BY <3>1, <3>2
  <2> QED BY <2>1, <2>2
<1> QED BY <1>1, <1>2, <1>3

LEMMA WorkThreadStep ==
  ASSUME IInv, WorkThread
  PROVE  IInv'
<1> USE DEF IInv, TypeOK, ThreadInv, YieldInv, HandlerIsCurrent, board, event, thread, flags, handler
<1>1. ASSUME WorkerTest PROVE IInv'
  BY <1>1 DEF WorkerTest
<1>2. ASSUME PollEvent PROVE IInv'
  BY <1>2 DEF PollEvent
<1>3. ASSUME PollTimeout PROVE IInv'
  BY <1>3 DEF PollTimeout
<1>4. ASSUME WorkerMask PROVE IInv'
  BY <1>4 DEF WorkerMask
<1>5. ASSUME WorkerCall PROVE IInv'
  BY <1>5 DEF WorkerCall, CallHandler
<1>6. ASSUME WorkerUnmask PROVE IInv'
  BY <1>6 DEF WorkerUnmask
<1> QED BY <1>1, <1>2, <1>3, <1>4, <1>5, <1>6 DEF WorkThread

\* A new handler is installed only while the thread executes none.
LEMMA RuntimeStep ==
  ASSUME IInv, Handler \/ Yield \/ (\E h \in Handlers : set_kernel_interrupt(h))
  PROVE  IInv'
<1> USE DEF IInv, TypeOK, ThreadInv, YieldInv, HandlerIsCurrent, board, event, thread, flags, handler
<1>1. ASSUME NEW k \in Kernels, Scan(k) PROVE IInv'
  BY <1>1 DEF Scan
<1>2. ASSUME HandlerReturns PROVE IInv'
  BY <1>2 DEF HandlerReturns
<1>3. ASSUME Yield PROVE IInv'
  BY <1>3 DEF Yield, CallHandler
<1>4. ASSUME NEW h \in Handlers, set_kernel_interrupt(h) PROVE IInv'
  BY <1>4 DEF set_kernel_interrupt
<1> QED BY <1>1, <1>2, <1>3, <1>4 DEF Handler

LEMMA ControlStep ==
  ASSUME IInv, Disable \/ DisableSteps \/ Program \/ EnableSteps
  PROVE  IInv'
<1> USE DEF IInv, TypeOK, ThreadInv, YieldInv, HandlerIsCurrent, board, event, thread, flags, handler
<1>1. ASSUME Disable PROVE IInv'
  <2>1. CASE enable_thread
    <3>1. /\ UNCHANGED <<board, event, handler, enable_thread, USE_KERNEL_IRQ, worker, ena_state>>
          /\ ctl = "enabled" /\ ctl' = "flagged" /\ m_work_thread_active' = FALSE
      BY <1>1, <2>1 DEF Disable
    <3>2. TypeOK'
      BY <3>1
    <3>3. ThreadInv'
      BY <2>1, <3>1
    <3>4. YieldInv' /\ HandlerIsCurrent'
      BY <2>1, <3>1
    <3> QED BY <3>2, <3>3, <3>4
  <2>2. CASE ~enable_thread
    BY <1>1, <2>2 DEF Disable
  <2> QED BY <2>1, <2>2
<1>2. ASSUME NotifyWorkThread PROVE IInv'
  BY <1>2 DEF NotifyWorkThread
<1>3. ASSUME JoinAndUnregister PROVE IInv'
  BY <1>3 DEF JoinAndUnregister
<1>4. ASSUME DisableMask PROVE IInv'
  BY <1>4 DEF DisableMask
<1>5. ASSUME Program PROVE IInv'
  <2>1. CASE UNCHANGED <<board, ena_state>>
    BY <1>5, <2>1 DEF Program
  <2>2. CASE kernel_irq' = {} /\ ~asp_irq_d' /\ ~irq_pending' /\ ~ena_state'
    BY <1>5, <2>2 DEF Program
  <2> QED BY <1>5, <2>1, <2>2 DEF Program
<1>6. ASSUME Enable PROVE IInv'
  <2>1. CASE enable_thread
    BY <1>6, <2>1 DEF Enable
  <2>2. CASE ~enable_thread
    <3>1. /\ ~enable_thread' /\ ~ena_state' /\ ~m_work_thread_active' /\ ~registered'
          /\ ctl' = "enabled"
      BY <1>6, <2>2 DEF Enable
    <3> QED BY <1>6, <2>2, <3>1 DEF Enable
  <2> QED BY <2>1, <2>2
<1>7. ASSUME EnableMask PROVE IInv'
  BY <1>7 DEF EnableMask
<1>8. ASSUME StartThread PROVE IInv'
  BY <1>8 DEF StartThread
<1> QED BY <1>1, <1>2, <1>3, <1>4, <1>5, <1>6, <1>7, <1>8 DEF DisableSteps, EnableSteps

\* The strengthened invariant holds in every reachable state.
THEOREM InterruptInvariance == Spec => []IInv
<1>1. IInv /\ [Next]_vars => IInv'
  <2>1. ASSUME IInv, UNCHANGED vars PROVE IInv'
    BY <2>1 DEF vars, board, event, flags, thread, handler, IInv, TypeOK, ThreadInv, YieldInv, HandlerIsCurrent
  <2> QED BY <2>1, BoardStep, WorkThreadStep, RuntimeStep, ControlStep DEF Next
<1> QED BY InitIInv, <1>1, PTL DEF Spec

\* Types.
THEOREM InterruptTypes == Spec => []TypeOK
<1>1. IInv => TypeOK
  BY DEF IInv
<1> QED BY <1>1, InterruptInvariance, PTL

\* After disable_interrupts() the mask is off, the event is gone and no handler
\* is being executed, in either mode.
THEOREM DisabledIsQuiet == Spec => []QuietWhenDisabled
<1>1. IInv => QuietWhenDisabled
  BY DEF IInv, TypeOK, ThreadInv, YieldInv, QuietWhenDisabled
<1> QED BY <1>1, InterruptInvariance, PTL

\* The work thread never executes a handler that has been replaced.
THEOREM HandlersCurrent == Spec => []HandlerIsCurrent
<1>1. IInv => HandlerIsCurrent
  BY DEF IInv
<1> QED BY <1>1, InterruptInvariance, PTL
-----------------------------------------------------------------------------
(***************************************************************************)
(* What the liveness properties rest on: a distance that no step makes     *)
(* longer and every step of the threads shorter, and a step that can be    *)
(* taken as long as the distance is not 0.                                 *)
(***************************************************************************)

\* The thread runs while the object is enabled, and is told to stop before
\* disable_interrupts() waits for it.
StopInv ==
  /\ ctl = "enabled" => m_work_thread_active = enable_thread
  /\ ctl \in {"flagged", "joining"} => ~m_work_thread_active
  /\ worker = "exited" => ~m_work_thread_active

ToScan == Cardinality(to_scan)

\* A kernel has ended, and there is a handler for it.
Unserved(k) == k \in kernel_irq /\ ctl = "enabled" /\ m_kernel_interrupt_fn # NULL

\* Steps of the work thread, or of yield(), before a handler is called.
ToCall ==
  IF enable_thread
  THEN CASE worker = "lock"    -> 1
         [] worker = "mask"    -> 2
         [] worker = "poll"    -> 3
         [] worker = "test"    -> 4
         [] worker = "unmask"  -> 5
         [] worker = "handler" -> 6 + ToScan
         [] OTHER              -> 0
  ELSE IF running = NULL THEN 1 ELSE 2 + ToScan

\* Steps before kernel k has been looked at.  A handler that has already
\* looked at it must return, and be called again.
ToServe(k) ==
  IF running # NULL /\ k \in to_scan THEN ToScan ELSE Cardinality(Kernels) + ToCall

\* The guards of the handler, of the work thread and of yield().
CanServe ==
  \/ running # NULL
  \/ enable_thread /\ worker \in {"test", "poll", "mask", "lock", "unmask"}
  \/ ~enable_thread /\ ctl = "enabled" /\ m_kernel_interrupt_fn # NULL

ServeProgress(k) ==
  Unserved(k) =>
    /\ CanServe
    /\ Unserved(k)' => /\ ToServe(k)' <= ToServe(k)
                       /\ WorkThread \/ Handler \/ Yield => ToServe(k)' < ToServe(k)

Disabling == ctl \in {"flagged", "joining", "unregistered"}

\* Steps before disable_interrupts() returns: the thread finishes its turn,
\* with at most one execution of the handler.
ToExit ==
  CASE worker = "test"    -> 1
    [] worker = "unmask"  -> 2
    [] worker = "handler" -> 3 + ToScan
    [] worker = "lock"    -> 4 + Cardinality(Kernels)
    [] worker = "mask"    -> 5 + Cardinality(Kernels)
    [] worker = "poll"    -> 6 + Cardinality(Kernels)
    [] OTHER              -> 0

\* Its own steps: notify, join, mask.
OwnSteps ==
  CASE ctl = "flagged" -> 3 [] ctl = "joining" -> 2 [] ctl = "unregistered" -> 1 [] OTHER -> 0

ToDisable == ToExit + OwnSteps

\* The guards of disable_interrupts() and of the thread it waits for.
CanDisable ==
  ctl = "joining" =>
    \/ worker \in {"exited", "test", "poll", "mask", "lock", "unmask"}
    \/ worker = "handler" /\ running # NULL

DisableProgress ==
  Disabling =>
    /\ CanDisable
    /\ ToDisable' <= ToDisable
    /\ WorkThread \/ Handler \/ DisableSteps => ToDisable' < ToDisable

\* How many kernels an execution of the handler has not looked at.
LEMMA ScanFacts ==
  ASSUME IsFiniteSet(Kernels), TypeOK
  PROVE  /\ Cardinality(Kernels) \in Nat
         /\ ToScan \in Nat /\ ToScan <= Cardinality(Kernels)
         /\ \A j \in to_scan : ToScan > 0 /\ Cardinality(to_scan \ {j}) = ToScan - 1
<1>1. to_scan \subseteq Kernels /\ IsFiniteSet(to_scan)
  BY FS_Subset DEF TypeOK
<1>2. ToScan \in Nat /\ Cardinality(Kernels) \in Nat
  BY <1>1, FS_CardinalityType DEF ToScan
<1>3. ToScan <= Cardinality(Kernels)
  BY <1>1, FS_Subset DEF ToScan
<1>4. ASSUME NEW j \in to_scan PROVE ToScan > 0 /\ Cardinality(to_scan \ {j}) = ToScan - 1
  <2>1. Cardinality(to_scan \ {j}) = ToScan - 1 /\ IsFiniteSet(to_scan \ {j})
    BY <1>1, FS_RemoveElement DEF ToScan
  <2>2. Cardinality(to_scan \ {j}) \in Nat
    BY <2>1, FS_CardinalityType
  <2> QED BY <1>2, <2>1, <2>2
<1> QED BY <1>2, <1>3, <1>4

LEMMA StopStep == IInv /\ StopInv /\ [Next]_vars => StopInv'
<1> SUFFICES ASSUME IInv, StopInv, [Next]_vars PROVE StopInv'
  OBVIOUS
<1> USE DEF StopInv, board, event, thread, flags, handler
<1>1. ASSUME NEW k \in Kernels, KernelEnds(k) \/ Scan(k) PROVE StopInv'
  BY <1>1 DEF KernelEnds, Scan
<1>2. ASSUME NEW h \in Handlers, set_kernel_interrupt(h) PROVE StopInv'
  BY <1>2 DEF set_kernel_interrupt
<1>3. CASE SampleLine \/ SendIrq \/ Yield
  BY <1>3 DEF SampleLine, SendIrq, Yield
<1>4. CASE WorkThread
  BY <1>4 DEF WorkThread, WorkerTest, PollEvent, PollTimeout, WorkerMask, WorkerCall, WorkerUnmask
<1>5. CASE HandlerReturns
  BY <1>5 DEF HandlerReturns, IInv, ThreadInv
<1>6. CASE Disable
  BY <1>6 DEF Disable, IInv, ThreadInv
<1>7. CASE DisableSteps
  BY <1>7 DEF DisableSteps, NotifyWorkThread, JoinAndUnregister, DisableMask
<1>8. CASE Program
  BY <1>8 DEF Program
<1>9. CASE Enable
  BY <1>9 DEF Enable, IInv, TypeOK
<1>10. CASE EnableMask \/ StartThread
  BY <1>10 DEF EnableMask, StartThread, IInv, TypeOK, ThreadInv, YieldInv
<1>11. CASE UNCHANGED vars
  BY <1>11 DEF vars
<1> QED BY <1>1, <1>2, <1>3, <1>4, <1>5, <1>6, <1>7, <1>8, <1>9, <1>10, <1>11
        DEF Next, Handler, EnableSteps

\* A step of the work thread, of the handler or of yield() is a step towards
\* the next look at kernel k.
LEMMA ServeNearer ==
  ASSUME IsFiniteSet(Kernels), IInv, StopInv, NEW k \in Kernels, Unserved(k), Unserved(k)',
         WorkThread \/ Handler \/ Yield
  PROVE  ToServe(k)' < ToServe(k) /\ ToServe(k)' <= ToServe(k)
<1> DEFINE N == Cardinality(Kernels)
<1>1. /\ N \in Nat /\ ToScan \in Nat /\ ToScan <= N
      /\ \A j \in to_scan : ToScan > 0 /\ Cardinality(to_scan \ {j}) = ToScan - 1
  BY ScanFacts DEF IInv
<1>2. /\ enable_thread \in BOOLEAN
      /\ enable_thread => (running # NULL <=> worker = "handler") /\ m_work_thread_active
      /\ ~enable_thread => worker = "none"
  BY DEF IInv, TypeOK, ThreadInv, StopInv, Unserved
<1> HIDE DEF N
<1> USE DEF ToServe, ToCall, board, event, thread, flags, handler
<1>3. CASE WorkerTest \/ PollEvent \/ PollTimeout \/ WorkerMask \/ WorkerUnmask
  <2>1. /\ running' = running /\ to_scan' = to_scan /\ enable_thread' = enable_thread
        /\ enable_thread /\ running = NULL
        /\ \/ worker = "test" /\ worker' = "poll"
           \/ worker = "poll" /\ worker' = "mask"
           \/ worker = "mask" /\ worker' = "lock"
           \/ worker = "unmask" /\ worker' = "test"
    BY <1>2, <1>3 DEF WorkerTest, PollEvent, PollTimeout, WorkerMask, WorkerUnmask
  <2>2. \/ ToServe(k) = N + 4 /\ ToServe(k)' = N + 3
        \/ ToServe(k) = N + 3 /\ ToServe(k)' = N + 2
        \/ ToServe(k) = N + 2 /\ ToServe(k)' = N + 1
        \/ ToServe(k) = N + 5 /\ ToServe(k)' = N + 4
    BY <1>1, <2>1 DEF N
  <2> QED BY <1>1, <2>2
<1>4. CASE WorkerCall
  <2>1. /\ running' # NULL /\ to_scan' = Kernels
        /\ enable_thread /\ running = NULL /\ worker = "lock"
    BY <1>2, <1>4 DEF WorkerCall, CallHandler, Unserved
  <2>2. ToServe(k) = N + 1 /\ ToServe(k)' = N
    BY <1>1, <2>1 DEF N, ToScan
  <2> QED BY <1>1, <2>2
<1>5. ASSUME NEW j \in Kernels, Scan(j) PROVE ToServe(k)' < ToServe(k) /\ ToServe(k)' <= ToServe(k)
  <2>1. /\ running # NULL /\ running' = running /\ j \in to_scan /\ to_scan' = to_scan \ {j}
        /\ worker' = worker /\ enable_thread' = enable_thread /\ k # j
    BY <1>5 DEF Scan, Unserved
  <2>2. ToScan' = ToScan - 1
    BY <1>1, <2>1 DEF ToScan
  <2>3. CASE k \in to_scan
    <3>1. ToServe(k) = ToScan /\ ToServe(k)' = ToScan'
      BY <2>1, <2>3
    <3> QED BY <1>1, <2>2, <3>1
  <2>4. CASE k \notin to_scan
    <3>1. \/ ToServe(k) = N + (6 + ToScan) /\ ToServe(k)' = N + (6 + ToScan')
          \/ ToServe(k) = N + (2 + ToScan) /\ ToServe(k)' = N + (2 + ToScan')
      BY <1>2, <2>1, <2>4 DEF N
    <3> QED BY <1>1, <2>2, <3>1
  <2> QED BY <2>3, <2>4
<1>6. CASE HandlerReturns
  <2>1. /\ running # NULL /\ running' = NULL /\ to_scan = {} /\ enable_thread' = enable_thread
        /\ enable_thread => worker = "handler" /\ worker' = "unmask"
    BY <1>2, <1>6 DEF HandlerReturns
  <2>2. \/ ToServe(k) = N + (6 + ToScan) /\ ToServe(k)' = N + 5
        \/ ToServe(k) = N + (2 + ToScan) /\ ToServe(k)' = N + 1
    BY <1>2, <2>1 DEF N
  <2> QED BY <1>1, <2>2
<1>7. CASE Yield
  <2>1. /\ running' # NULL /\ to_scan' = Kernels /\ ~enable_thread /\ running = NULL
    BY <1>7 DEF Yield, CallHandler
  <2>2. ToServe(k) = N + 1 /\ ToServe(k)' = N
    BY <1>1, <2>1 DEF N, ToScan
  <2> QED BY <1>1, <2>2
<1> QED BY <1>3, <1>4, <1>5, <1>6, <1>7 DEF WorkThread, Handler

LEMMA ServeStep ==
  ASSUME IsFiniteSet(Kernels), IInv, StopInv, [Next]_vars, NEW k \in Kernels
  PROVE  ServeProgress(k)
<1> SUFFICES ASSUME Unserved(k)
             PROVE  /\ CanServe
                    /\ Unserved(k)' => /\ ToServe(k)' <= ToServe(k)
                                       /\ WorkThread \/ Handler \/ Yield => ToServe(k)' < ToServe(k)
  BY DEF ServeProgress
<1>1. CanServe
  BY DEF CanServe, Unserved, IInv, TypeOK, ThreadInv, StopInv
<1>2. ASSUME Unserved(k)' PROVE ToServe(k)' <= ToServe(k)
  <2>1. CASE WorkThread \/ Handler \/ Yield
    BY <1>2, <2>1, ServeNearer
  <2>2. CASE ~(WorkThread \/ Handler \/ Yield)
    <3>1. UNCHANGED <<worker, running, to_scan, enable_thread>>
      BY <1>2, <2>2
      DEF Next, vars, board, event, thread, flags, handler, Unserved, KernelEnds, SampleLine,
          SendIrq, set_kernel_interrupt, Disable, DisableSteps, NotifyWorkThread,
          JoinAndUnregister, DisableMask, Program, EnableSteps, Enable, EnableMask, StartThread
    <3>2. ToServe(k)' = ToServe(k)
      BY <3>1 DEF ToServe, ToCall, ToScan
    <3>3. ToServe(k) \in Int
      BY ScanFacts DEF ToServe, ToCall, IInv
    <3> QED BY <3>2, <3>3
  <2> QED BY <2>1, <2>2
<1> QED BY <1>1, <1>2, ServeNearer

LEMMA StillLess ==
  ASSUME NEW a \in Nat, NEW b \in Nat, NEW c \in Nat, a < b
  PROVE  a + c < b + c /\ a + c <= b + c
OBVIOUS

\* A step of the thread, or of disable_interrupts(), is a step towards its end.
LEMMA DisableNearer ==
  ASSUME IsFiniteSet(Kernels), IInv, StopInv, Disabling, WorkThread \/ Handler \/ DisableSteps
  PROVE  ToDisable' < ToDisable /\ ToDisable' <= ToDisable
<1> DEFINE N == Cardinality(Kernels)
<1>1. /\ N \in Nat /\ ToScan \in Nat /\ ToScan <= N
      /\ \A j \in to_scan : ToScan > 0 /\ Cardinality(to_scan \ {j}) = ToScan - 1
  BY ScanFacts DEF IInv
<1>2. /\ enable_thread
      /\ running # NULL <=> worker = "handler"
      /\ worker # "none" => ~m_work_thread_active
      /\ OwnSteps \in 1 .. 3
  BY DEF IInv, TypeOK, ThreadInv, YieldInv, StopInv, Disabling, OwnSteps
<1>3. ToExit \in Nat
  BY <1>1 DEF ToExit, N
<1>4. ToDisable = ToExit + OwnSteps /\ ToDisable' = ToExit' + OwnSteps'
  BY DEF ToDisable
<1> HIDE DEF N
<1> USE DEF board, event, thread, flags, handler
<1>5. ASSUME WorkThread \/ Handler PROVE ToExit' \in Nat /\ ToExit' < ToExit /\ ctl' = ctl
  <2>1. CASE WorkerTest \/ PollEvent \/ PollTimeout \/ WorkerMask \/ WorkerUnmask
    <3>1. /\ to_scan' = to_scan /\ ctl' = ctl
          /\ \/ worker = "test" /\ worker' = "exited"
             \/ worker = "poll" /\ worker' = "mask"
             \/ worker = "mask" /\ worker' = "lock"
             \/ worker = "unmask" /\ worker' = "test"
      BY <1>2, <2>1 DEF WorkerTest, PollEvent, PollTimeout, WorkerMask, WorkerUnmask
    <3>2. \/ ToExit = 1 /\ ToExit' = 0
          \/ ToExit = 6 + N /\ ToExit' = 5 + N
          \/ ToExit = 5 + N /\ ToExit' = 4 + N
          \/ ToExit = 2 /\ ToExit' = 1
      BY <3>1 DEF N, ToExit
    <3> QED BY <1>1, <3>1, <3>2
  <2>2. CASE WorkerCall
    <3>1. /\ worker = "lock" /\ ctl' = ctl
          /\ \/ worker' = "handler" /\ to_scan' = Kernels
             \/ worker' = "unmask"
      BY <2>2 DEF WorkerCall, CallHandler
    <3>2. ToExit = 4 + N /\ (ToExit' = 3 + N \/ ToExit' = 2)
      BY <3>1 DEF N, ToScan, ToExit
    <3> QED BY <1>1, <3>1, <3>2
  <2>3. ASSUME NEW j \in Kernels, Scan(j)
        PROVE  ToExit' \in Nat /\ ToExit' < ToExit /\ ctl' = ctl
    <3>1. /\ worker = "handler" /\ worker' = worker /\ ctl' = ctl
          /\ j \in to_scan /\ to_scan' = to_scan \ {j}
      BY <1>2, <2>3 DEF Scan
    <3>2. ToScan' = ToScan - 1
      BY <1>1, <3>1 DEF ToScan
    <3>3. ToExit = 3 + ToScan /\ ToExit' = 3 + ToScan'
      BY <3>1 DEF ToExit
    <3> QED BY <1>1, <3>1, <3>2, <3>3
  <2>4. CASE HandlerReturns
    <3>1. worker = "handler" /\ worker' = "unmask" /\ ctl' = ctl
      BY <1>2, <2>4 DEF HandlerReturns
    <3>2. ToExit = 3 + ToScan /\ ToExit' = 2
      BY <3>1 DEF ToExit
    <3> QED BY <1>1, <3>1, <3>2
  <2> QED BY <1>5, <2>1, <2>2, <2>3, <2>4 DEF WorkThread, Handler
<1>6. ASSUME DisableSteps PROVE ToExit' = ToExit /\ OwnSteps' = OwnSteps - 1
  <2>1. CASE NotifyWorkThread
    <3>1. worker' = worker /\ to_scan' = to_scan /\ ctl = "flagged" /\ ctl' = "joining"
      BY <2>1 DEF NotifyWorkThread
    <3> QED BY <3>1 DEF ToScan, ToExit, OwnSteps
  <2>2. CASE JoinAndUnregister
    <3>1. worker = "exited" /\ worker' = "none" /\ ctl = "joining" /\ ctl' = "unregistered"
      BY <2>2 DEF JoinAndUnregister
    <3> QED BY <3>1 DEF ToExit, OwnSteps
  <2>3. CASE DisableMask
    <3>1. worker' = worker /\ to_scan' = to_scan /\ ctl = "unregistered" /\ ctl' = "disabled"
      BY <2>3 DEF DisableMask
    <3> QED BY <3>1 DEF ToScan, ToExit, OwnSteps
  <2> QED BY <1>6, <2>1, <2>2, <2>3 DEF DisableSteps
<1>7. CASE WorkThread \/ Handler
  <2>1. OwnSteps' = OwnSteps
    BY <1>5, <1>7 DEF OwnSteps
  <2>2. ToExit' \in Nat /\ ToExit' < ToExit
    BY <1>5, <1>7
  <2>3. OwnSteps \in Nat
    BY <1>2
  <2>4. ToDisable = ToExit + OwnSteps /\ ToDisable' = ToExit' + OwnSteps
    BY <1>4, <2>1
  <2>5. ToExit' + OwnSteps < ToExit + OwnSteps /\ ToExit' + OwnSteps <= ToExit + OwnSteps
    BY <1>3, <2>2, <2>3, StillLess
  <2> QED BY <2>4, <2>5
<1>8. CASE DisableSteps
  <2> QED BY <1>2, <1>3, <1>4, <1>6, <1>8
<1> QED BY <1>7, <1>8

LEMMA DisableStep ==
  ASSUME IsFiniteSet(Kernels), IInv, StopInv, [Next]_vars
  PROVE  DisableProgress
<1> SUFFICES ASSUME Disabling
             PROVE  /\ CanDisable
                    /\ ToDisable' <= ToDisable
                    /\ WorkThread \/ Handler \/ DisableSteps => ToDisable' < ToDisable
  BY DEF DisableProgress
<1>1. CanDisable
  BY DEF CanDisable, IInv, TypeOK, ThreadInv, YieldInv
<1>2. CASE WorkThread \/ Handler \/ DisableSteps
  BY <1>1, <1>2, DisableNearer
<1>3. CASE ~(WorkThread \/ Handler \/ DisableSteps)
  <2>1. enable_thread
    BY DEF Disabling, IInv, YieldInv
  <2>2. UNCHANGED <<worker, to_scan, ctl>>
    BY <1>3, <2>1
    DEF Next, vars, board, event, thread, flags, handler, Disabling, KernelEnds, SampleLine,
        SendIrq, Yield, set_kernel_interrupt, Disable, Program, EnableSteps, Enable, EnableMask,
        StartThread
  <2>3. ToDisable' = ToDisable
    BY <2>2 DEF ToDisable, ToExit, OwnSteps, ToScan
  <2>4. ToDisable \in Int
    BY ScanFacts DEF ToDisable, ToExit, OwnSteps, IInv
  <2> QED BY <1>1, <1>3, <2>3, <2>4
<1> QED BY <1>2, <1>3

LEMMA StopInvariance == Spec => []StopInv
<1>1. Init => StopInv
  BY DEF Init, StopInv
<1>2. IInv /\ StopInv /\ [Next]_vars => StopInv'
  BY StopStep
<1> QED BY <1>1, <1>2, InterruptInvariance, PTL DEF Spec

(***************************************************************************)
(* A kernel that has ended while interrupts are enabled comes nearer to    *)
(* its acknowledgement with every step of the work thread, of the handler  *)
(* and of yield(), and no step of anybody takes it further away: neither   *)
(* another kernel's end, nor a missed edge, nor a handler that has already *)
(* looked at it.  One of these steps can always be taken.                  *)
(***************************************************************************)
THEOREM KernelsApproached ==
  ASSUME IsFiniteSet(Kernels)
  PROVE  Spec => [][\A k \in Kernels : ServeProgress(k)]_vars
<1>1. IInv /\ StopInv /\ [Next]_vars => [\A k \in Kernels : ServeProgress(k)]_vars
  BY ServeStep
<1> QED BY <1>1, InterruptInvariance, StopInvariance, PTL DEF Spec

(***************************************************************************)
(* Once the thread has been told to stop, every step of its and of         *)
(* disable_interrupts() brings the latter nearer to its return, no step    *)
(* takes it further away, and the thread that is joined can always step:   *)
(* it is never left waiting for an event.                                  *)
(***************************************************************************)
THEOREM DisableApproached ==
  ASSUME IsFiniteSet(Kernels)
  PROVE  Spec => [][DisableProgress]_vars
<1>1. IInv /\ StopInv /\ [Next]_vars => [DisableProgress]_vars
  BY DisableStep
<1> QED BY <1>1, InterruptInvariance, StopInvariance, PTL DEF Spec
=============================================================================
