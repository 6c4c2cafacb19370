---------------------------- MODULE KernelInterrupt ----------------------------
(***************************************************************************)
(* How the end of a kernel reaches the OpenCL runtime: the kernels of the  *)
(* board share one interrupt line, the ASP latches its rising edge         *)
(* (asp_logic.sv, asp_host_mem_if_mux.sv), OPAE turns the message into an  *)
(* eventfd, and the work thread of KernelInterrupt                         *)
(* (common/source/host/kernel_interrupt.cpp) calls the runtime's handler.  *)
(* Without the thread (MMD_YIELD_DELAY at least -1) the runtime polls with *)
(* aocl_mmd_yield() instead.  Device::program_bitstream() disables the     *)
(* interrupts, reprograms the board and enables them again.                *)
(*                                                                         *)
(* The mask register is written as in the code, and as in the RTL it gates *)
(* nothing on this path: asp_logic.sv leaves the output of the interrupt   *)
(* controller unconnected and samples the kernels' line directly, in the   *)
(* builds that define USE_KERNEL_IRQ.                                      *)
(*                                                                         *)
(* check_result() only prints a failure.  Modelled is that of              *)
(* fpgaRegisterEvent(); writes of the mask, the event handle and its file  *)
(* descriptor, and unregistering are taken to succeed.                     *)
(***************************************************************************)
EXTENDS Naturals

CONSTANTS Kernels, Handlers, NULL

ASSUME HandlersAssumption == NULL \notin Handlers

VARIABLES
  USE_KERNEL_IRQ,         \* the build connects the kernels' line
  enable_thread,          \* MMD_YIELD_DELAY < -1
  kernel_irq,             \* kernels whose interrupt is raised
  asp_irq_d,              \* last sampled value of the line
  irq_pending,            \* an edge was seen and not sent yet
  ena_state,              \* the interrupt mask register
  eventfd,                \* readable
  registered,             \* fpgaRegisterEvent() succeeded
  m_kernel_interrupt_fn,
  m_work_thread_active,
  worker,                 \* where the work thread is
  running,                \* the handler being executed
  to_scan,                \* kernels this execution has not looked at
  ctl                     \* where disable_/enable_interrupts() is

board   == <<kernel_irq, asp_irq_d, irq_pending>>
event   == <<eventfd, registered>>
flags   == <<USE_KERNEL_IRQ, enable_thread, m_work_thread_active>>
thread  == <<flags, worker>>
handler == <<m_kernel_interrupt_fn, running, to_scan>>
vars    == <<board, event, thread, handler, ena_state, ctl>>

Line == USE_KERNEL_IRQ /\ kernel_irq # {}

\* lock_guard on m_mutex, held by the thread from the call to the unmasking.
MutexHeld == worker \in {"handler", "unmask"}

Init ==
  /\ USE_KERNEL_IRQ \in BOOLEAN
  /\ enable_thread \in BOOLEAN
  /\ kernel_irq = {}
  /\ asp_irq_d = FALSE
  /\ irq_pending = FALSE
  /\ ena_state = FALSE
  /\ eventfd = FALSE
  /\ registered = FALSE
  /\ m_kernel_interrupt_fn = NULL
  /\ m_work_thread_active = FALSE
  /\ worker = "none"
  /\ running = NULL
  /\ to_scan = {}
  /\ ctl = "programmed"

-----------------------------------------------------------------------------
(***************************************************************************)
(* The board.  A kernel keeps the line high until the runtime acknowledges *)
(* it, so a kernel that ends while another one is high makes no edge.      *)
(***************************************************************************)
KernelEnds(k) ==
  /\ ctl = "enabled"
  /\ kernel_irq' = kernel_irq \cup {k}
  /\ UNCHANGED <<event, thread, handler, asp_irq_d, irq_pending, ena_state, ctl>>

\* The line is synchronised and its rising edge is latched.
SampleLine ==
  /\ asp_irq_d # Line
  /\ asp_irq_d' = Line
  /\ irq_pending' = (irq_pending \/ Line)
  /\ UNCHANGED <<event, thread, handler, kernel_irq, ena_state, ctl>>

\* Nobody hears an interrupt whose event is not registered.
SendIrq ==
  /\ irq_pending
  /\ irq_pending' = FALSE
  /\ eventfd' = (eventfd \/ registered)
  /\ UNCHANGED <<thread, handler, kernel_irq, asp_irq_d, ena_state, registered, ctl>>

-----------------------------------------------------------------------------
(***************************************************************************)
(* work_thread() and wait_for_event().  An error of poll() or read() goes  *)
(* on like a timeout.                                                      *)
(***************************************************************************)
WorkerTest ==
  /\ worker = "test"
  /\ worker' = IF m_work_thread_active THEN "poll" ELSE "exited"
  /\ UNCHANGED <<board, event, flags, handler, ena_state, ctl>>

PollEvent ==
  /\ worker = "poll"
  /\ eventfd
  /\ eventfd' = FALSE
  /\ worker' = "mask"
  /\ UNCHANGED <<board, flags, handler, ena_state, registered, ctl>>

\* Mutant: poll() without a timeout.
PollForever == FALSE /\ UNCHANGED vars

PollTimeout ==
  /\ worker = "poll"
  /\ ~eventfd
  /\ worker' = "mask"
  /\ UNCHANGED <<board, event, flags, handler, ena_state, ctl>>

WorkerMask ==
  /\ worker = "mask"
  /\ ena_state' = FALSE
  /\ worker' = "lock"
  /\ UNCHANGED <<board, event, flags, handler, ctl>>

\* Starts a handler, which looks at every kernel.
CallHandler ==
  /\ running' = m_kernel_interrupt_fn
  /\ to_scan' = Kernels

WorkerCall ==
  /\ worker = "lock"
  /\ \/ m_kernel_interrupt_fn # NULL /\ CallHandler /\ worker' = "handler"
     \/ m_kernel_interrupt_fn = NULL /\ worker' = "unmask" /\ UNCHANGED <<running, to_scan>>
  /\ UNCHANGED <<board, event, flags, ena_state, m_kernel_interrupt_fn, ctl>>

WorkerUnmask ==
  /\ worker = "unmask"
  /\ ena_state' = TRUE
  /\ worker' = "test"
  /\ UNCHANGED <<board, event, flags, handler, ctl>>

-----------------------------------------------------------------------------
(***************************************************************************)
(* The runtime.  Its handler reads the status of one kernel after another  *)
(* and acknowledges those that have ended.                                 *)
(***************************************************************************)
Scan(k) ==
  /\ running # NULL
  /\ k \in to_scan
  /\ to_scan' = to_scan \ {k}
  /\ kernel_irq' = kernel_irq \ {k}
  /\ UNCHANGED <<event, thread, asp_irq_d, irq_pending, ena_state, m_kernel_interrupt_fn, running, ctl>>

HandlerReturns ==
  /\ running # NULL
  /\ to_scan = {}
  /\ running' = NULL
  /\ worker' = IF enable_thread THEN "unmask" ELSE worker
  /\ UNCHANGED <<board, event, flags, ena_state, m_kernel_interrupt_fn, to_scan, ctl>>

\* yield(): only called when yield_is_enabled() returned 1.
Yield ==
  /\ ~enable_thread
  /\ ctl = "enabled"
  /\ running = NULL
  /\ m_kernel_interrupt_fn # NULL
  /\ CallHandler
  /\ UNCHANGED <<board, event, thread, ena_state, m_kernel_interrupt_fn, ctl>>

\* Mutant: set_kernel_interrupt() without m_mutex.
SetWithoutLock(h) ==
  /\ ctl = "enabled"
  /\ m_kernel_interrupt_fn' = h
  /\ UNCHANGED <<board, event, thread, ena_state, running, to_scan, ctl>>

set_kernel_interrupt(h) ==
  /\ ctl = "enabled"
  /\ ~MutexHeld
  /\ m_kernel_interrupt_fn' = h
  /\ UNCHANGED <<board, event, thread, ena_state, running, to_scan, ctl>>

-----------------------------------------------------------------------------
(***************************************************************************)
(* disable_interrupts(), by the destructor or by program_bitstream().      *)
(* The device is idle by then as far as yield() is concerned.              *)
(***************************************************************************)
\* Mutant: the thread is not told to stop.
DisableKeepsFlag ==
  /\ ctl = "enabled"
  /\ running = NULL \/ enable_thread
  /\ \/ /\ enable_thread
        /\ ctl' = "flagged"
        /\ UNCHANGED ena_state
     \/ /\ ~enable_thread
        /\ ena_state' = FALSE
        /\ ctl' = "disabled"
  /\ UNCHANGED <<board, event, thread, handler>>

Disable ==
  /\ ctl = "enabled"
  /\ running = NULL \/ enable_thread
  /\ \/ /\ enable_thread
        /\ m_work_thread_active' = FALSE
        /\ ctl' = "flagged"
        /\ UNCHANGED ena_state
     \/ /\ ~enable_thread
        /\ ena_state' = FALSE
        /\ ctl' = "disabled"
        /\ UNCHANGED m_work_thread_active
  /\ UNCHANGED <<board, event, handler, USE_KERNEL_IRQ, enable_thread, worker>>

NotifyWorkThread ==
  /\ ctl = "flagged"
  /\ eventfd' = TRUE
  /\ ctl' = "joining"
  /\ UNCHANGED <<board, thread, handler, ena_state, registered>>

\* Mutant: the event is torn down without waiting for the thread.
DetachThread ==
  /\ ctl = "joining"
  /\ registered' = FALSE
  /\ eventfd' = FALSE
  /\ ctl' = "unregistered"
  /\ UNCHANGED <<board, thread, handler, ena_state>>

JoinAndUnregister ==
  /\ ctl = "joining"
  /\ worker = "exited"
  /\ worker' = "none"
  /\ registered' = FALSE
  /\ eventfd' = FALSE
  /\ ctl' = "unregistered"
  /\ UNCHANGED <<board, flags, handler, ena_state>>

DisableMask ==
  /\ ctl = "unregistered"
  /\ ena_state' = FALSE
  /\ ctl' = "disabled"
  /\ UNCHANGED <<board, event, thread, handler>>

\* Reprogramming resets the board, unless it fails.  The interrupts are enabled
\* afterwards; MmdDevice has the exception after which they are not.
Program ==
  /\ ctl = "disabled"
  /\ ctl' = "programmed"
  /\ \/ UNCHANGED <<board, ena_state>>
     \/ /\ kernel_irq' = {}
        /\ asp_irq_d' = FALSE
        /\ irq_pending' = FALSE
        /\ ena_state' = FALSE
  /\ UNCHANGED <<event, thread, handler>>

(***************************************************************************)
(* enable_interrupts().  check_result() drops a failure of                 *)
(* fpgaRegisterEvent(), and the thread runs all the same.                  *)
(***************************************************************************)
Enable ==
  /\ ctl = "programmed"
  /\ \/ /\ enable_thread
        /\ registered' \in BOOLEAN
        /\ ctl' = "registered"
        /\ UNCHANGED <<ena_state, m_work_thread_active>>
     \/ /\ ~enable_thread
        /\ ena_state' = FALSE
        /\ m_work_thread_active' = FALSE
        /\ ctl' = "enabled"
        /\ UNCHANGED registered
  /\ UNCHANGED <<board, handler, USE_KERNEL_IRQ, enable_thread, eventfd, worker>>

EnableMask ==
  /\ ctl = "registered"
  /\ ena_state' = TRUE
  /\ ctl' = "masked"
  /\ UNCHANGED <<board, event, thread, handler>>

StartThread ==
  /\ ctl = "masked"
  /\ m_work_thread_active' = TRUE
  /\ worker' = "test"
  /\ ctl' = "enabled"
  /\ UNCHANGED <<board, event, handler, USE_KERNEL_IRQ, enable_thread, ena_state>>

-----------------------------------------------------------------------------
WorkThread ==
  WorkerTest \/ PollEvent \/ PollTimeout \/ WorkerMask \/ WorkerCall \/ WorkerUnmask

Handler == (\E k \in Kernels : Scan(k)) \/ HandlerReturns

DisableSteps == NotifyWorkThread \/ JoinAndUnregister \/ DisableMask
EnableSteps  == Enable \/ EnableMask \/ StartThread

Next ==
  \/ \E k \in Kernels : KernelEnds(k)
  \/ SampleLine
  \/ SendIrq
  \/ WorkThread
  \/ Handler
  \/ Yield
  \/ \E h \in Handlers : set_kernel_interrupt(h)
  \/ Disable
  \/ DisableSteps
  \/ Program
  \/ EnableSteps

Spec == Init /\ [][Next]_vars

(***************************************************************************)
(* The board's clock runs, the threads are scheduled, a handler that was   *)
(* called returns, and an idle host keeps calling yield() (aocl_mmd.h).    *)
(* Kernels, set_kernel_interrupt(), Disable and Program owe nothing.       *)
(***************************************************************************)
FairSpec ==
  /\ Spec
  /\ WF_vars(SampleLine)
  /\ WF_vars(SendIrq)
  /\ WF_vars(WorkThread)
  /\ WF_vars(Handler)
  /\ WF_vars(Yield)
  /\ WF_vars(DisableSteps)
  /\ WF_vars(EnableSteps)
-----------------------------------------------------------------------------
(***************************************************************************)
(* Types; and a thread exists exactly while the driver believes so.        *)
(***************************************************************************)
TypeOK ==
  /\ USE_KERNEL_IRQ \in BOOLEAN
  /\ enable_thread \in BOOLEAN
  /\ kernel_irq \in SUBSET Kernels
  /\ asp_irq_d \in BOOLEAN
  /\ irq_pending \in BOOLEAN
  /\ ena_state \in BOOLEAN
  /\ eventfd \in BOOLEAN
  /\ registered \in BOOLEAN
  /\ m_kernel_interrupt_fn \in Handlers \cup {NULL}
  /\ m_work_thread_active \in BOOLEAN
  /\ worker \in {"none", "test", "poll", "mask", "lock", "handler", "unmask", "exited"}
  /\ running \in Handlers \cup {NULL}
  /\ to_scan \in SUBSET Kernels
  /\ ctl \in {"programmed", "registered", "masked", "enabled", "flagged", "joining",
              "unregistered", "disabled"}
  /\ worker # "none" => enable_thread /\ ctl \in {"enabled", "flagged", "joining"}

(***************************************************************************)
(* When disable_interrupts() has returned, the board may be reprogrammed:  *)
(* the mask is off although the thread writes it too, no handler is being  *)
(* executed that would touch the kernels, and no event is outstanding.     *)
(***************************************************************************)
QuietWhenDisabled ==
  ctl \in {"disabled", "programmed"} =>
    /\ ~ena_state
    /\ running = NULL
    /\ ~registered
    /\ ~eventfd

(***************************************************************************)
(* When set_kernel_interrupt() has returned, the thread no longer executes *)
(* the previous handler: its user data may be freed.                       *)
(***************************************************************************)
HandlerIsCurrent ==
  enable_thread /\ running # NULL => running = m_kernel_interrupt_fn

(***************************************************************************)
(* Every kernel that ends is acknowledged, although interrupts share one   *)
(* edge-triggered line and an edge may be missed, or the build connects no *)
(* line at all: the timeout of poll(), or yield(), makes up for it.        *)
(***************************************************************************)
KernelsServed ==
  \A k \in Kernels :
    (k \in kernel_irq /\ ctl = "enabled" /\ m_kernel_interrupt_fn # NULL)
      ~> (k \notin kernel_irq \/ ctl # "enabled")

(***************************************************************************)
(* disable_interrupts() returns, wherever the thread is when it is called. *)
(***************************************************************************)
DisableReturns == ctl = "flagged" ~> ctl = "disabled"
=============================================================================
