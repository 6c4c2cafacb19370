----------------------------- MODULE HostMemMux -----------------------------
(***************************************************************************)
(* The write channel to host memory, shared by the FPGA-to-host DMA        *)
(* (channel 0) and the interrupts of the ASP (asp_host_mem_if_mux.sv).     *)
(* An interrupt is a write of one beat with a user flag; it must not come  *)
(* between the beats of a burst, which burst_counter is for.               *)
(*                                                                         *)
(* One action is one clock.  A build without USE_WR_FENCE_FLAG ties        *)
(* wr_fence_flag to 0, and dma_top.sv drives 0 in any build, so the fence  *)
(* never fires and is left out.                                            *)
(***************************************************************************)
EXTENDS Naturals

CONSTANTS
  Lines,         \* interrupt lines in use; the lowest pending one is sent
  BurstCounts    \* lengths of the bursts of the DMA

ASSUME LinesAssumption == Lines \subseteq Nat
ASSUME BurstsAssumption == BurstCounts \subseteq Nat \ {0}

VARIABLES
  asp_irq, asp_irq_d, irq_pending,  \* sets of lines: level, last level, latched edge
  burst, left,                      \* burst the DMA is writing, beats not accepted yet
  wr_write,                         \* the DMA offers a beat
  wr_waitrequest,                   \* of the host, in this clock
  burst_counter,
  sent,                             \* the line whose interrupt the last clock sent
  stalled                           \* history: the host stalled the first beat of this burst

irqs == <<asp_irq, asp_irq_d, irq_pending>>
dma  == <<burst, left, wr_write>>
vars == <<irqs, dma, wr_waitrequest, burst_counter, sent, stalled>>

Init ==
  /\ asp_irq = {} /\ asp_irq_d = {} /\ irq_pending = {}
  /\ burst = 0 /\ left = 0
  /\ wr_write = FALSE
  /\ wr_waitrequest = FALSE
  /\ burst_counter = 0
  /\ sent = {}
  /\ stalled = FALSE

-----------------------------------------------------------------------------
\* Burst length offered with a beat: the DMA counts it down.
wr_burstcount == left

\* Mutant: the highest line goes first.
HighestFirst == CHOOSE i \in irq_pending : \A j \in irq_pending : j <= i

pending_irq_id == CHOOSE i \in irq_pending : \A j \in irq_pending : i <= j

\* Mutant: the interrupt does not wait for the end of a burst.
SendAnytime == irq_pending # {} /\ ~wr_waitrequest

send_irq_data == irq_pending # {} /\ burst_counter = 0 /\ ~wr_waitrequest

load_burst_counter   == burst_counter = 0 /\ wr_write /\ ~send_irq_data
enable_burst_counter == burst_counter # 0 /\ wr_write /\ ~wr_waitrequest

\* The mux answers the DMA: its beat is taken unless an interrupt goes first.
Accepted == wr_write /\ ~wr_waitrequest /\ ~send_irq_data

\* Mutant: a beat is not counted.
CountsOnlyLoads ==
  IF load_burst_counter THEN wr_burstcount - 1 ELSE burst_counter

next_burst_counter ==
  IF load_burst_counter THEN wr_burstcount - 1
  ELSE IF enable_burst_counter THEN burst_counter - 1
  ELSE burst_counter

rising == asp_irq \ asp_irq_d

\* The flag that is cleared because its interrupt is sent.
clear_irq_pending == IF send_irq_data THEN {pending_irq_id} ELSE {}

(***************************************************************************)
(* Inputs of the next clock.  The DMA holds a beat it offers until it is   *)
(* taken, and its pipeline bridge may pause between two beats.             *)
(***************************************************************************)
DmaHolds ==
  /\ wr_write /\ ~Accepted
  /\ stalled' = (stalled \/ (left = burst /\ wr_waitrequest))
  /\ UNCHANGED dma

DmaNext ==
  /\ ~(wr_write /\ ~Accepted)
  /\ LET rest == IF Accepted THEN left - 1 ELSE left
     IN  IF rest > 0
         THEN /\ left' = rest /\ wr_write' \in BOOLEAN
              /\ UNCHANGED <<burst, stalled>>
         ELSE /\ stalled' = FALSE
              /\ \/ burst' \in BurstCounts /\ left' = burst' /\ wr_write' = TRUE
                 \/ burst' = 0 /\ left' = 0 /\ wr_write' = FALSE

\* The host may stall any beat.
HostStalls == wr_waitrequest' \in BOOLEAN

Clock ==
  /\ asp_irq' \in SUBSET Lines
  /\ asp_irq_d' = asp_irq
  /\ irq_pending' = (irq_pending \ clear_irq_pending) \cup rising
  /\ burst_counter' = next_burst_counter
  /\ sent' = clear_irq_pending
  /\ DmaHolds \/ DmaNext
  /\ HostStalls

Next == Clock

Spec == Init /\ [][Next]_vars

(***************************************************************************)
(* The clock runs, the host does not stall for ever, and the DMA, which    *)
(* begins a burst only when it has all its data, does not pause for ever.  *)
(***************************************************************************)
FairSpec ==
  /\ Spec
  /\ WF_vars(Clock)
  /\ WF_vars(Clock /\ ~wr_waitrequest')
  /\ WF_vars(Clock /\ (left' > 0 => wr_write'))
-----------------------------------------------------------------------------
(***************************************************************************)
(* Types; and the counter never promises more beats than the burst has.    *)
(***************************************************************************)
TypeOK ==
  /\ asp_irq \in SUBSET Lines /\ asp_irq_d \in SUBSET Lines /\ irq_pending \in SUBSET Lines
  /\ burst \in BurstCounts \cup {0}
  /\ left \in 0 .. burst
  /\ wr_write \in BOOLEAN /\ wr_waitrequest \in BOOLEAN
  /\ burst_counter \in Nat /\ burst_counter <= left
  /\ sent \in SUBSET Lines
  /\ stalled \in BOOLEAN

(***************************************************************************)
(* No interrupt is sent in the middle of a burst.  This is what the        *)
(* comment on burst_counter says.  It does not hold: the counter is loaded *)
(* whether or not the first beat is taken, and when that beat is stalled   *)
(* it is counted twice.                                                    *)
(***************************************************************************)
IrqBetweenBursts == sent # {} => left \in {0, burst}

(***************************************************************************)
(* What the counter does guarantee under any stalls: an interrupt goes     *)
(* between bursts, or before the last beat of a burst whose first beat the *)
(* host stalled.  The count is never off by more than that one beat, and   *)
(* the error of one burst is not carried over to the next.                 *)
(***************************************************************************)
IrqAtMostOneBeatEarly ==
  sent # {} => left \in {0, burst} \/ (left = 1 /\ stalled)

(***************************************************************************)
(* An interrupt is not forgotten nor held back for ever: it is sent, or    *)
(* one of higher priority is.                                              *)
(***************************************************************************)
IrqsNotStuck ==
  \A i \in Lines : i \in irq_pending ~> \E j \in sent : j <= i
=============================================================================
