-------------------------------- MODULE WrAck --------------------------------
(***************************************************************************)
(* Write acknowledgements of one memory bank (avmm_wr_ack_gen.sv with its  *)
(* avmm_wr_ack_tracker.sv and avmm_wr_ack_burst_to_word.sv).               *)
(* A kernel expects one acknowledgement per word it writes; the memory     *)
(* controller answers once per burst, and also answers the bursts that the *)
(* DMA engine writes through the same port.  The tracker remembers the     *)
(* bursts of the kernel and those that arrive at the memory, and takes an  *)
(* answer for the kernel's when the two heads have the same address.       *)
(*                                                                         *)
(* One action is one clock of the domain it belongs to; the two clocks are *)
(* unrelated.  The kernel, the interconnect that merges it with the DMA,   *)
(* and the memory controller are outside the repository's RTL: they follow *)
(* the Avalon rules (a burst is not interrupted by another).               *)
(*                                                                         *)
(* The RTL looks at no FIFO's notFull (avmm_wr_ack_tracker.sv:146), at no  *)
(* overflow of its counter of words, and at nothing but addresses.  So it  *)
(* relies on its users for three things, which nothing in the repository   *)
(* states: Room, WordsFit and the two sets of addresses below.  Each is    *)
(* about what is outstanding at one time; the traffic is unlimited but for *)
(* MaxKernelBursts, which is a bound for TLC.                              *)
(***************************************************************************)
EXTENDS Naturals, Sequences

CONSTANTS
  Addresses,         \* start addresses of bursts
  BurstCounts,       \* lengths of bursts
  MaxKernelBursts,   \* bound on the traffic
  FifoDepth,         \* of the three FIFOs
  CounterRange       \* 2^10: values of per_word_ack_counter

ASSUME SizesAssumption ==
  /\ BurstCounts \subseteq Nat \ {0}
  /\ MaxKernelBursts \in Nat
  /\ FifoDepth \in Nat
  /\ CounterRange \in Nat \ {0}

VARIABLES
  kernel, path,                    \* beats the kernel still has to send; beats on their way
  memory,                          \* burst being received by the memory controller
  responses,                       \* bursts it has received and not answered
  we_cs, kernel_burstcntr,         \* write-event state machine on the kernel's port
  lwe_cs, emif_burstcntr,          \* the same on the port of the memory
  kernel_wr_event, emif_wr_event,  \* the event FIFOs
  write_ack,                       \* the number of entries of the answer FIFO
  wr_ack, wr_ack_burstcnt,         \* registers of the tracker
  ack_in_d, burstcnt_d,            \* registers of the multiplier
  per_word_ack_counter,
  sent, committed, acked,          \* words sent by the kernel, in memory, acknowledged
  bursts                           \* bursts begun by the kernel; of the DMA engine, outstanding

traffic  == <<kernel, path, memory, responses, bursts>>
events   == <<kernel_wr_event, emif_wr_event, write_ack>>
kernelSM == <<we_cs, kernel_burstcntr>>
emifSM   == <<lwe_cs, emif_burstcntr>>
tracker  == <<wr_ack, wr_ack_burstcnt>>
multiply == <<ack_in_d, burstcnt_d, per_word_ack_counter>>
words    == <<sent, committed, acked>>
vars == <<traffic, events, kernelSM, emifSM, tracker, multiply, words>>

Bursts(src) == [src : {src}, address : Addresses, burstcnt : BurstCounts]
Beats(b, n) == [burst |-> b, left |-> n]
NoBeats == Beats([src |-> "none", address |-> 0, burstcnt |-> 0], 0)

Init ==
  /\ kernel = NoBeats
  /\ path = <<>>
  /\ memory = NoBeats
  /\ responses = <<>>
  /\ bursts = [kernel |-> 0, dma |-> 0]
  /\ kernel_wr_event = <<>>
  /\ emif_wr_event = <<>>
  /\ write_ack = 0
  /\ we_cs = "IDLE" /\ lwe_cs = "IDLE"
  /\ kernel_burstcntr = 0 /\ emif_burstcntr = 0
  /\ wr_ack = FALSE /\ wr_ack_burstcnt = 0
  /\ ack_in_d = FALSE /\ burstcnt_d = 0
  /\ per_word_ack_counter = 0
  /\ sent = 0 /\ committed = 0 /\ acked = 0

-----------------------------------------------------------------------------
(***************************************************************************)
(* The write-event state machine, for a valid beat of a burst: only the    *)
(* first beat makes an event.                                              *)
(***************************************************************************)
\* Mutant: the burst is taken to have one beat more.
LateIdle(cs, burstcnt, burstcntr) ==
  IF cs = "IDLE" THEN (IF burstcnt > 1 THEN "BURST" ELSE "IDLE")
                 ELSE (IF burstcntr = 0 THEN "IDLE" ELSE "BURST")

we_ns(cs, burstcnt, burstcntr) ==
  IF cs = "IDLE" THEN (IF burstcnt > 1 THEN "BURST" ELSE "IDLE")
                 ELSE (IF burstcntr = 1 THEN "IDLE" ELSE "BURST")

\* burstcntr - 1 wraps in the register; 0 is only left by a new burst.
burstcntr_ns(cs, burstcnt, burstcntr) ==
  IF cs = "IDLE" THEN burstcnt - 1 ELSE IF burstcntr = 0 THEN 0 ELSE burstcntr - 1

\* A FIFO drops what does not fit: notFull is not looked at.
Enqueue(fifo, e) == IF Len(fifo) < FifoDepth THEN Append(fifo, e) ELSE fifo

\* Mutant: every beat makes an event.
OnEveryBeat(cs, fifo, e) == Enqueue(fifo, e)

OnFirstBeat(cs, fifo, e) == IF cs = "IDLE" THEN Enqueue(fifo, e) ELSE fifo

(***************************************************************************)
(* What the users have to respect.  A burst is outstanding until its       *)
(* answer has been popped; the kernel and the host do not write the same   *)
(* place at the same time.                                                 *)
(***************************************************************************)
Room == Len(kernel_wr_event) + bursts.dma < FifoDepth

WordsFit(b) == sent + b.burstcnt < acked + CounterRange

KernelWrites == {kernel_wr_event[i].address : i \in 1 .. Len(kernel_wr_event)}
DmaWrites ==
  {emif_wr_event[i].address : i \in {j \in 1 .. Len(emif_wr_event) : emif_wr_event[j].src = "dma"}}

\* The kernel sends a beat; its port does not stall it.
KernelBeat ==
  /\ \/ /\ kernel.left = 0
        /\ bursts.kernel < MaxKernelBursts
        /\ Room
        /\ bursts' = [bursts EXCEPT !.kernel = @ + 1]
        /\ \E b \in Bursts("kernel") : /\ WordsFit(b)
                                      /\ b.address \notin DmaWrites
                                      /\ kernel' = Beats(b, b.burstcnt - 1)
     \/ /\ kernel.left > 0
        /\ kernel' = [kernel EXCEPT !.left = @ - 1]
        /\ UNCHANGED bursts
  /\ LET b == kernel'.burst
     IN  /\ path' = Append(path, b)
         /\ kernel_wr_event' = OnFirstBeat(we_cs, kernel_wr_event, b)
         /\ we_cs' = we_ns(we_cs, b.burstcnt, kernel_burstcntr)
         /\ kernel_burstcntr' = burstcntr_ns(we_cs, b.burstcnt, kernel_burstcntr)
  /\ sent' = sent + 1
  /\ UNCHANGED <<memory, responses, emif_wr_event, write_ack, emifSM, tracker, multiply,
                 committed, acked>>

\* The next beat is the kernel's or the DMA engine's, but bursts do not mix.
NextBeat ==
  \/ /\ memory.left = 0
     /\ path # <<>>
     /\ path' = Tail(path)
     /\ memory' = Beats(Head(path), Head(path).burstcnt - 1)
     /\ UNCHANGED bursts
  \/ /\ memory.left = 0
     /\ Room
     /\ bursts' = [bursts EXCEPT !.dma = @ + 1]
     /\ \E b \in Bursts("dma") : /\ b.address \notin KernelWrites
                                /\ memory' = Beats(b, b.burstcnt - 1)
     /\ UNCHANGED path
  \/ /\ memory.left > 0
     /\ IF memory.burst.src = "kernel" THEN path # <<>> /\ path' = Tail(path)
                                       ELSE UNCHANGED path
     /\ memory' = [memory EXCEPT !.left = @ - 1]
     /\ UNCHANGED bursts

EmifBeat ==
  /\ NextBeat
  /\ LET b == memory'.burst
     IN  /\ responses' = IF memory'.left = 0 THEN Append(responses, b) ELSE responses
         /\ emif_wr_event' = OnFirstBeat(lwe_cs, emif_wr_event, b)
         /\ lwe_cs' = we_ns(lwe_cs, b.burstcnt, emif_burstcntr)
         /\ emif_burstcntr' = burstcntr_ns(lwe_cs, b.burstcnt, emif_burstcntr)
  /\ UNCHANGED <<kernel, kernel_wr_event, write_ack, kernelSM, tracker, multiply, words>>

\* The memory controller answers its bursts in order.
EmifResponse ==
  /\ responses # <<>>
  /\ responses' = Tail(responses)
  /\ write_ack' = IF write_ack < FifoDepth THEN write_ack + 1 ELSE write_ack
  /\ committed' = committed + (IF Head(responses).src = "kernel" THEN Head(responses).burstcnt ELSE 0)
  /\ UNCHANGED <<kernel, path, memory, bursts, kernel_wr_event, emif_wr_event, kernelSM, emifSM,
                 tracker, multiply, sent, acked>>

-----------------------------------------------------------------------------
\* Mutant: every answer is taken for the kernel's.
AnyAddress == kernel_wr_event # <<>>

SameAddress ==
  /\ kernel_wr_event # <<>>
  /\ Head(kernel_wr_event).address = Head(emif_wr_event).address

per_word_write_ack_out == per_word_ack_counter # 0

\* Mutant: a burst that arrives while words are being acknowledged replaces them.
ForgetsWordsLeft ==
  IF ack_in_d THEN burstcnt_d
  ELSE IF per_word_ack_counter # 0 THEN per_word_ack_counter - 1 ELSE 0

next_ack_counter ==
  IF ack_in_d /\ per_word_ack_counter = 0 THEN burstcnt_d % CounterRange
  ELSE IF ack_in_d THEN (per_word_ack_counter + burstcnt_d - 1) % CounterRange
  ELSE IF per_word_write_ack_out THEN per_word_ack_counter - 1
  ELSE per_word_ack_counter

\* Pop an answer and its event, and hand a burst of the kernel to the multiplier.
KernelClock ==
  LET answer == write_ack > 0
      event  == answer /\ emif_wr_event # <<>>
      match  == event /\ SameAddress
  IN /\ write_ack' = IF answer THEN write_ack - 1 ELSE write_ack
     /\ emif_wr_event' = IF event THEN Tail(emif_wr_event) ELSE emif_wr_event
     /\ kernel_wr_event' = IF match THEN Tail(kernel_wr_event) ELSE kernel_wr_event
     /\ bursts' = IF event /\ Head(emif_wr_event).src = "dma" THEN [bursts EXCEPT !.dma = @ - 1]
                                                              ELSE bursts
     /\ wr_ack' = match
     /\ wr_ack_burstcnt' = IF match THEN Head(emif_wr_event).burstcnt ELSE wr_ack_burstcnt
     /\ ack_in_d' = wr_ack
     /\ burstcnt_d' = wr_ack_burstcnt
     /\ per_word_ack_counter' = next_ack_counter
     /\ acked' = acked + (IF per_word_write_ack_out THEN 1 ELSE 0)
     /\ UNCHANGED <<kernel, path, memory, responses, kernelSM, emifSM, sent, committed>>

Next == KernelBeat \/ EmifBeat \/ EmifResponse \/ KernelClock

Spec == Init /\ [][Next]_vars

(***************************************************************************)
(* The clocks run, a kernel finishes a burst it has begun, the memory      *)
(* controller accepts what is offered and answers, and the interconnect    *)
(* does not prefer the DMA engine for ever.                                *)
(***************************************************************************)
FairSpec ==
  /\ Spec
  /\ WF_vars(KernelBeat /\ kernel.left > 0)
  /\ WF_vars(EmifBeat)
  /\ SF_vars(EmifBeat /\ Len(path') < Len(path))
  /\ WF_vars(EmifResponse)
  /\ WF_vars(KernelClock)
-----------------------------------------------------------------------------
(***************************************************************************)
(* Types; within a burst there are beats to come, the FIFOs and the        *)
(* counter of words stay within their sizes.                               *)
(***************************************************************************)
TypeOK ==
  /\ we_cs \in {"IDLE", "BURST"} /\ lwe_cs \in {"IDLE", "BURST"}
  /\ kernel_burstcntr \in Nat /\ emif_burstcntr \in Nat
  /\ kernel_wr_event \in Seq(Bursts("kernel"))
  /\ emif_wr_event \in Seq(Bursts("kernel") \cup Bursts("dma"))
  /\ we_cs = "BURST" => kernel_burstcntr > 0
  /\ lwe_cs = "BURST" => emif_burstcntr > 0
  /\ Len(kernel_wr_event) <= FifoDepth /\ Len(emif_wr_event) <= FifoDepth
  /\ write_ack \in 0 .. FifoDepth
  /\ wr_ack \in BOOLEAN /\ wr_ack_burstcnt \in Nat
  /\ ack_in_d \in BOOLEAN /\ burstcnt_d \in Nat
  /\ per_word_ack_counter \in 0 .. CounterRange - 1
  /\ sent \in Nat /\ committed \in Nat /\ acked \in Nat
  /\ bursts \in [kernel : Nat, dma : Nat]

(***************************************************************************)
(* No word is acknowledged before it is in memory: a kernel relies on it   *)
(* to order its reads, and the host its own, after the writes.             *)
(***************************************************************************)
NeverEarly == acked <= committed

(***************************************************************************)
(* Nothing is lost or invented: when everything the kernel sent has been   *)
(* answered and worked off, it has been acknowledged exactly once per      *)
(* word, however its bursts were mixed with the DMA engine's.              *)
(***************************************************************************)
AckedExactly ==
  /\ kernel.left = 0 /\ path = <<>> /\ memory.left = 0 /\ responses = <<>>
  /\ write_ack = 0 /\ ~wr_ack /\ ~ack_in_d /\ per_word_ack_counter = 0
  => acked = sent

(***************************************************************************)
(* Every event is of a burst whose answer is still to come or to be read,  *)
(* and every such burst has its event, so an answer never meets an empty   *)
(* event FIFO: the two FIFOs cannot get out of step.                       *)
(***************************************************************************)
EventsInStep ==
  Len(emif_wr_event) = write_ack + Len(responses) + (IF memory.left > 0 THEN 1 ELSE 0)
=============================================================================
