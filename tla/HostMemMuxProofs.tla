-------------------------- MODULE HostMemMuxProofs --------------------------
(***************************************************************************)
(* What burst_counter guarantees, for every set of lines and of burst      *)
(* lengths, whatever the host stalls: an interrupt goes between two bursts *)
(* or one beat before the end of a burst whose first beat was stalled.     *)
(***************************************************************************)
EXTENDS HostMemMux, WellFoundedInduction, TLAPS

\* What the DMA offers.
DmaInv ==
  /\ burst \in Nat /\ left \in Nat /\ left <= burst
  /\ wr_write => left > 0
  /\ stalled \/ burst > 0 => left > 0

(***************************************************************************)
(* The counter is 0 until a burst begins, and then the beats to come; a    *)
(* first beat that is stalled is counted once too often.                   *)
(***************************************************************************)
CounterInv ==
  burst_counter = IF left = burst
                  THEN IF stalled THEN burst - 1 ELSE 0
                  ELSE IF stalled THEN left - 1 ELSE left

IInv == DmaInv /\ CounterInv /\ IrqAtMostOneBeatEarly

\* The DMA keeps to its rules whatever the mux does.
LEMMA DmaStep ==
  ASSUME DmaInv, Clock
  PROVE  DmaInv'
<1> USE BurstsAssumption DEF DmaInv, dma
<1>1. CASE DmaHolds
  <2>1. left' = left /\ burst' = burst /\ wr_write' = wr_write
    BY <1>1 DEF DmaHolds
  <2>2. wr_write /\ left > 0
    BY <1>1 DEF DmaHolds
  <2> QED BY <2>1, <2>2
<1>2. CASE DmaNext
  <2> DEFINE rest == IF Accepted THEN left - 1 ELSE left
  <2>1. rest \in Nat /\ rest <= burst
    BY DEF Accepted
  <2>2. CASE rest > 0
    <3>1. left' = rest /\ burst' = burst /\ (stalled' <=> stalled)
      BY <1>2, <2>2 DEF DmaNext
    <3> QED BY <2>1, <2>2, <3>1
  <2>3. CASE ~(rest > 0)
    <3>1. /\ ~stalled'
          /\ \/ burst' \in BurstCounts /\ left' = burst'
             \/ burst' = 0 /\ left' = 0 /\ ~wr_write'
      BY <1>2, <2>3 DEF DmaNext
    <3>2. \A n \in BurstCounts : n \in Nat /\ n > 0
      OBVIOUS
    <3>3. CASE burst' \in BurstCounts /\ left' = burst'
      BY <3>1, <3>2, <3>3
    <3>4. CASE burst' = 0 /\ left' = 0 /\ ~wr_write'
      BY <3>1, <3>4
    <3> QED BY <3>1, <3>3, <3>4
  <2> QED BY <2>2, <2>3
<1> QED BY <1>1, <1>2 DEF Clock

\* A beat that is taken moves the counter and the burst together.
LEMMA AcceptedStep ==
  ASSUME DmaInv, CounterInv, Accepted, Clock
  PROVE  CounterInv'
<1> USE BurstsAssumption DEF DmaInv, CounterInv
<1>1. wr_write /\ ~wr_waitrequest /\ ~send_irq_data /\ left > 0
  BY DEF Accepted
<1>2. \/ left - 1 > 0 /\ left' = left - 1 /\ burst' = burst /\ (stalled' <=> stalled)
      \/ left - 1 = 0 /\ left' = burst' /\ ~stalled'
  BY <1>1 DEF Clock, DmaHolds, DmaNext
<1>3. burst_counter' = IF burst_counter = 0 THEN left - 1 ELSE burst_counter - 1
  BY <1>1 DEF Clock, next_burst_counter, load_burst_counter, enable_burst_counter, wr_burstcount
<1>4. left <= burst /\ left - 1 # burst
  BY <1>1
<1>5. CASE left = burst
  BY <1>1, <1>2, <1>3, <1>4, <1>5
<1>6. CASE left # burst
  BY <1>1, <1>2, <1>3, <1>4, <1>6
<1> QED BY <1>5, <1>6

\* Otherwise the burst stays where it is, or a new one comes; only the first
\* beat of a burst can be counted without being taken.
LEMMA IdleStep ==
  ASSUME DmaInv, CounterInv, ~Accepted, Clock
  PROVE  CounterInv' /\ IrqAtMostOneBeatEarly'
<1> USE BurstsAssumption DEF DmaInv, CounterInv
<1>1. ~enable_burst_counter
  BY DEF Accepted, enable_burst_counter, send_irq_data
<1>2. burst_counter' = IF load_burst_counter THEN left - 1 ELSE burst_counter
  BY <1>1 DEF Clock, next_burst_counter, wr_burstcount
<1>3. load_burst_counter => wr_write /\ burst_counter = 0 /\ wr_waitrequest
  BY DEF Accepted, load_burst_counter
<1>4. sent' # {} => burst_counter = 0 /\ ~wr_waitrequest
  BY DEF Clock, clear_irq_pending, send_irq_data
<1>5. CASE wr_write
  <2>1. left' = left /\ burst' = burst /\ left > 0
    BY <1>5 DEF Clock, DmaHolds, DmaNext, dma
  <2>2. stalled' <=> (stalled \/ (left = burst /\ wr_waitrequest))
    BY <1>5 DEF Clock, DmaHolds, DmaNext
  <2>3. wr_waitrequest /\ burst_counter = 0 => load_burst_counter
    BY <1>5 DEF load_burst_counter, send_irq_data
  <2>4. CounterInv'
    <3>1. CASE left = burst
      BY <1>2, <1>3, <2>1, <2>2, <2>3, <3>1
    <3>2. CASE left # burst
      BY <1>2, <1>3, <2>1, <2>2, <3>2
    <3> QED BY <3>1, <3>2
  <2>5. IrqAtMostOneBeatEarly'
    BY <1>4, <2>1, <2>2 DEF IrqAtMostOneBeatEarly
  <2> QED BY <2>4, <2>5
<1>6. CASE ~wr_write
  <2>1. burst_counter' = burst_counter
    BY <1>2, <1>3, <1>6
  <2>2. \/ left > 0 /\ left' = left /\ burst' = burst /\ (stalled' <=> stalled)
        \/ left = 0 /\ left' = burst' /\ ~stalled'
    BY <1>6 DEF Clock, DmaHolds, DmaNext, Accepted
  <2> QED BY <1>4, <2>1, <2>2 DEF IrqAtMostOneBeatEarly
<1> QED BY <1>5, <1>6

\* The strengthened invariant holds in every reachable state.
THEOREM MuxInvariance == Spec => []IInv
<1>1. Init => IInv
  BY DEF Init, IInv, DmaInv, CounterInv, IrqAtMostOneBeatEarly
<1>2. IInv /\ [Next]_vars => IInv'
  <2>1. ASSUME IInv, UNCHANGED vars PROVE IInv'
    BY <2>1 DEF vars, irqs, dma, IInv, DmaInv, CounterInv, IrqAtMostOneBeatEarly
  <2>2. ASSUME IInv, Clock PROVE IInv'
    <3>1. DmaInv'
      BY <2>2, DmaStep DEF IInv
    <3>2. CASE Accepted
      <4>1. IrqAtMostOneBeatEarly'
        BY <2>2, <3>2 DEF Accepted, Clock, clear_irq_pending, IrqAtMostOneBeatEarly
      <4> QED BY <2>2, <3>1, <3>2, <4>1, AcceptedStep DEF IInv
    <3>3. CASE ~Accepted
      BY <2>2, <3>1, <3>3, IdleStep DEF IInv
    <3> QED BY <3>2, <3>3
  <2> QED BY <2>1, <2>2 DEF Next
<1> QED BY <1>1, <1>2, PTL DEF Spec

\* An interrupt goes between two bursts, or before the last beat of a burst
\* whose first beat was stalled, whatever the host stalls.
THEOREM IrqsBetweenBursts == Spec => []IrqAtMostOneBeatEarly
<1>1. IInv => IrqAtMostOneBeatEarly
  BY DEF IInv
<1> QED BY <1>1, MuxInvariance, PTL

\* Among the pending lines there is a lowest one.
LEMMA LowestPending ==
  ASSUME irq_pending \in SUBSET Nat, irq_pending # {}
  PROVE  \E i \in irq_pending : \A j \in irq_pending : i <= j
<1>1. PICK i \in irq_pending : \A j \in irq_pending : ~(<<j, i>> \in OpToRel(<, Nat))
  BY NatLessThanWellFounded, WFMin
<1>2. ASSUME NEW j \in irq_pending, ~(i <= j) PROVE FALSE
  <2>1. <<j, i>> \in Nat \X Nat /\ j < i
    BY <1>2
  <2>2. <<j, i>>[1] < <<j, i>>[2]
    BY <2>1
  <2>3. <<j, i>> \in OpToRel(<, Nat)
    BY <2>1, <2>2, Zenon DEF OpToRel
  <2> QED BY <1>1, <1>2, <2>3
<1> QED BY <1>2

\* The line that is sent is the lowest of those that are pending.
LEMMA SentIsPending ==
  ASSUME irq_pending \subseteq Lines
  PROVE  /\ clear_irq_pending \subseteq irq_pending
         /\ send_irq_data =>
              \A i \in irq_pending : \E j \in clear_irq_pending : j <= i
<1>1. CASE ~send_irq_data
  BY <1>1 DEF clear_irq_pending
<1>2. CASE send_irq_data
  <2>1. irq_pending \in SUBSET Nat /\ irq_pending # {}
    BY <1>2, LinesAssumption DEF send_irq_data
  <2>2. PICK i \in irq_pending : \A j \in irq_pending : i <= j
    BY <2>1, LowestPending
  <2>3. pending_irq_id \in irq_pending /\ \A j \in irq_pending : pending_irq_id <= j
    BY <2>2 DEF pending_irq_id
  <2> QED BY <1>2, <2>3 DEF clear_irq_pending
<1> QED BY <1>1, <1>2

\* The sets of lines.
LinesType ==
  /\ asp_irq \subseteq Lines /\ asp_irq_d \subseteq Lines
  /\ irq_pending \subseteq Lines /\ sent \subseteq Lines

\* The bursts and the levels of the channel.
ChannelType ==
  /\ burst \in BurstCounts \cup {0}
  /\ wr_write \in BOOLEAN /\ wr_waitrequest \in BOOLEAN /\ stalled \in BOOLEAN

\* The registers have their types, and the counter never promises more beats
\* than the burst has, for any lines and burst lengths.
THEOREM MuxTypes == Spec => []TypeOK
<1>1. Init => LinesType /\ ChannelType
  BY DEF Init, LinesType, ChannelType
<1>2. LinesType /\ ChannelType /\ [Next]_vars => (LinesType /\ ChannelType)'
  <2>1. ASSUME LinesType, ChannelType, UNCHANGED vars
        PROVE  (LinesType /\ ChannelType)'
    BY <2>1 DEF vars, irqs, dma, LinesType, ChannelType
  <2>2. ASSUME LinesType, ChannelType, Clock
        PROVE  (LinesType /\ ChannelType)'
    <3>1. clear_irq_pending \subseteq Lines
      BY <2>2, SentIsPending DEF LinesType
    <3>2. LinesType'
      BY <2>2, <3>1 DEF Clock, LinesType, rising
    <3>3. burst' \in BurstCounts \cup {0} /\ wr_write' \in BOOLEAN
      BY <2>2 DEF Clock, DmaHolds, DmaNext, dma, ChannelType
    <3>4. wr_waitrequest' \in BOOLEAN
      BY <2>2 DEF Clock, HostStalls
    <3>5. stalled' \in BOOLEAN
      BY <2>2 DEF Clock, DmaHolds, DmaNext, ChannelType
    <3> QED BY <3>2, <3>3, <3>4, <3>5 DEF ChannelType
  <2> QED BY <2>1, <2>2 DEF Next
<1>3. IInv /\ LinesType /\ ChannelType => TypeOK
  <2> SUFFICES ASSUME IInv, LinesType, ChannelType PROVE TypeOK
    OBVIOUS
  <2>1. burst \in Nat /\ left \in 0 .. burst
    BY DEF IInv, DmaInv
  <2>2. burst_counter \in Nat /\ burst_counter <= left
    BY <2>1 DEF IInv, DmaInv, CounterInv
  <2> QED BY <2>1, <2>2 DEF TypeOK, LinesType, ChannelType
<1> QED BY <1>1, <1>2, <1>3, MuxInvariance, PTL DEF Spec

-----------------------------------------------------------------------------
(***************************************************************************)
(* What keeps an interrupt waiting: the beats to come of a burst that has  *)
(* begun, a stall, or the DMA pausing within the burst.  The host can make *)
(* the counter grow once in a burst, by stalling the first beat.           *)
(***************************************************************************)
IrqProgress ==
  \A i \in irq_pending :
    \/ \E j \in sent' : j <= i
    \/ /\ i \in irq_pending'
       /\ \/ ~stalled /\ stalled'
          \/ /\ stalled => stalled'
             /\ burst_counter' < burst_counter
          \/ /\ (stalled' <=> stalled) /\ burst_counter' = burst_counter
             /\ wr_waitrequest \/ (burst_counter # 0 /\ ~wr_write)

LEMMA ProgressStep ==
  ASSUME IInv, TypeOK, Clock
  PROVE  IrqProgress
<1> USE BurstsAssumption DEF DmaInv, CounterInv, IInv
<1> SUFFICES ASSUME NEW i \in irq_pending, ~ \E j \in sent' : j <= i
             PROVE  /\ i \in irq_pending'
                    /\ \/ ~stalled /\ stalled'
                       \/ /\ stalled => stalled'
                          /\ burst_counter' < burst_counter
                       \/ /\ (stalled' <=> stalled) /\ burst_counter' = burst_counter
                          /\ wr_waitrequest \/ (burst_counter # 0 /\ ~wr_write)
  BY DEF IrqProgress
<1>1. ~send_irq_data
  BY SentIsPending DEF Clock, TypeOK
<1>2. i \in irq_pending'
  BY <1>1 DEF Clock, clear_irq_pending
<1>3. burst_counter # 0 \/ wr_waitrequest
  BY <1>1 DEF send_irq_data
<1>4. burst_counter \in Nat
  BY DEF TypeOK
<1>5. CASE Accepted
  <2>1. wr_write /\ ~wr_waitrequest /\ burst_counter # 0
    BY <1>3, <1>5 DEF Accepted
  <2>2. burst_counter' = burst_counter - 1
    BY <2>1 DEF Clock, next_burst_counter, load_burst_counter, enable_burst_counter
  <2>3. stalled => stalled'
    <3>1. stalled => left > 1
      BY <2>1, <1>4
    <3>2. left - 1 > 0 => (stalled' <=> stalled)
      BY <1>5 DEF Clock, DmaHolds, DmaNext
    <3> QED BY <3>1, <3>2
  <2> QED BY <1>2, <1>4, <2>2, <2>3
<1>6. CASE ~Accepted /\ wr_write
  <2>1. wr_waitrequest
    BY <1>1, <1>6 DEF Accepted
  <2>2. stalled' <=> (stalled \/ left = burst)
    BY <1>6, <2>1 DEF Clock, DmaHolds, DmaNext
  <2>3. burst_counter' = IF burst_counter = 0 THEN left - 1 ELSE burst_counter
    BY <1>1, <1>6, <2>1 DEF Clock, next_burst_counter, load_burst_counter,
                           enable_burst_counter, wr_burstcount
  <2>4. (stalled' <=> stalled) => burst_counter' = burst_counter
    BY <1>6, <2>2, <2>3
  <2> QED BY <1>2, <2>1, <2>2, <2>4
<1>7. CASE ~wr_write
  <2>1. burst_counter' = burst_counter
    BY <1>7 DEF Clock, next_burst_counter, load_burst_counter, enable_burst_counter
  <2>2. left > 0 => (stalled' <=> stalled)
    BY <1>7 DEF Clock, DmaHolds, DmaNext, Accepted
  <2>3. left = 0 => ~stalled /\ ~stalled'
    BY <1>7 DEF Clock, DmaHolds, DmaNext, Accepted
  <2>4. (stalled' <=> stalled)
    BY <2>2, <2>3
  <2> QED BY <1>2, <1>3, <1>7, <2>1, <2>4
<1> QED BY <1>5, <1>6, <1>7

(***************************************************************************)
(* The part of IrqsNotStuck that is about steps: with every clock a        *)
(* pending interrupt, or one of higher priority, is sent, or the burst     *)
(* that is being written comes nearer to its end, unless the host stalls   *)
(* or the DMA pauses within its burst.  No new burst overtakes it, and it  *)
(* is not forgotten.                                                       *)
(***************************************************************************)
THEOREM IrqsApproached == Spec => [][IrqProgress]_vars
<1>1. IInv /\ TypeOK /\ [Next]_vars => [IrqProgress]_vars
  BY ProgressStep DEF Next
<1> QED BY <1>1, MuxInvariance, MuxTypes, PTL DEF Spec
=============================================================================
