----------------------------- MODULE WrAckProofs -----------------------------
(***************************************************************************)
(* Proofs about WrAck: for any addresses, burst lengths, FIFO depth and    *)
(* counter, however many bursts there are, a word is acknowledged once,    *)
(* and not before it is in memory.                                         *)
(*                                                                         *)
(* The registers of the design do not say which word is where: events that *)
(* have been matched are gone.  The invariant therefore speaks of the      *)
(* bursts of the kernel by their number: there are a list B of all bursts  *)
(* it has begun, with C[i] words in the first i of them, of which the      *)
(* first p have been matched, and for each event of the memory's port the  *)
(* number r[j] of the kernel's last burst up to it.                        *)
(***************************************************************************)
EXTENDS WrAck, TLAPS

KernelBursts == Bursts("kernel")
DmaBursts == Bursts("dma")
MemoryBursts == KernelBursts \cup DmaBursts
AnyBurst == MemoryBursts \cup {NoBeats.burst}

n == bursts.kernel
events_in == Len(emif_wr_event)

Types ==
  /\ TypeOK
  /\ kernel \in [burst : AnyBurst, left : Nat]
  /\ memory \in [burst : AnyBurst, left : Nat]
  /\ path \in Seq(KernelBursts)
  /\ responses \in Seq(MemoryBursts)

(***************************************************************************)
(* The bursts begun by the kernel and their words.                         *)
(***************************************************************************)
Numbered(B, C) ==
  /\ B \in [Nat -> AnyBurst] /\ C \in [Nat -> Nat]
  /\ C[0] = 0
  /\ \A i \in 1 .. n : B[i] \in KernelBursts /\ C[i] = C[i - 1] + B[i].burstcnt
  /\ \A i, j \in 0 .. n : i <= j => C[i] <= C[j]

\* The kernel's port is inside burst n, or between bursts.
KernelPort(B, C) ==
  /\ we_cs = "BURST" <=> kernel.left > 0
  /\ kernel.left > 0 => /\ n >= 1
                        /\ kernel.burst = B[n]
                        /\ kernel.left < B[n].burstcnt
                        /\ kernel_burstcntr = kernel.left
  /\ sent = C[n] - kernel.left

\* Words the memory has taken from the kernel, whose last burst was number s.
Taken(C, s) ==
  C[s] - (IF memory.left > 0 /\ memory.burst.src = "kernel" THEN memory.left ELSE 0)

\* Words behind the first t, each with its burst, which is one of the first k.
Carries(P, t, B, C, k) ==
  \A j \in 1 .. Len(P) : \A i \in 1 .. k :
    C[i - 1] < t + j /\ t + j <= C[i] => P[j] = B[i]

\* The path holds the words sent and not taken.
OnPath(B, C, s) ==
  /\ Taken(C, s) \in Nat
  /\ sent = Taken(C, s) + Len(path)
  /\ Carries(path, Taken(C, s), B, C, n)

\* The events of the kernel that are not matched yet.
KernelEvents(B, p) ==
  /\ p \in 0 .. n
  /\ Len(kernel_wr_event) = n - p
  /\ \A i \in 1 .. n - p : kernel_wr_event[i] = B[p + i]

\* Events behind burst p of the kernel, with the number of its last burst.
Ranked(F, B, r, p, e) ==
  /\ r[0] = p
  /\ \A i \in 1 .. e :
       /\ F[i].src = "kernel" => r[i] = r[i - 1] + 1 /\ B[r[i]] = F[i]
       /\ F[i].src # "kernel" => r[i] = r[i - 1]
  /\ \A i, j \in 0 .. e : i <= j => r[i] <= r[j] /\ r[j] + i <= r[i] + j

\* The events of the memory's port.
EmifEvents(B, r, p) ==
  /\ Ranked(emif_wr_event, B, r, p, events_in)
  /\ r[events_in] <= n
  /\ events_in + p <= r[events_in] + bursts.dma

\* Answered bursts, bursts to be answered and the one that is arriving.
MemoryPort ==
  /\ EventsInStep
  /\ \A j \in 1 .. Len(responses) : responses[j] = emif_wr_event[write_ack + j]
  /\ lwe_cs = "BURST" <=> memory.left > 0
  /\ memory.left > 0 => /\ memory.burst = emif_wr_event[events_in]
                        /\ memory.left < memory.burst.burstcnt
                        /\ emif_burstcntr = memory.left

\* What is acknowledged or in the multiplier is what has been matched.
Acked(C, r, p) ==
  /\ committed = C[r[write_ack]]
  /\ acked + per_word_ack_counter
       + (IF ack_in_d THEN burstcnt_d ELSE 0)
       + (IF wr_ack THEN wr_ack_burstcnt ELSE 0) = C[p]

Numbering(B, C, r, p) ==
  /\ Numbered(B, C)
  /\ KernelPort(B, C)
  /\ OnPath(B, C, r[events_in])
  /\ KernelEvents(B, p)
  /\ EmifEvents(B, r, p)
  /\ Acked(C, r, p)

\* What is outstanding fits the FIFOs and the counter, and is at addresses apart.
Outstanding == Len(kernel_wr_event) + bursts.dma <= FifoDepth

Apart ==
  \A i \in 1 .. Len(kernel_wr_event), j \in 1 .. Len(emif_wr_event) :
    emif_wr_event[j].src = "dma" => kernel_wr_event[i].address # emif_wr_event[j].address

UnackedFit(C) == C[n] < acked + CounterRange

IInv ==
  /\ Types
  /\ MemoryPort
  /\ Outstanding
  /\ Apart
  /\ \E B \in [Nat -> AnyBurst], C, r \in [Nat -> Nat], p \in Nat :
       Numbering(B, C, r, p) /\ UnackedFit(C)

-----------------------------------------------------------------------------
(***************************************************************************)
(* Facts about the operators.                                              *)
(***************************************************************************)
LEMMA NoWrap ==
  ASSUME NEW x \in Nat, x < CounterRange
  PROVE  x % CounterRange = x
BY SizesAssumption

LEMMA BurstTypes ==
  /\ \A b \in KernelBursts : /\ b.src = "kernel" /\ b.address \in Addresses
                             /\ b.burstcnt \in BurstCounts /\ b.burstcnt \in Nat \ {0}
  /\ \A b \in DmaBursts : /\ b.src = "dma" /\ b.address \in Addresses
                          /\ b.burstcnt \in BurstCounts /\ b.burstcnt \in Nat \ {0}
BY SizesAssumption DEF KernelBursts, DmaBursts, Bursts

LEMMA AnyBurstTypes ==
  \A b \in AnyBurst : b.burstcnt \in Nat
BY BurstTypes DEF AnyBurst, MemoryBursts, NoBeats, Beats

-----------------------------------------------------------------------------
(***************************************************************************)
(* The kernel sends a beat.                                                *)
(***************************************************************************)
LEMMA AppendFacts ==
  ASSUME NEW S, NEW P \in Seq(S), NEW x \in S
  PROVE  /\ Append(P, x) \in Seq(S)
         /\ Len(Append(P, x)) = Len(P) + 1 /\ Len(P) \in Nat
         /\ \A i \in 1 .. Len(P) : Append(P, x)[i] = P[i]
OBVIOUS

LEMMA AppendLast ==
  ASSUME NEW S, NEW P \in Seq(S), NEW x \in S, NEW m, m = Len(P) + 1
  PROVE  Append(P, x)[m] = x
OBVIOUS

LEMMA TailFacts ==
  ASSUME NEW S, NEW P \in Seq(S), P # <<>>
  PROVE  /\ Tail(P) \in Seq(S) /\ Head(P) = P[1] /\ Head(P) \in S
         /\ Len(P) \in Nat \ {0} /\ Len(Tail(P)) = Len(P) - 1
         /\ \A i \in 1 .. Len(P) - 1 : Tail(P)[i] = P[i + 1]
OBVIOUS

LEMMA LastOrBefore ==
  ASSUME NEW m \in Nat, NEW j \in 1 .. m + 1
  PROVE  j \in 1 .. m \/ j = m + 1
OBVIOUS

\* Words C and bursts B of the first k bursts, with another burst if l is above k.
Grows(B, C, D, E, k, l) ==
  /\ l = k \/ l = k + 1
  /\ \A i \in 0 .. k : D[i] = B[i] /\ E[i] = C[i]
  /\ \A i, j \in 0 .. l : i <= j => E[i] <= E[j]

\* The beat that goes on the path is of the last burst that was begun.
LEMMA PathGrows ==
  ASSUME NEW P \in Seq(KernelBursts), NEW t \in Nat, NEW b \in KernelBursts,
         NEW k \in Nat, NEW l \in Nat \ {0},
         NEW B \in [Nat -> AnyBurst], NEW C \in [Nat -> Nat],
         NEW D \in [Nat -> AnyBurst], NEW E \in [Nat -> Nat],
         Carries(P, t, B, C, k), Grows(B, C, D, E, k, l),
         E[l - 1] <= t + Len(P),
         l = k + 1 => E[k] = t + Len(P),
         D[l] = b
  PROVE  Carries(Append(P, b), t, D, E, l)
<1>1. Len(Append(P, b)) = Len(P) + 1
  BY AppendFacts
<1> SUFFICES ASSUME NEW j \in 1 .. Len(P) + 1, NEW i \in 1 .. l,
                    E[i - 1] < t + j, t + j <= E[i]
             PROVE  Append(P, b)[j] = D[i]
  BY <1>1 DEF Carries
<1>2. /\ l = k \/ l = k + 1
      /\ \A a \in 0 .. k : D[a] = B[a] /\ E[a] = C[a]
      /\ \A a, c \in 0 .. l : a <= c => E[a] <= E[c]
  BY DEF Grows
<1>3. PICK m \in Nat : m = Len(P)
  OBVIOUS
<1>4. CASE j <= Len(P)
  <2>1. Append(P, b)[j] = P[j] /\ j \in 1 .. Len(P)
    BY <1>4
  <2>2. i <= k
    <3>1. SUFFICES ASSUME i = k + 1 PROVE FALSE
      BY <1>2
    <3>2. i - 1 = k /\ E[k] = t + m /\ E[k] < t + j
      <4>1. l = k + 1 /\ i - 1 = k
        BY <1>2, <3>1
      <4> QED BY <1>3, <4>1
    <3> QED BY <1>3, <1>4, <3>2
  <2>3. /\ E[i - 1] = C[i - 1] /\ E[i] = C[i] /\ D[i] = B[i]
        /\ i \in 1 .. k
    BY <1>2, <2>2
  <2> QED BY <2>1, <2>3 DEF Carries
<1>5. CASE j = Len(P) + 1
  <2>1. Append(P, b)[j] = b
    BY <1>5
  <2>2. i = l
    <3>1. SUFFICES ASSUME i <= l - 1 PROVE FALSE
      OBVIOUS
    <3>2. E[i] <= E[l - 1]
      BY <1>2, <3>1
    <3>3. E[i] \in Nat /\ E[l - 1] \in Nat
      OBVIOUS
    <3>4. PICK x \in Nat, y \in Nat : x = E[i] /\ y = E[l - 1]
      BY <3>3
    <3>5. x <= y /\ y <= t + m /\ t + j <= x
      BY <1>3, <3>2, <3>4
    <3>6. t + j = t + m + 1
      BY <1>3, <1>5
    <3> QED BY <1>3, <3>4, <3>5, <3>6
  <2> QED BY <2>1, <2>2
<1>6. j <= Len(P) \/ j = Len(P) + 1
  <2>1. j \in 1 .. m + 1
    BY <1>3
  <2>2. j \in 1 .. m \/ j = m + 1
    BY <1>3, <2>1, LastOrBefore
  <2> QED BY <1>3, <2>2
<1> QED BY <1>4, <1>5, <1>6

\* An answered burst has its event.
LEMMA AnsweredArrived ==
  ASSUME Types, MemoryPort
  PROVE  /\ events_in \in Nat /\ write_ack \in 0 .. events_in
         /\ Len(responses) \in Nat
         /\ events_in = write_ack + Len(responses) + (IF memory.left > 0 THEN 1 ELSE 0)
<1>1. PICK l \in Nat : l = Len(responses)
  BY DEF Types
<1>2. PICK w \in Nat : w = write_ack
  BY SizesAssumption DEF Types, TypeOK
<1>3. events_in = w + l + (IF memory.left > 0 THEN 1 ELSE 0)
  BY <1>1, <1>2 DEF MemoryPort, EventsInStep, events_in
<1> QED BY <1>1, <1>2, <1>3

\* The part of the invariant a beat of the kernel does not touch.
LEMMA KernelFrame ==
  ASSUME UNCHANGED <<memory, responses, emif_wr_event, write_ack, emifSM, tracker, multiply,
                     committed, acked>>,
         MemoryPort
  PROVE  MemoryPort'
BY DEF MemoryPort, EventsInStep, events_in, emifSM

\* The numbers of events are those of bursts.
LEMMA RankBound ==
  ASSUME NEW B, NEW r \in [Nat -> Nat], NEW p, NEW k \in Nat, n = k,
         EmifEvents(B, r, p), events_in \in Nat, NEW i \in 0 .. events_in
  PROVE  r[i] \in 0 .. k
<1>1. PICK e \in Nat : events_in = e
  OBVIOUS
<1>2. \A j, m \in 0 .. e : j <= m => r[j] <= r[m]
  BY <1>1 DEF EmifEvents, Ranked
<1>3. i \in 0 .. e /\ e \in 0 .. e /\ i <= e
  BY <1>1
<1>4. PICK x \in Nat, y \in Nat : r[i] = x /\ r[e] = y
  BY <1>1, <1>3
<1>5. x <= y
  BY <1>2, <1>3, <1>4
<1>6. y <= k
  BY <1>1, <1>4 DEF EmifEvents
<1> QED BY <1>4, <1>5, <1>6

\* A burst of the kernel at an address the DMA engine does not write.
LEMMA ApartGrows ==
  ASSUME Types, Apart, NEW b \in KernelBursts, b.address \notin DmaWrites,
         kernel_wr_event' = Append(kernel_wr_event, b), emif_wr_event' = emif_wr_event
  PROVE  Apart'
<1>1. kernel_wr_event \in Seq(KernelBursts)
  BY DEF Types, TypeOK, KernelBursts
<1>2. PICK m \in Nat : Len(kernel_wr_event) = m
  BY <1>1
<1>3. /\ Len(kernel_wr_event') = m + 1
      /\ \A i \in 1 .. m : kernel_wr_event'[i] = kernel_wr_event[i]
  BY <1>1, <1>2, AppendFacts
<1>4. kernel_wr_event'[m + 1] = b
  <2>1. m + 1 = Len(kernel_wr_event) + 1
    BY <1>2
  <2>2. Append(kernel_wr_event, b)[m + 1] = b
    BY <1>1, <2>1, AppendLast
  <2> QED BY <2>2
<1>5. SUFFICES ASSUME NEW i \in 1 .. m + 1, NEW j \in 1 .. Len(emif_wr_event),
                      emif_wr_event[j].src = "dma"
               PROVE  kernel_wr_event'[i].address # emif_wr_event[j].address
  BY <1>3 DEF Apart
<1>6. CASE i \in 1 .. m
  BY <1>2, <1>3, <1>5, <1>6 DEF Apart
<1>7. CASE i = m + 1
  <2>1. emif_wr_event[j].address \in DmaWrites
    BY <1>5 DEF DmaWrites
  <2> QED BY <1>4, <1>7, <2>1
<1> QED BY <1>2, <1>5, <1>6, <1>7, LastOrBefore

LEMMA KernelStarts ==
  ASSUME IInv, KernelBeat, kernel.left = 0
  PROVE  IInv'
<1>1. PICK B \in [Nat -> AnyBurst], C \in [Nat -> Nat], r \in [Nat -> Nat],
           p \in Nat :
        Numbering(B, C, r, p) /\ UnackedFit(C)
  BY DEF IInv
<1>2. Types /\ TypeOK /\ MemoryPort
  BY DEF IInv, Types
<1>3. PICK k \in Nat : n = k
  BY <1>2 DEF n, Types, TypeOK
<1>4. PICK b \in KernelBursts : /\ kernel' = Beats(b, b.burstcnt - 1)
                               /\ WordsFit(b) /\ b.address \notin DmaWrites /\ Room
  <2>1. ~(kernel.left > 0)
    OBVIOUS
  <2>2. Room /\ \E b \in Bursts("kernel") : /\ WordsFit(b)
                                           /\ b.address \notin DmaWrites
                                           /\ kernel' = Beats(b, b.burstcnt - 1)
    BY <2>1, Zenon DEF KernelBeat
  <2> QED BY <2>2 DEF KernelBursts
<1>5. b.burstcnt \in Nat \ {0} /\ kernel'.burst = b
  BY <1>4, BurstTypes DEF Beats
<1>d. PICK d \in Nat : bursts.dma = d
  BY <1>2 DEF Types, TypeOK
<1>6. bursts' = [bursts EXCEPT !.kernel = @ + 1] /\ n' = k + 1 /\ bursts'.dma = bursts.dma
  <2>1. bursts' = [bursts EXCEPT !.kernel = @ + 1]
    BY DEF KernelBeat
  <2> QED BY <1>2, <1>3, <2>1 DEF Types, TypeOK, n
<1>7. we_cs = "IDLE"
  BY <1>1, <1>2 DEF Numbering, KernelPort, TypeOK
<1>8. Len(kernel_wr_event) = k - p /\ p \in 0 .. k
  BY <1>1, <1>3 DEF Numbering, KernelEvents
<1>9. kernel_wr_event' = Append(kernel_wr_event, b)
  <2>1. Len(kernel_wr_event) < FifoDepth
    BY <1>1, <1>4, <1>d, <1>8, SizesAssumption DEF Room
  <2> QED BY <1>5, <1>7, <2>1 DEF KernelBeat, OnFirstBeat, Enqueue
<1>10. /\ path' = Append(path, b)
       /\ we_cs' = IF b.burstcnt > 1 THEN "BURST" ELSE "IDLE"
       /\ kernel_burstcntr' = b.burstcnt - 1
       /\ sent' = sent + 1
       /\ UNCHANGED <<memory, responses, emif_wr_event, write_ack, emifSM, tracker, multiply,
                      committed, acked>>
  BY <1>5, <1>7 DEF KernelBeat, we_ns, burstcntr_ns
<1>11. PICK u \in Nat : sent = u /\ C[k] = u /\ sent' = u + 1
  <2>1. sent = C[k] - 0
    BY <1>1, <1>3 DEF Numbering, KernelPort
  <2>2. C[k] - 0 = C[k] /\ C[k] \in Nat
    BY <1>1, <1>3
  <2> QED BY <1>10, <2>1, <2>2
<1>12. PICK D \in [Nat -> AnyBurst] : D = [B EXCEPT ![k + 1] = b]
  BY DEF AnyBurst, MemoryBursts
<1>13. PICK E \in [Nat -> Nat] : E = [C EXCEPT ![k + 1] = C[k] + b.burstcnt]
  <2>1. C[k] + b.burstcnt \in Nat
    BY <1>5
  <2> QED BY <2>1
<1>14. /\ \A i \in 0 .. k : D[i] = B[i] /\ E[i] = C[i]
       /\ D[k + 1] = b /\ E[k + 1] = C[k] + b.burstcnt /\ C[k] \in Nat
  BY <1>12, <1>13
<1>15. /\ C[0] = 0
       /\ \A i \in 1 .. k : B[i] \in KernelBursts /\ C[i] = C[i - 1] + B[i].burstcnt
       /\ \A i, j \in 0 .. k : i <= j => C[i] <= C[j]
  <2>1. /\ C[0] = 0
        /\ \A i \in 1 .. k : B[i] \in KernelBursts /\ C[i] = C[i - 1] + B[i].burstcnt
        /\ \A i, j \in 0 .. k : i <= j => C[i] <= C[j]
    BY <1>1, <1>3 DEF Numbering, Numbered
  <2> QED BY <2>1
<1>16. /\ \A i \in 1 .. k + 1 : D[i] \in KernelBursts /\ E[i] = E[i - 1] + D[i].burstcnt
       /\ \A i, j \in 0 .. k + 1 : i <= j => E[i] <= E[j]
  <2>1. ASSUME NEW i \in 1 .. k + 1
        PROVE  D[i] \in KernelBursts /\ E[i] = E[i - 1] + D[i].burstcnt
    <3>1. CASE i \in 1 .. k
      BY <1>14, <1>15, <3>1
    <3>2. CASE i = k + 1
      BY <1>14, <3>2
    <3> QED BY <2>1, <3>1, <3>2, LastOrBefore
  <2>2. ASSUME NEW i \in 0 .. k + 1, NEW j \in 0 .. k + 1, i <= j
        PROVE  E[i] <= E[j]
    <3>1. CASE j \in 0 .. k
      <4>1. i \in 0 .. k
        BY <2>2, <3>1
      <4> QED BY <1>14, <1>15, <2>2, <3>1, <4>1
    <3>2. CASE j = k + 1 /\ i \in 0 .. k
      <4>1. C[i] <= C[k] /\ E[i] = C[i] /\ E[j] = C[k] + b.burstcnt
        BY <1>14, <1>15, <3>2
      <4>2. C[i] \in Nat
        BY <3>2
      <4> QED BY <1>5, <1>14, <4>1, <4>2
    <3>3. CASE j = k + 1 /\ i = k + 1
      BY <1>14, <3>3, <1>5
    <3> QED BY <2>2, <3>1, <3>2, <3>3
  <2> QED BY <2>1, <2>2
<1>17. Numbered(D, E)'
  BY <1>6, <1>14, <1>15, <1>16 DEF Numbered
<1>18. KernelPort(D, E)'
  <2>1. PICK m \in Nat : b.burstcnt = m + 1 /\ b.burstcnt - 1 = m
    BY <1>5
  <2>2. kernel'.left = m /\ kernel'.burst = b /\ kernel_burstcntr' = m
    BY <1>4, <1>10, <2>1 DEF Beats
  <2>3. E[k + 1] - m = sent'
    BY <1>14, <1>11, <2>1
  <2>4. we_cs' = "BURST" <=> m > 0
    BY <1>10, <2>1
  <2>5. m < b.burstcnt /\ k + 1 >= 1
    BY <2>1
  <2> QED BY <1>6, <1>10, <1>14, <2>2, <2>3, <2>4, <2>5 DEF KernelPort
<1>19. KernelEvents(D, p)'
  <2>1. PICK q \in Nat : k - p = q /\ k = p + q /\ (k + 1) - p = q + 1
    BY <1>8
  <2>2. /\ kernel_wr_event \in Seq(KernelBursts) /\ Len(kernel_wr_event) = q
        /\ \A i \in 1 .. q : kernel_wr_event[i] = B[p + i]
    BY <1>1, <1>2, <1>3, <1>8, <2>1 DEF TypeOK, KernelBursts, Numbering, KernelEvents
  <2>3. /\ Len(kernel_wr_event') = q + 1
        /\ \A i \in 1 .. q : kernel_wr_event'[i] = kernel_wr_event[i]
        /\ kernel_wr_event'[q + 1] = b
    <3>1. kernel_wr_event \in Seq(KernelBursts) /\ Len(kernel_wr_event) = q
      BY <2>2
    <3>2. b \in KernelBursts /\ q \in Nat
      BY <1>4, <2>1
    <3>3. Len(kernel_wr_event') = q + 1
      BY <1>9, <3>1, <3>2, AppendFacts
    <3>4. \A i \in 1 .. q : kernel_wr_event'[i] = kernel_wr_event[i]
      BY <1>9, <3>1, <3>2, AppendFacts
    <3>5. kernel_wr_event'[q + 1] = b
      <4>1. /\ kernel_wr_event \in Seq(KernelBursts) /\ b \in KernelBursts
            /\ q + 1 = Len(kernel_wr_event) + 1
        BY <3>1, <3>2
      <4>2. Append(kernel_wr_event, b)[q + 1] = b
        BY <4>1, AppendLast
      <4> QED BY <1>9, <4>2
    <3> QED BY <3>3, <3>4, <3>5
  <2>4. ASSUME NEW i \in 1 .. q + 1
        PROVE  kernel_wr_event'[i] = D[p + i]
    <3>1. CASE i \in 1 .. q
      <4>1. p + i \in 0 .. k
        BY <1>8, <2>1, <3>1
      <4> QED BY <1>14, <2>2, <2>3, <3>1, <4>1
    <3>2. CASE i = q + 1
      <4>1. p + i = k + 1
        BY <1>8, <2>1, <3>2
      <4> QED BY <1>14, <2>3, <3>2, <4>1
    <3> QED BY <2>1, <2>4, <3>1, <3>2, LastOrBefore
  <2>5. p \in 0 .. k + 1 /\ n' - p = q + 1
    BY <1>6, <1>8, <2>1
  <2> QED BY <1>6, <2>3, <2>4, <2>5 DEF KernelEvents
<1>20. EmifEvents(D, r, p)'
  <2>1. /\ EmifEvents(B, r, p) /\ emif_wr_event' = emif_wr_event
        /\ events_in \in Nat /\ events_in' = events_in
    BY <1>1, <1>2, <1>10 DEF Numbering, events_in, TypeOK
  <2>2. ASSUME NEW i \in 1 .. events_in PROVE r[i] \in 0 .. k
    <3>1. i \in 0 .. events_in
      BY <2>1, <2>2
    <3> QED BY <1>1, <1>3, <2>1, <3>1, RankBound
  <2>3. Ranked(emif_wr_event, D, r, p, events_in)
    BY <1>14, <2>1, <2>2 DEF EmifEvents, Ranked
  <2>4. r[events_in] <= k + 1
    <3>1. r[events_in] <= k
      BY <1>3, <2>1 DEF EmifEvents
    <3>2. r[events_in] \in Nat
      BY <1>1, <2>1
    <3> QED BY <1>3, <3>1, <3>2
  <2> QED BY <1>6, <2>1, <2>3, <2>4 DEF EmifEvents
<1>21. OnPath(D, E, r[events_in])'
  <2>1. PICK s \in 0 .. k : r[events_in] = s /\ r[events_in'] = s
    <3>1. events_in \in Nat /\ events_in' = events_in
      BY <1>2, <1>10 DEF events_in, TypeOK
    <3>2. r[events_in] \in 0 .. k
      BY <1>1, <1>3, <3>1 DEF Numbering, EmifEvents
    <3> QED BY <3>1, <3>2
  <2>2. PICK t \in Nat : Taken(C, s) = t
    BY <1>1, <2>1 DEF Numbering, OnPath
  <2>3. Taken(E, s)' = t
    BY <1>10, <1>14, <2>2 DEF Taken
  <2>4. /\ path \in Seq(KernelBursts) /\ sent = t + Len(path)
        /\ Carries(path, t, B, C, k)
    BY <1>1, <1>2, <1>3, <2>1, <2>2 DEF Numbering, OnPath, Types
  <2>5. /\ E[(k + 1) - 1] <= t + Len(path)
        /\ E[k] = t + Len(path)
    <3>1. (k + 1) - 1 = k /\ Len(path) \in Nat
      BY <1>3, <2>4
    <3>2. E[k] = C[k]
      BY <1>3, <1>14
    <3>3. sent = t + Len(path)
      BY <2>4
    <3> QED BY <1>11, <2>2, <3>1, <3>2, <3>3
  <2>6. Carries(path', t, D, E, k + 1)
    <3>1. PICK l \in Nat \ {0} : k + 1 = l
      BY <1>3
    <3>2. /\ path \in Seq(KernelBursts) /\ t \in Nat /\ b \in KernelBursts /\ k \in Nat
          /\ l \in Nat \ {0}
          /\ B \in [Nat -> AnyBurst] /\ C \in [Nat -> Nat]
          /\ D \in [Nat -> AnyBurst] /\ E \in [Nat -> Nat]
      BY <1>1, <1>3, <1>4, <1>12, <1>13, <2>2, <2>4, <3>1
    <3>3. /\ E[l - 1] <= t + Len(path)
          /\ l = k + 1 => E[k] = t + Len(path)
          /\ D[l] = b
      BY <1>14, <2>5, <3>1
    <3>4. Grows(B, C, D, E, k, l)
      BY <1>14, <1>16, <3>1 DEF Grows
    <3>5. Carries(Append(path, b), t, D, E, l)
      BY <2>4, <3>2, <3>3, <3>4, PathGrows
    <3> QED BY <1>10, <3>1, <3>5
  <2>7. Len(path') = Len(path) + 1 /\ sent' = t + Len(path')
    <3>1. path \in Seq(KernelBursts) /\ sent = t + Len(path)
      BY <2>4
    <3>2. Len(path') = Len(path) + 1 /\ Len(path) \in Nat
      BY <1>4, <1>10, <3>1, AppendFacts
    <3> QED BY <1>11, <2>2, <3>1, <3>2
  <2>8. OnPath(D, E, s)'
    <3>1. t \in Nat
      BY <2>2
    <3> QED BY <1>6, <2>3, <2>6, <2>7, <3>1 DEF OnPath
  <2> QED BY <2>1, <2>8
<1>22. Acked(E, r, p)'
  <2>1. r[write_ack] \in 0 .. k
    <3>1. write_ack \in 0 .. events_in /\ events_in \in Nat
      BY <1>2, AnsweredArrived
    <3> QED BY <1>1, <1>3, <3>1, RankBound DEF Numbering
  <2> QED BY <1>1, <1>8, <1>10, <1>14, <2>1 DEF Numbering, Acked, multiply, tracker
<1>e. Outstanding'
  <2>1. PICK q \in Nat : k - p = q
    BY <1>8
  <2>2. Len(kernel_wr_event') = q + 1 /\ Len(kernel_wr_event) = q
    <3>1. kernel_wr_event \in Seq(KernelBursts) /\ Len(kernel_wr_event) = q
      BY <1>2, <1>8, <2>1 DEF TypeOK, KernelBursts
    <3>2. Len(Append(kernel_wr_event, b)) = Len(kernel_wr_event) + 1
      BY <1>4, <3>1, AppendFacts
    <3> QED BY <1>9, <3>1, <3>2
  <2>3. q + d < FifoDepth
    BY <1>4, <1>d, <2>2 DEF Room
  <2>4. (q + 1) + d <= FifoDepth
    BY <2>3, SizesAssumption
  <2> QED BY <1>6, <1>d, <2>2, <2>4 DEF Outstanding
<1>f. Apart'
  BY <1>2, <1>4, <1>9, <1>10, ApartGrows DEF IInv
<1>23. UnackedFit(E)'
  <2>1. sent + b.burstcnt < acked + CounterRange
    BY <1>4 DEF WordsFit
  <2>2. E[k + 1] = sent + b.burstcnt
    BY <1>11, <1>14
  <2> QED BY <1>6, <1>10, <2>1, <2>2 DEF UnackedFit
<1>24. Types'
  <2>1. Beats(b, b.burstcnt - 1) \in [burst : AnyBurst, left : Nat]
    BY <1>5 DEF Beats, AnyBurst, MemoryBursts
  <2>2. path' \in Seq(KernelBursts) /\ kernel_wr_event' \in Seq(KernelBursts)
    BY <1>2, <1>9, <1>10 DEF Types, TypeOK, KernelBursts
  <2>3. Len(kernel_wr_event') <= FifoDepth
    <3>1. PICK l \in Nat : Len(kernel_wr_event') = l
      BY <2>2
    <3>2. l + d <= FifoDepth
      BY <1>e, <1>d, <1>6, <3>1 DEF Outstanding
    <3> QED BY <3>1, <3>2, SizesAssumption
  <2>4. bursts' \in [kernel : Nat, dma : Nat]
    <3>1. k + 1 \in Nat
      BY <1>3
    <3> QED BY <1>2, <1>3, <1>6, <3>1 DEF Types, TypeOK, n
  <2>5. PICK m \in Nat : b.burstcnt = m + 1 /\ b.burstcnt - 1 = m
    BY <1>5
  <2>6. /\ we_cs' = "BURST" => kernel_burstcntr' > 0
        /\ kernel_burstcntr' \in Nat /\ we_cs' \in {"IDLE", "BURST"}
    BY <1>10, <2>5
  <2>7. sent' \in Nat
    BY <1>11
  <2> QED BY <1>2, <1>4, <1>10, <2>1, <2>2, <2>3, <2>4, <2>6, <2>7
          DEF Types, TypeOK, KernelBursts, emifSM, tracker, multiply
<1>25. MemoryPort'
  BY <1>2, <1>10, KernelFrame
<1> QED BY <1>1, <1>17, <1>18, <1>19, <1>20, <1>21, <1>22, <1>23, <1>24, <1>25, <1>e, <1>f
     DEF IInv, Numbering

LEMMA KernelContinues ==
  ASSUME IInv, KernelBeat, kernel.left # 0
  PROVE  IInv'
<1>1. PICK B \in [Nat -> AnyBurst], C \in [Nat -> Nat], r \in [Nat -> Nat],
           p \in Nat :
        Numbering(B, C, r, p) /\ UnackedFit(C)
  BY DEF IInv
<1>2. Types /\ TypeOK /\ MemoryPort
  BY DEF IInv, Types
<1>3. kernel.left \in Nat \ {0} /\ kernel \in [burst : AnyBurst, left : Nat]
  BY <1>2 DEF Types
<1>4. PICK m \in Nat : kernel.left = m + 1 /\ kernel.left - 1 = m
  BY <1>3
<1>5. kernel' = [kernel EXCEPT !.left = @ - 1] /\ UNCHANGED bursts
  BY <1>3 DEF KernelBeat
<1>6. we_cs = "BURST" /\ n >= 1 /\ kernel.burst = B[n] /\ kernel.left < B[n].burstcnt
      /\ kernel_burstcntr = kernel.left /\ sent = C[n] - kernel.left
  BY <1>1, <1>3 DEF Numbering, KernelPort
<1>7. PICK k \in Nat \ {0} : n = k /\ n' = k
  BY <1>2, <1>5, <1>6 DEF TypeOK, n
<1>8. PICK b \in KernelBursts : B[k] = b /\ kernel'.burst = b /\ kernel.burst = b
  <2>1. B[k] \in KernelBursts
    BY <1>1, <1>7 DEF Numbering, Numbered
  <2> QED BY <1>3, <1>5, <1>6, <1>7, <2>1
<1>9. kernel'.left = m /\ kernel' \in [burst : AnyBurst, left : Nat]
  BY <1>3, <1>4, <1>5
<1>10. /\ path' = Append(path, b)
       /\ sent' = sent + 1
       /\ UNCHANGED <<kernel_wr_event, memory, responses, emif_wr_event, write_ack, emifSM,
                      tracker, multiply, committed, acked>>
  BY <1>6, <1>8 DEF KernelBeat, OnFirstBeat
<1>11. we_cs' = (IF m = 0 THEN "IDLE" ELSE "BURST") /\ kernel_burstcntr' = m
  <2>1. we_cs' = we_ns(we_cs, b.burstcnt, kernel_burstcntr)
        /\ kernel_burstcntr' = burstcntr_ns(we_cs, b.burstcnt, kernel_burstcntr)
    BY <1>8 DEF KernelBeat
  <2> QED BY <1>4, <1>6, <2>1 DEF we_ns, burstcntr_ns
<1>12. PICK w \in Nat : C[k] = w + (m + 1) /\ C[k - 1] <= w /\ sent = w /\ sent' = w + 1
  <2>1. C[k] = C[k - 1] + b.burstcnt /\ m + 1 < b.burstcnt /\ b.burstcnt \in Nat
    BY <1>1, <1>4, <1>6, <1>7, <1>8, BurstTypes DEF Numbering, Numbered
  <2>2. C[k] \in Nat /\ C[k - 1] \in Nat
    BY <1>1, <1>7
  <2>3. PICK w \in Nat : C[k] = w + (m + 1) /\ C[k - 1] <= w /\ C[k] - (m + 1) = w
    <3>1. C[k] - (m + 1) \in Nat /\ C[k - 1] <= C[k] - (m + 1)
          /\ C[k] = (C[k] - (m + 1)) + (m + 1)
      BY <1>4, <2>1, <2>2
    <3> QED BY <3>1
  <2>4. sent = C[k] - (m + 1)
    BY <1>4, <1>6, <1>7
  <2>5. sent = w
    BY <2>3, <2>4
  <2> QED BY <1>10, <2>3, <2>5
<1>13. Numbered(B, C)'
  BY <1>1, <1>5 DEF Numbering, Numbered, n
<1>14. KernelPort(B, C)'
  <2>1. C[k] - m = sent'
    BY <1>4, <1>12
  <2>2. m < b.burstcnt
    <3>1. m + 1 < b.burstcnt /\ b.burstcnt \in Nat
      BY <1>4, <1>6, <1>7, <1>8, BurstTypes
    <3> QED BY <1>4, <3>1
  <2>3. we_cs' = "BURST" <=> m > 0
    BY <1>4, <1>11
  <2> QED BY <1>7, <1>8, <1>9, <1>11, <2>1, <2>2, <2>3 DEF KernelPort
<1>15. KernelEvents(B, p)'
  BY <1>1, <1>5, <1>10 DEF Numbering, KernelEvents, n
<1>16. EmifEvents(B, r, p)'
  BY <1>1, <1>5, <1>10 DEF Numbering, EmifEvents, n, events_in
<1>17. OnPath(B, C, r[events_in])'
  <2>1. PICK s : r[events_in] = s /\ r[events_in'] = s
    BY <1>10 DEF events_in
  <2>2. PICK t \in Nat : Taken(C, s) = t
    BY <1>1, <2>1 DEF Numbering, OnPath
  <2>3. Taken(C, s)' = t
    BY <1>10, <2>2 DEF Taken
  <2>4. path \in Seq(KernelBursts) /\ sent = t + Len(path) /\ Carries(path, t, B, C, k)
    BY <1>1, <1>2, <1>7, <2>1, <2>2 DEF Numbering, OnPath, Types
  <2>5. Grows(B, C, B, C, k, k)
    BY <1>1, <1>7 DEF Numbering, Numbered, Grows
  <2>6. C[k - 1] <= t + Len(path)
    BY <1>12, <2>4
  <2>7. Carries(path', t, B, C, k)
    <3>1. /\ path \in Seq(KernelBursts) /\ t \in Nat /\ b \in KernelBursts /\ k \in Nat \ {0}
          /\ B \in [Nat -> AnyBurst] /\ C \in [Nat -> Nat]
      BY <1>1, <1>7, <1>8, <2>2, <2>4
    <3>2. B[k] = b /\ k # k + 1
      BY <1>7, <1>8
    <3>3. Carries(Append(path, b), t, B, C, k)
      BY <2>4, <2>5, <2>6, <3>1, <3>2, PathGrows
    <3> QED BY <1>10, <3>3
  <2>8. Len(path') = Len(path) + 1 /\ sent' = t + Len(path')
    <3>1. path \in Seq(KernelBursts) /\ sent = t + Len(path)
      BY <2>4
    <3>2. Len(path') = Len(path) + 1 /\ Len(path) \in Nat
      BY <1>8, <1>10, <3>1, AppendFacts
    <3>3. sent' = sent + 1
      BY <1>10
    <3> QED BY <2>2, <3>1, <3>2, <3>3
  <2>9. OnPath(B, C, s)'
    BY <1>7, <2>2, <2>3, <2>7, <2>8 DEF OnPath
  <2> QED BY <2>1, <2>9
<1>18. Acked(C, r, p)'
  BY <1>1, <1>10 DEF Numbering, Acked, multiply, tracker
<1>19. UnackedFit(C)' /\ Outstanding' /\ Apart'
  BY <1>1, <1>5, <1>10 DEF UnackedFit, Outstanding, Apart, IInv, n
<1>20. Types'
  <2>1. path' \in Seq(KernelBursts)
    BY <1>2, <1>8, <1>10 DEF Types
  <2>2. sent' \in Nat
    BY <1>12
  <2>3. /\ we_cs' \in {"IDLE", "BURST"} /\ kernel_burstcntr' \in Nat
        /\ we_cs' = "BURST" => kernel_burstcntr' > 0
    BY <1>4, <1>11
  <2> QED BY <1>2, <1>5, <1>9, <1>10, <2>1, <2>2, <2>3
          DEF Types, TypeOK, KernelBursts, emifSM, tracker, multiply
<1>21. MemoryPort'
  BY <1>2, <1>10, KernelFrame
<1> QED BY <1>1, <1>13, <1>14, <1>15, <1>16, <1>17, <1>18, <1>19, <1>20, <1>21
     DEF IInv, Numbering

-----------------------------------------------------------------------------
(***************************************************************************)
(* A beat arrives at the memory.                                           *)
(***************************************************************************)
\* The first word of the path is taken.
LEMMA PathTaken ==
  ASSUME NEW P \in Seq(KernelBursts), P # <<>>, NEW t \in Nat, NEW k \in Nat,
         NEW B \in [Nat -> AnyBurst], NEW C \in [Nat -> Nat],
         Carries(P, t, B, C, k)
  PROVE  Carries(Tail(P), t + 1, B, C, k)
<1>1. PICK m \in Nat : Len(P) = m + 1 /\ Len(Tail(P)) = m
  <2>1. Len(P) \in Nat \ {0} /\ Len(Tail(P)) = Len(P) - 1
    BY TailFacts
  <2>2. Len(P) - 1 \in Nat /\ Len(P) = (Len(P) - 1) + 1
    BY <2>1
  <2> QED BY <2>1, <2>2
<1>2. SUFFICES ASSUME NEW j \in 1 .. m, NEW i \in 1 .. k,
                      C[i - 1] < (t + 1) + j, (t + 1) + j <= C[i]
               PROVE  Tail(P)[j] = B[i]
  BY <1>1 DEF Carries
<1>3. j + 1 \in 1 .. m + 1 /\ (t + 1) + j = t + (j + 1)
  BY <1>1
<1>4. Tail(P)[j] = P[j + 1]
  BY <1>1, TailFacts
<1>5. C[i - 1] < t + (j + 1) /\ t + (j + 1) <= C[i]
  BY <1>2, <1>3
<1> QED BY <1>1, <1>3, <1>4, <1>5 DEF Carries

\* Burst b, if it is the kernel's, is the one behind number x.
Numbers(b, B, q, x) ==
  /\ b.src = "kernel" => q = x + 1 /\ B[q] = b
  /\ b.src # "kernel" => q = x

Extended(r, R, e, q) == R[e + 1] = q /\ \A i \in 0 .. e : R[i] = r[i]

Follows(F, G, e, b) == G[e + 1] = b /\ \A i \in 1 .. e : G[i] = F[i]

\* A burst arrives, and its event.
LEMMA RankedGrows ==
  ASSUME NEW F, NEW G, NEW b, NEW B,
         NEW r \in [Nat -> Nat], NEW R \in [Nat -> Nat],
         NEW p \in Nat, NEW e \in Nat, NEW q \in Nat,
         Ranked(F, B, r, p, e),
         Numbers(b, B, q, r[e]),
         Extended(r, R, e, q),
         Follows(F, G, e, b)
  PROVE  Ranked(G, B, R, p, e + 1)
<1>1. /\ r[0] = p
      /\ \A i \in 1 .. e :
           /\ F[i].src = "kernel" => r[i] = r[i - 1] + 1 /\ B[r[i]] = F[i]
           /\ F[i].src # "kernel" => r[i] = r[i - 1]
      /\ \A i, j \in 0 .. e : i <= j => r[i] <= r[j] /\ r[j] + i <= r[i] + j
  BY DEF Ranked
<1>2. G[e + 1] = b /\ \A i \in 1 .. e : G[i] = F[i]
  BY DEF Follows
<1>3. /\ \A i \in 0 .. e : R[i] = r[i]
      /\ R[e + 1] = q
  BY DEF Extended
<1>4. r[e] \in Nat /\ r[e] <= q /\ q <= r[e] + 1
  <2>1. r[e] \in Nat
    OBVIOUS
  <2> QED BY <2>1 DEF Numbers
<1>5. ASSUME NEW i \in 1 .. e + 1
      PROVE  /\ G[i].src = "kernel" =>
                  R[i] = R[i - 1] + 1 /\ B[R[i]] = G[i]
             /\ G[i].src # "kernel" => R[i] = R[i - 1]
  <2>1. CASE i \in 1 .. e
    <3>1. R[i] = r[i] /\ R[i - 1] = r[i - 1]
      BY <1>3, <2>1
    <3> QED BY <1>1, <1>2, <2>1, <3>1
  <2>2. CASE i = e + 1
    <3>1. (e + 1) - 1 = e /\ R[e] = r[e]
      BY <1>3
    <3> QED BY <1>3, <1>2, <2>2, <3>1 DEF Numbers
  <2> QED BY <1>5, <2>1, <2>2, LastOrBefore
<1>6. ASSUME NEW i \in 0 .. e + 1, NEW j \in 0 .. e + 1, i <= j
      PROVE  R[i] <= R[j] /\ R[j] + i <= R[i] + j
  <2>1. CASE j \in 0 .. e
    <3>1. i \in 0 .. e
      BY <1>6, <2>1
    <3> QED BY <1>1, <1>3, <1>6, <2>1, <3>1
  <2>2. CASE j = e + 1 /\ i \in 0 .. e
    <3>1. r[i] <= r[e] /\ r[e] + i <= r[i] + e /\ R[i] = r[i]
      BY <1>1, <1>3, <2>2
    <3>2. PICK x \in Nat, y \in Nat : r[i] = x /\ r[e] = y
      BY <1>4, <1>6, <2>2
    <3>3. x <= q /\ q + i <= x + (e + 1)
      BY <1>4, <2>2, <3>1, <3>2
    <3> QED BY <1>3, <2>2, <3>1, <3>2, <3>3
  <2>3. CASE j = e + 1 /\ i = e + 1
    BY <1>3, <2>3
  <2> QED BY <1>6, <2>1, <2>2, <2>3
<1> QED BY <1>1, <1>3, <1>5, <1>6 DEF Ranked

\* The first event is popped.
LEMMA RankedTaken ==
  ASSUME NEW F \in Seq(MemoryBursts), F # <<>>,
         NEW B \in [Nat -> AnyBurst],
         NEW r \in [Nat -> Nat], NEW R \in [Nat -> Nat],
         NEW p \in Nat, NEW e \in Nat,
         Len(F) = e + 1,
         Ranked(F, B, r, p, e + 1),
         R = [i \in Nat |-> r[i + 1]]
  PROVE  Ranked(Tail(F), B, R, r[1], e)
<1>1. /\ \A i \in 1 .. e + 1 :
           /\ F[i].src = "kernel" => r[i] = r[i - 1] + 1 /\ B[r[i]] = F[i]
           /\ F[i].src # "kernel" => r[i] = r[i - 1]
      /\ \A i, j \in 0 .. e + 1 : i <= j => r[i] <= r[j] /\ r[j] + i <= r[i] + j
  BY DEF Ranked
<1>2. R[0] = r[1] /\ \A i \in 0 .. e : R[i] = r[i + 1]
  OBVIOUS
<1>3. \A i \in 1 .. e : Tail(F)[i] = F[i + 1]
  BY TailFacts
<1>4. ASSUME NEW i \in 1 .. e
      PROVE  /\ Tail(F)[i].src = "kernel" =>
                  R[i] = R[i - 1] + 1 /\ B[R[i]] = Tail(F)[i]
             /\ Tail(F)[i].src # "kernel" => R[i] = R[i - 1]
  <2>1. i + 1 \in 1 .. e + 1 /\ (i + 1) - 1 = i /\ i - 1 \in 0 .. e /\ (i - 1) + 1 = i
    BY <1>4
  <2>2. R[i] = r[i + 1] /\ R[i - 1] = r[i] /\ Tail(F)[i] = F[i + 1]
    <3>1. R[i] = r[i + 1]
      BY <1>2, <2>1
    <3>2. R[i - 1] = r[(i - 1) + 1]
      BY <1>2, <2>1
    <3>3. Tail(F)[i] = F[i + 1]
      BY <1>3, <1>4
    <3> QED BY <2>1, <3>1, <3>2, <3>3
  <2>3. /\ F[i + 1].src = "kernel" =>
             r[i + 1] = r[(i + 1) - 1] + 1 /\ B[r[i + 1]] = F[i + 1]
        /\ F[i + 1].src # "kernel" => r[i + 1] = r[(i + 1) - 1]
    BY <1>1, <2>1
  <2>4. r[(i + 1) - 1] = r[i]
    BY <2>1
  <2> QED BY <2>2, <2>3, <2>4
<1>5. ASSUME NEW i \in 0 .. e, NEW j \in 0 .. e, i <= j
      PROVE  R[i] <= R[j] /\ R[j] + i <= R[i] + j
  <2>1. i + 1 \in 0 .. e + 1 /\ j + 1 \in 0 .. e + 1 /\ i + 1 <= j + 1
    BY <1>5
  <2>2. PICK x \in Nat, y \in Nat : r[i + 1] = x /\ r[j + 1] = y
    <3>1. i + 1 \in Nat /\ j + 1 \in Nat
      OBVIOUS
    <3>2. r[i + 1] \in Nat /\ r[j + 1] \in Nat
      BY <3>1
    <3> QED BY <3>2
  <2>3. x <= y /\ y + (i + 1) <= x + (j + 1)
    BY <1>1, <2>1, <2>2
  <2>4. R[i] = x /\ R[j] = y
    BY <1>2, <1>5, <2>2
  <2>5. x <= y /\ y + i <= x + j
    <3>1. i \in Nat /\ j \in Nat
      OBVIOUS
    <3> QED BY <2>2, <2>3, <3>1
  <2> QED BY <2>4, <2>5
<1> QED BY <1>2, <1>4, <1>5 DEF Ranked

EmifTypes ==
  /\ memory \in [burst : AnyBurst, left : Nat]
  /\ responses \in Seq(MemoryBursts)
  /\ emif_wr_event \in Seq(MemoryBursts) /\ Len(emif_wr_event) <= FifoDepth
  /\ lwe_cs \in {"IDLE", "BURST"} /\ emif_burstcntr \in Nat
  /\ lwe_cs = "BURST" => emif_burstcntr > 0

LEMMA TypesOfEmif ==
  ASSUME Types
  PROVE  EmifTypes
BY DEF Types, TypeOK, EmifTypes, MemoryBursts, KernelBursts, DmaBursts

\* The first beat of a burst.
LEMMA EmifStarts ==
  ASSUME Types, MemoryPort, EmifBeat, NEW b \in MemoryBursts, memory.left = 0,
         memory' = Beats(b, b.burstcnt - 1), Len(emif_wr_event) < FifoDepth
  PROVE  emif_wr_event' = Append(emif_wr_event, b) /\ MemoryPort' /\ EmifTypes'
<1>1. EmifTypes
  BY TypesOfEmif
<1>2. PICK m \in Nat : b.burstcnt = m + 1 /\ b.burstcnt - 1 = m
  <2>1. b.burstcnt \in Nat \ {0}
    BY BurstTypes DEF MemoryBursts
  <2>2. b.burstcnt - 1 \in Nat /\ b.burstcnt = (b.burstcnt - 1) + 1
    BY <2>1
  <2> QED BY <2>2
<1>3. lwe_cs = "IDLE"
  BY <1>1 DEF MemoryPort, EmifTypes
<1>4. memory'.burst = b /\ memory'.left = m
  BY <1>2 DEF Beats
<1>5. emif_wr_event' = Append(emif_wr_event, b)
  BY <1>3, <1>4 DEF EmifBeat, OnFirstBeat, Enqueue
<1>6. lwe_cs' = (IF m = 0 THEN "IDLE" ELSE "BURST") /\ emif_burstcntr' = m
  <2>1. lwe_cs' = we_ns(lwe_cs, b.burstcnt, emif_burstcntr)
        /\ emif_burstcntr' = burstcntr_ns(lwe_cs, b.burstcnt, emif_burstcntr)
    BY <1>4 DEF EmifBeat
  <2> QED BY <1>2, <1>3, <2>1 DEF we_ns, burstcntr_ns
<1>7. responses' = (IF m = 0 THEN Append(responses, b) ELSE responses) /\ write_ack' = write_ack
  BY <1>4 DEF EmifBeat
<1>8. PICK w \in Nat, l \in Nat : write_ack = w /\ Len(responses) = l
  BY AnsweredArrived
<1>9. Len(emif_wr_event) = w + l
  BY <1>8, AnsweredArrived DEF events_in
<1>10. /\ Len(emif_wr_event') = (w + l) + 1
       /\ \A i \in 1 .. w + l : emif_wr_event'[i] = emif_wr_event[i]
       /\ emif_wr_event' \in Seq(MemoryBursts)
  BY <1>1, <1>5, <1>9, AppendFacts DEF EmifTypes
<1>11. emif_wr_event'[(w + l) + 1] = b
  <2>1. emif_wr_event \in Seq(MemoryBursts) /\ (w + l) + 1 = Len(emif_wr_event) + 1
    BY <1>1, <1>9 DEF EmifTypes
  <2>2. Append(emif_wr_event, b)[(w + l) + 1] = b
    BY <2>1, AppendLast
  <2> QED BY <1>5, <2>2
<1>12. \A j \in 1 .. l : responses[j] = emif_wr_event'[w + j]
  <2>1. \A j \in 1 .. l : responses[j] = emif_wr_event[w + j]
    BY <1>8 DEF MemoryPort
  <2>2. \A j \in 1 .. l : w + j \in 1 .. w + l
    BY <1>8
  <2> QED BY <1>10, <2>1, <2>2
<1>13. \A j \in 1 .. Len(responses') : responses'[j] = emif_wr_event'[w + j]
  <2>1. CASE m # 0
    BY <1>7, <1>8, <1>12, <2>1
  <2>2. CASE m = 0
    <3>1. /\ Len(responses') = l + 1
          /\ \A j \in 1 .. l : responses'[j] = responses[j]
      BY <1>1, <1>7, <1>8, <2>2, AppendFacts DEF EmifTypes
    <3>2. responses'[l + 1] = b
      <4>1. responses \in Seq(MemoryBursts) /\ l + 1 = Len(responses) + 1
        BY <1>1, <1>8 DEF EmifTypes
      <4>2. Append(responses, b)[l + 1] = b
        BY <4>1, AppendLast
      <4> QED BY <1>7, <2>2, <4>2
    <3>3. w + (l + 1) = (w + l) + 1
      BY <1>8
    <3>4. ASSUME NEW j \in 1 .. l + 1 PROVE responses'[j] = emif_wr_event'[w + j]
      <4>1. CASE j \in 1 .. l
        BY <1>12, <3>1, <4>1
      <4>2. CASE j = l + 1
        BY <1>11, <3>2, <3>3, <4>2
      <4> QED BY <1>8, <3>4, <4>1, <4>2, LastOrBefore
    <3> QED BY <3>1, <3>4
  <2> QED BY <2>1, <2>2
<1>14. EventsInStep'
  <2>1. CASE m # 0
    <3>1. Len(responses') = l /\ memory'.left > 0
      BY <1>2, <1>4, <1>7, <1>8, <2>1
    <3> QED BY <1>7, <1>8, <1>10, <3>1 DEF EventsInStep
  <2>2. CASE m = 0
    <3>1. Len(responses') = l + 1 /\ ~(memory'.left > 0)
      BY <1>1, <1>4, <1>7, <1>8, <2>2, AppendFacts DEF EmifTypes
    <3>2. (w + l) + 1 = w + (l + 1) + 0
      BY <1>8
    <3> QED BY <1>7, <1>8, <1>10, <3>1, <3>2 DEF EventsInStep
  <2> QED BY <2>1, <2>2
<1>15. MemoryPort'
  <2>1. lwe_cs' = "BURST" <=> memory'.left > 0
    BY <1>2, <1>4, <1>6
  <2>2. memory'.burst = emif_wr_event'[events_in'] /\ memory'.left < memory'.burst.burstcnt
        /\ emif_burstcntr' = memory'.left
    BY <1>2, <1>4, <1>6, <1>8, <1>10, <1>11 DEF events_in
  <2> QED BY <1>7, <1>8, <1>13, <1>14, <2>1, <2>2 DEF MemoryPort
<1>16. EmifTypes'
  <2>1. memory' \in [burst : AnyBurst, left : Nat]
    BY <1>2 DEF Beats, AnyBurst
  <2>2. responses' \in Seq(MemoryBursts)
    BY <1>1, <1>7, AppendFacts DEF EmifTypes
  <2>3. Len(emif_wr_event') <= FifoDepth
    BY <1>8, <1>9, <1>10, SizesAssumption
  <2> QED BY <1>2, <1>6, <1>10, <2>1, <2>2, <2>3 DEF EmifTypes
<1> QED BY <1>5, <1>15, <1>16

\* A beat of a burst that is arriving.
LEMMA EmifContinues ==
  ASSUME Types, MemoryPort, EmifBeat, memory.left > 0
  PROVE  emif_wr_event' = emif_wr_event /\ MemoryPort' /\ EmifTypes'
<1>1. EmifTypes
  BY TypesOfEmif
<1>2. PICK m \in Nat : memory.left = m + 1 /\ memory.left - 1 = m
  <2>1. memory.left \in Nat \ {0}
    BY <1>1 DEF EmifTypes
  <2>2. memory.left - 1 \in Nat /\ memory.left = (memory.left - 1) + 1
    BY <2>1
  <2> QED BY <2>2
<1>3. /\ lwe_cs = "BURST"
      /\ memory.burst = emif_wr_event[events_in]
      /\ memory.left < memory.burst.burstcnt
      /\ emif_burstcntr = memory.left
  BY DEF MemoryPort
<1>4. memory' = [memory EXCEPT !.left = memory.left - 1]
  BY DEF EmifBeat, NextBeat
<1>5. PICK b : memory.burst = b
  OBVIOUS
<1>6. memory'.burst = b /\ memory'.left = m /\ memory' \in [burst : AnyBurst, left : Nat]
  BY <1>1, <1>2, <1>4, <1>5 DEF EmifTypes
<1>7. emif_wr_event' = emif_wr_event
  BY <1>3 DEF EmifBeat, OnFirstBeat
<1>8. lwe_cs' = (IF m = 0 THEN "IDLE" ELSE "BURST") /\ emif_burstcntr' = m
  <2>1. lwe_cs' = we_ns(lwe_cs, memory'.burst.burstcnt, emif_burstcntr)
        /\ emif_burstcntr' = burstcntr_ns(lwe_cs, memory'.burst.burstcnt, emif_burstcntr)
    BY DEF EmifBeat
  <2> QED BY <1>2, <1>3, <2>1 DEF we_ns, burstcntr_ns
<1>9. responses' = (IF m = 0 THEN Append(responses, b) ELSE responses) /\ write_ack' = write_ack
  BY <1>6 DEF EmifBeat
<1>10. PICK w \in Nat, l \in Nat : write_ack = w /\ Len(responses) = l
  BY AnsweredArrived
<1>11. Len(emif_wr_event) = (w + l) + 1
  <2>1. Len(emif_wr_event) = w + l + 1
    BY <1>10, AnsweredArrived DEF events_in
  <2> QED BY <1>10, <2>1
<1>12. emif_wr_event[(w + l) + 1] = b
  BY <1>3, <1>5, <1>11 DEF events_in
<1>13. b \in MemoryBursts
  <2>1. emif_wr_event \in Seq(MemoryBursts) /\ (w + l) + 1 \in 1 .. Len(emif_wr_event)
    BY <1>1, <1>10, <1>11 DEF EmifTypes
  <2>2. emif_wr_event[(w + l) + 1] \in MemoryBursts
    BY <2>1
  <2> QED BY <1>12, <2>2
<1>14. \A j \in 1 .. l : responses[j] = emif_wr_event[w + j]
  BY <1>10 DEF MemoryPort
<1>15. \A j \in 1 .. Len(responses') : responses'[j] = emif_wr_event[w + j]
  <2>1. CASE m # 0
    BY <1>9, <1>10, <1>14, <2>1
  <2>2. CASE m = 0
    <3>1. responses \in Seq(MemoryBursts) /\ l + 1 = Len(responses) + 1
          /\ responses' = Append(responses, b)
      BY <1>1, <1>9, <1>10, <2>2 DEF EmifTypes
    <3>2. /\ Len(responses') = l + 1
          /\ \A j \in 1 .. l : responses'[j] = responses[j]
      BY <1>10, <1>13, <3>1, AppendFacts
    <3>3. responses'[l + 1] = b
      BY <1>13, <3>1, AppendLast
    <3>4. w + (l + 1) = (w + l) + 1
      BY <1>10
    <3>5. ASSUME NEW j \in 1 .. l + 1 PROVE responses'[j] = emif_wr_event[w + j]
      <4>1. CASE j \in 1 .. l
        BY <1>14, <3>2, <4>1
      <4>2. CASE j = l + 1
        BY <1>12, <3>3, <3>4, <4>2
      <4> QED BY <1>10, <3>5, <4>1, <4>2, LastOrBefore
    <3> QED BY <3>2, <3>5
  <2> QED BY <2>1, <2>2
<1>16. EventsInStep'
  <2>1. CASE m # 0
    <3>1. Len(responses') = l /\ memory'.left > 0
      BY <1>2, <1>6, <1>9, <1>10, <2>1
    <3> QED BY <1>7, <1>9, <1>10, <1>11, <3>1 DEF EventsInStep
  <2>2. CASE m = 0
    <3>1. Len(responses') = l + 1 /\ ~(memory'.left > 0)
      BY <1>1, <1>6, <1>9, <1>10, <1>13, <2>2, AppendFacts DEF EmifTypes
    <3>2. (w + l) + 1 = w + (l + 1) + 0
      BY <1>10
    <3> QED BY <1>7, <1>9, <1>10, <1>11, <3>1, <3>2 DEF EventsInStep
  <2> QED BY <2>1, <2>2
<1>17. MemoryPort'
  <2>1. lwe_cs' = "BURST" <=> memory'.left > 0
    BY <1>2, <1>6, <1>8
  <2>2. memory'.burst = emif_wr_event'[events_in']
    BY <1>3, <1>5, <1>6, <1>7 DEF events_in
  <2>3. memory'.left < memory'.burst.burstcnt /\ emif_burstcntr' = memory'.left
    <3>1. b.burstcnt \in Nat /\ m + 1 < b.burstcnt
      BY <1>2, <1>3, <1>5, <1>13, AnyBurstTypes DEF AnyBurst
    <3> QED BY <1>2, <1>6, <1>8, <3>1
  <2> QED BY <1>7, <1>9, <1>10, <1>15, <1>16, <2>1, <2>2, <2>3 DEF MemoryPort
<1>18. EmifTypes'
  <2>1. responses' \in Seq(MemoryBursts)
    BY <1>1, <1>9, <1>13, AppendFacts DEF EmifTypes
  <2> QED BY <1>1, <1>2, <1>6, <1>7, <1>8, <2>1 DEF EmifTypes
<1> QED BY <1>7, <1>17, <1>18

\* The part of the invariant an arriving beat does not touch.
LEMMA EmifFrame ==
  ASSUME EmifBeat, n' = n, NEW B, NEW C, NEW p,
         Numbered(B, C), KernelPort(B, C), KernelEvents(B, p), UnackedFit(C)
  PROVE  Numbered(B, C)' /\ KernelPort(B, C)' /\ KernelEvents(B, p)' /\ UnackedFit(C)'
<1>1. UNCHANGED <<kernel, kernel_wr_event, we_cs, kernel_burstcntr, sent, acked>>
  BY DEF EmifBeat, kernelSM, words
<1> QED BY <1>1 DEF Numbered, KernelPort, KernelEvents, UnackedFit

LEMMA EmifKeepsTypes ==
  ASSUME Types, EmifBeat, EmifTypes', path' \in Seq(KernelBursts),
         bursts' \in [kernel : Nat, dma : Nat]
  PROVE  Types'
<1>1. UNCHANGED <<kernel, kernel_wr_event, write_ack, we_cs, kernel_burstcntr, wr_ack,
                  wr_ack_burstcnt, ack_in_d, burstcnt_d, per_word_ack_counter,
                  sent, committed, acked>>
  BY DEF EmifBeat, kernelSM, tracker, multiply, words
<1>2. TypeOK'
  BY <1>1 DEF Types, TypeOK, EmifTypes, MemoryBursts, KernelBursts, DmaBursts
<1> QED BY <1>1, <1>2 DEF Types, EmifTypes

\* What an arriving beat leaves of the acknowledgements.
LEMMA EmifKeepsAcked ==
  ASSUME EmifBeat, NEW C, NEW r, NEW R, NEW p, Acked(C, r, p), R[write_ack] = r[write_ack]
  PROVE  Acked(C, R, p)'
<1>1. UNCHANGED <<write_ack, wr_ack, wr_ack_burstcnt, ack_in_d, burstcnt_d,
                  per_word_ack_counter, committed, acked>>
  BY DEF EmifBeat, tracker, multiply, words
<1> QED BY <1>1 DEF Acked

\* A burst arrives that is not the DMA engine's, or at an address the kernel does not write.
LEMMA ApartFromArrival ==
  ASSUME Types, Apart, NEW b \in MemoryBursts, b.src = "dma" => b.address \notin KernelWrites,
         emif_wr_event' = Append(emif_wr_event, b), kernel_wr_event' = kernel_wr_event
  PROVE  Apart'
<1>1. emif_wr_event \in Seq(MemoryBursts)
  BY TypesOfEmif DEF EmifTypes
<1>2. PICK m \in Nat : Len(emif_wr_event) = m
  BY <1>1
<1>3. /\ Len(emif_wr_event') = m + 1
      /\ \A j \in 1 .. m : emif_wr_event'[j] = emif_wr_event[j]
  BY <1>1, <1>2, AppendFacts
<1>4. emif_wr_event'[m + 1] = b
  <2>1. m + 1 = Len(emif_wr_event) + 1
    BY <1>2
  <2>2. Append(emif_wr_event, b)[m + 1] = b
    BY <1>1, <2>1, AppendLast
  <2> QED BY <2>2
<1>5. SUFFICES ASSUME NEW i \in 1 .. Len(kernel_wr_event), NEW j \in 1 .. m + 1,
                      emif_wr_event'[j].src = "dma"
               PROVE  kernel_wr_event[i].address # emif_wr_event'[j].address
  BY <1>3 DEF Apart
<1>6. CASE j \in 1 .. m
  BY <1>2, <1>3, <1>5, <1>6 DEF Apart
<1>7. CASE j = m + 1
  <2>1. kernel_wr_event[i].address \in KernelWrites
    BY DEF KernelWrites
  <2> QED BY <1>4, <1>5, <1>7, <2>1
<1> QED BY <1>2, <1>5, <1>6, <1>7, LastOrBefore

LEMMA EmifStartsKernel ==
  ASSUME IInv, EmifBeat, memory.left = 0, path # <<>>, path' = Tail(path),
         memory' = Beats(Head(path), Head(path).burstcnt - 1), UNCHANGED bursts
  PROVE  IInv'
<1>1. PICK B \in [Nat -> AnyBurst], C \in [Nat -> Nat], r \in [Nat -> Nat],
           p \in Nat :
        Numbering(B, C, r, p) /\ UnackedFit(C)
  BY DEF IInv
<1>2. Types /\ TypeOK /\ MemoryPort
  BY DEF IInv, Types
<1>3. PICK k \in Nat : n = k /\ n' = k
  BY <1>2 DEF n, Types, TypeOK
<1>4. PICK e \in Nat : events_in = e
  BY <1>2, AnsweredArrived
<1>5. PICK d \in Nat : bursts.dma = d /\ bursts'.dma = d
  BY <1>2 DEF Types, TypeOK
<1>6. PICK s \in Nat : r[e] = s /\ s <= k /\ e + p <= s + d
  <2>1. r[e] \in Nat
    BY <1>1, <1>4
  <2> QED BY <1>1, <1>3, <1>4, <1>5, <2>1 DEF Numbering, EmifEvents
<1>7. PICK t \in Nat : /\ Taken(C, s) = t /\ sent = t + Len(path)
                       /\ Carries(path, t, B, C, k)
  BY <1>1, <1>3, <1>4, <1>6 DEF Numbering, OnPath
<1>8. C[s] = t
  <2>1. C[s] - 0 = t /\ C[s] \in Nat
    BY <1>1, <1>6, <1>7 DEF Taken
  <2> QED BY <2>1
<1>9. path \in Seq(KernelBursts) /\ Len(path) \in Nat \ {0} /\ Head(path) = path[1]
      /\ Tail(path) \in Seq(KernelBursts) /\ Len(Tail(path)) = Len(path) - 1
  <2>1. path \in Seq(KernelBursts)
    BY <1>2 DEF Types
  <2> QED BY <2>1, TailFacts
<1>10. /\ \A i \in 1 .. k : B[i] \in KernelBursts /\ C[i] = C[i - 1] + B[i].burstcnt
  BY <1>1, <1>3 DEF Numbering, Numbered
<1>11. s < k
  <2>1. SUFFICES ASSUME s = k PROVE FALSE
    BY <1>3, <1>6
  <2>2. PICK x \in Nat : kernel.left = x
    BY <1>2 DEF Types
  <2>3. sent = C[k] - x
    BY <1>1, <1>3, <2>2 DEF Numbering, KernelPort
  <2>4. sent = t - x
    BY <1>8, <2>1, <2>3
  <2>5. PICK l \in Nat \ {0} : Len(path) = l
    BY <1>9
  <2>6. t - x = t + l
    BY <1>7, <2>4, <2>5
  <2> QED BY <1>7, <2>2, <2>5, <2>6
<1>12. PICK b \in KernelBursts : B[s + 1] = b /\ C[s + 1] = t + b.burstcnt
  <2>1. s + 1 \in 1 .. k /\ (s + 1) - 1 = s
    BY <1>3, <1>6, <1>11
  <2>2. B[s + 1] \in KernelBursts /\ C[s + 1] = C[s] + B[s + 1].burstcnt
    BY <1>10, <2>1
  <2> QED BY <1>8, <2>2
<1>13. PICK m \in Nat : b.burstcnt = m + 1 /\ b.burstcnt - 1 = m
  <2>1. PICK c \in Nat \ {0} : b.burstcnt = c
    BY <1>12, BurstTypes
  <2>2. c - 1 \in Nat /\ c = (c - 1) + 1
    BY <2>1
  <2> QED BY <2>1, <2>2
<1>14. Head(path) = b
  <2>1. s + 1 \in 1 .. k /\ (s + 1) - 1 = s /\ 1 \in 1 .. Len(path)
    BY <1>3, <1>6, <1>9, <1>11
  <2>2. C[(s + 1) - 1] < t + 1 /\ t + 1 <= C[s + 1]
    <3>1. C[(s + 1) - 1] = t
      BY <1>8, <2>1
    <3>2. C[s + 1] = t + (m + 1)
      BY <1>12, <1>13
    <3> QED BY <1>7, <1>13, <3>1, <3>2
  <2>3. path[1] = B[s + 1]
    BY <1>7, <2>1, <2>2 DEF Carries
  <2> QED BY <1>9, <1>12, <2>3
<1>15. memory' = Beats(b, b.burstcnt - 1) /\ memory'.burst = b /\ memory'.left = m
       /\ b.src = "kernel" /\ b \in MemoryBursts
  BY <1>12, <1>13, <1>14, BurstTypes DEF Beats, MemoryBursts
<1>16. Len(emif_wr_event) < FifoDepth
  <2>1. e + p < k + d
    BY <1>1, <1>3, <1>4, <1>5, <1>6, <1>11
  <2>2. Len(kernel_wr_event) = k - p /\ p \in 0 .. k
    BY <1>1, <1>3 DEF Numbering, KernelEvents
  <2>3. (k - p) + d <= FifoDepth
    BY <1>5, <2>2 DEF IInv, Outstanding
  <2>4. e < FifoDepth
    BY <1>1, <1>3, <1>4, <1>5, <2>1, <2>2, <2>3, SizesAssumption
  <2> QED BY <1>4, <2>4 DEF events_in
<1>17. emif_wr_event' = Append(emif_wr_event, b) /\ MemoryPort' /\ EmifTypes'
  BY <1>2, <1>15, <1>16, EmifStarts
<1>18. Follows(emif_wr_event, emif_wr_event', e, b) /\ events_in' = e + 1
  <2>1. emif_wr_event \in Seq(MemoryBursts) /\ e + 1 = Len(emif_wr_event) + 1
    BY <1>2, <1>4, TypesOfEmif DEF EmifTypes, events_in
  <2>2. Append(emif_wr_event, b)[e + 1] = b
    BY <1>15, <2>1, AppendLast
  <2>3. /\ Len(Append(emif_wr_event, b)) = Len(emif_wr_event) + 1
        /\ \A i \in 1 .. Len(emif_wr_event) : Append(emif_wr_event, b)[i] = emif_wr_event[i]
    BY <1>15, <2>1, AppendFacts
  <2> QED BY <1>4, <1>17, <2>2, <2>3 DEF Follows, events_in
<1>19. PICK R \in [Nat -> Nat] : R = [r EXCEPT ![e + 1] = s + 1]
  <2>1. s + 1 \in Nat
    BY <1>6
  <2>2. [r EXCEPT ![e + 1] = s + 1] \in [Nat -> Nat]
    BY <1>1, <2>1
  <2> QED BY <2>2
<1>20. Extended(r, R, e, s + 1)
  BY <1>1, <1>4, <1>6, <1>19 DEF Extended
<1>21. EmifEvents(B, R, p)'
  <2>1. Numbers(b, B, s + 1, r[e])
    BY <1>6, <1>12, <1>15 DEF Numbers
  <2>2. Ranked(emif_wr_event, B, r, p, e)
    BY <1>1, <1>4 DEF Numbering, EmifEvents
  <2>3. p \in Nat /\ e \in Nat /\ s + 1 \in Nat
    BY <1>1, <1>4, <1>6
  <2>4. Ranked(emif_wr_event', B, R, p, e + 1)
    BY <1>1, <1>18, <1>19, <1>20, <2>1, <2>2, <2>3, RankedGrows
  <2>5. R[e + 1] = s + 1
    BY <1>20 DEF Extended
  <2>6. s + 1 <= k /\ (e + 1) + p <= (s + 1) + d
    BY <1>1, <1>3, <1>4, <1>5, <1>6, <1>11
  <2> QED BY <1>3, <1>5, <1>18, <2>4, <2>5, <2>6 DEF EmifEvents
<1>22. OnPath(B, C, R[events_in])'
  <2>1. R[e + 1] = s + 1
    BY <1>20 DEF Extended
  <2>2. Taken(C, s + 1)' = t + 1
    <3>1. C[s + 1] = t + (m + 1)
      BY <1>12, <1>13
    <3>2. CASE m = 0
      <4>1. Taken(C, s + 1)' = C[s + 1] - 0
        BY <1>15, <3>2 DEF Taken
      <4> QED BY <1>7, <3>1, <3>2, <4>1
    <3>3. CASE m > 0
      <4>1. Taken(C, s + 1)' = C[s + 1] - m
        BY <1>15, <3>3 DEF Taken
      <4> QED BY <1>7, <1>13, <3>1, <4>1
    <3> QED BY <1>13, <3>2, <3>3
  <2>3. Carries(path', t + 1, B, C, k)
    BY <1>1, <1>3, <1>7, <1>9, PathTaken
  <2>4. sent' = (t + 1) + Len(path')
    <3>1. sent' = sent
      BY DEF EmifBeat, words
    <3> QED BY <1>7, <1>9, <3>1
  <2>5. OnPath(B, C, s + 1)'
    <3>1. PICK v \in Nat : t + 1 = v
      BY <1>7
    <3>2. Taken(C, s + 1)' = v /\ sent' = v + Len(path') /\ Carries(path', v, B, C, k)
      BY <2>2, <2>3, <2>4, <3>1
    <3> QED BY <1>3, <3>1, <3>2 DEF OnPath
  <2>6. R[events_in'] = s + 1
    BY <1>18, <2>1
  <2> QED BY <2>5, <2>6
<1>23. Acked(C, R, p)'
  <2>1. write_ack \in 0 .. e
    BY <1>2, <1>4, AnsweredArrived
  <2>2. R[write_ack] = r[write_ack]
    BY <1>20, <2>1 DEF Extended
  <2>3. Acked(C, r, p)
    BY <1>1 DEF Numbering
  <2> QED BY <2>2, <2>3, EmifKeepsAcked
<1>24. Numbered(B, C)' /\ KernelPort(B, C)' /\ KernelEvents(B, p)' /\ UnackedFit(C)'
  <2>1. n' = n
    BY <1>3
  <2> QED BY <1>1, <2>1, EmifFrame DEF Numbering
<1>25. Types'
  BY <1>2, <1>9, <1>17, EmifKeepsTypes DEF Types, TypeOK
<1>26. Outstanding' /\ Apart'
  <2>1. kernel_wr_event' = kernel_wr_event
    BY DEF EmifBeat
  <2>2. Outstanding'
    BY <1>5, <2>1 DEF IInv, Outstanding
  <2>3. b.src # "dma"
    BY <1>15
  <2> QED BY <1>2, <1>15, <1>17, <2>1, <2>2, <2>3, ApartFromArrival DEF IInv
<1> QED BY <1>1, <1>17, <1>19, <1>21, <1>22, <1>23, <1>24, <1>25, <1>26 DEF IInv, Numbering

LEMMA EmifStartsDma ==
  ASSUME IInv, EmifBeat, memory.left = 0, UNCHANGED path,
         Room, bursts' = [bursts EXCEPT !.dma = @ + 1],
         NEW b \in DmaBursts, b.address \notin KernelWrites, memory' = Beats(b, b.burstcnt - 1)
  PROVE  IInv'
<1>1. PICK B \in [Nat -> AnyBurst], C \in [Nat -> Nat], r \in [Nat -> Nat],
           p \in Nat :
        Numbering(B, C, r, p) /\ UnackedFit(C)
  BY DEF IInv
<1>2. Types /\ TypeOK /\ MemoryPort
  BY DEF IInv, Types
<1>3. PICK k \in Nat : n = k /\ n' = k
  BY <1>2 DEF n, Types, TypeOK
<1>4. PICK e \in Nat : events_in = e
  BY <1>2, AnsweredArrived
<1>5. PICK d \in Nat : bursts.dma = d /\ bursts'.dma = d + 1
  BY <1>2 DEF Types, TypeOK
<1>6. PICK s \in Nat : r[e] = s /\ s <= k /\ e + p <= s + d
  <2>1. r[e] \in Nat
    BY <1>1, <1>4
  <2> QED BY <1>1, <1>3, <1>4, <1>5, <2>1 DEF Numbering, EmifEvents
<1>7. PICK t \in Nat : /\ Taken(C, s) = t /\ sent = t + Len(path)
                       /\ Carries(path, t, B, C, k)
  BY <1>1, <1>3, <1>4, <1>6 DEF Numbering, OnPath
<1>8. C[s] = t
  <2>1. C[s] - 0 = t /\ C[s] \in Nat
    BY <1>1, <1>6, <1>7 DEF Taken
  <2> QED BY <2>1
<1>9. memory'.burst = b /\ b.src = "dma" /\ b \in MemoryBursts
  BY BurstTypes DEF Beats, MemoryBursts
<1>10. Len(emif_wr_event) < FifoDepth
  <2>1. e + p <= k + d
    BY <1>1, <1>3, <1>4, <1>5, <1>6
  <2>2. Len(kernel_wr_event) = k - p /\ p \in 0 .. k
    BY <1>1, <1>3 DEF Numbering, KernelEvents
  <2>3. (k - p) + d < FifoDepth
    BY <1>5, <2>2 DEF Room
  <2>4. PICK q \in Nat : k - p = q /\ k = p + q
    BY <2>2
  <2>5. e < FifoDepth
    BY <1>1, <1>5, <2>1, <2>3, <2>4, SizesAssumption
  <2> QED BY <1>4, <2>5 DEF events_in
<1>11. emif_wr_event' = Append(emif_wr_event, b) /\ MemoryPort' /\ EmifTypes'
  BY <1>2, <1>9, <1>10, EmifStarts
<1>12. Follows(emif_wr_event, emif_wr_event', e, b) /\ events_in' = e + 1
  <2>1. emif_wr_event \in Seq(MemoryBursts) /\ e + 1 = Len(emif_wr_event) + 1
    BY <1>2, <1>4, TypesOfEmif DEF EmifTypes, events_in
  <2>2. Append(emif_wr_event, b)[e + 1] = b
    BY <1>9, <2>1, AppendLast
  <2>3. /\ Len(Append(emif_wr_event, b)) = Len(emif_wr_event) + 1
        /\ \A i \in 1 .. Len(emif_wr_event) : Append(emif_wr_event, b)[i] = emif_wr_event[i]
    BY <1>9, <2>1, AppendFacts
  <2> QED BY <1>4, <1>11, <2>2, <2>3 DEF Follows, events_in
<1>13. PICK R \in [Nat -> Nat] : R = [r EXCEPT ![e + 1] = s]
  BY <1>1, <1>4, <1>6
<1>14. Extended(r, R, e, s)
  BY <1>1, <1>4, <1>6, <1>13 DEF Extended
<1>15. EmifEvents(B, R, p)'
  <2>1. Numbers(b, B, s, r[e])
    BY <1>6, <1>9 DEF Numbers
  <2>2. Ranked(emif_wr_event, B, r, p, e)
    BY <1>1, <1>4 DEF Numbering, EmifEvents
  <2>3. p \in Nat /\ e \in Nat /\ s \in Nat
    BY <1>1, <1>4, <1>6
  <2>4. Ranked(emif_wr_event', B, R, p, e + 1)
    BY <1>1, <1>12, <1>13, <1>14, <2>1, <2>2, <2>3, RankedGrows
  <2>5. R[e + 1] = s
    BY <1>14 DEF Extended
  <2>6. s <= k /\ (e + 1) + p <= s + (d + 1)
    BY <1>1, <1>3, <1>4, <1>5, <1>6
  <2> QED BY <1>3, <1>5, <1>12, <2>4, <2>5, <2>6 DEF EmifEvents
<1>16. OnPath(B, C, R[events_in])'
  <2>1. R[e + 1] = s
    BY <1>14 DEF Extended
  <2>2. Taken(C, s)' = t
    <3>1. Taken(C, s)' = C[s] - 0
      BY <1>9 DEF Taken
    <3> QED BY <1>7, <1>8, <3>1
  <2>3. sent' = sent
    BY DEF EmifBeat, words
  <2>4. OnPath(B, C, s)'
    BY <1>3, <1>7, <2>2, <2>3 DEF OnPath
  <2>5. R[events_in'] = s
    BY <1>12, <2>1
  <2> QED BY <2>4, <2>5
<1>17. Acked(C, R, p)'
  <2>1. write_ack \in 0 .. e
    BY <1>2, <1>4, AnsweredArrived
  <2>2. R[write_ack] = r[write_ack]
    BY <1>14, <2>1 DEF Extended
  <2>3. Acked(C, r, p)
    BY <1>1 DEF Numbering
  <2> QED BY <2>2, <2>3, EmifKeepsAcked
<1>18. Numbered(B, C)' /\ KernelPort(B, C)' /\ KernelEvents(B, p)' /\ UnackedFit(C)'
  <2>1. n' = n
    BY <1>3
  <2> QED BY <1>1, <2>1, EmifFrame DEF Numbering
<1>19. Types'
  <2>1. bursts' \in [kernel : Nat, dma : Nat]
    <3>1. d + 1 \in Nat
      BY <1>5
    <3>2. bursts' = [bursts EXCEPT !.dma = d + 1]
      BY <1>5
    <3> QED BY <1>2, <3>1, <3>2 DEF Types, TypeOK
  <2> QED BY <1>2, <1>11, <2>1, EmifKeepsTypes DEF Types
<1>20. Outstanding' /\ Apart'
  <2>1. kernel_wr_event' = kernel_wr_event
    BY DEF EmifBeat
  <2>2. PICK l \in Nat : Len(kernel_wr_event) = l
    <3>1. kernel_wr_event \in Seq(KernelBursts)
      BY <1>2 DEF TypeOK, KernelBursts
    <3>2. Len(kernel_wr_event) \in Nat
      BY <3>1
    <3> QED BY <3>2
  <2>3. Outstanding'
    <3>1. l + d < FifoDepth
      BY <1>5, <2>2 DEF Room
    <3>2. l + (d + 1) <= FifoDepth
      BY <3>1, SizesAssumption
    <3> QED BY <1>5, <2>1, <2>2, <3>2 DEF Outstanding
  <2> QED BY <1>2, <1>9, <1>11, <2>1, <2>3, ApartFromArrival DEF IInv
<1> QED BY <1>1, <1>11, <1>13, <1>15, <1>16, <1>17, <1>18, <1>19, <1>20 DEF IInv, Numbering

LEMMA EmifGoesOn ==
  ASSUME IInv, EmifBeat, memory.left > 0
  PROVE  IInv'
<1>1. PICK B \in [Nat -> AnyBurst], C \in [Nat -> Nat], r \in [Nat -> Nat],
           p \in Nat :
        Numbering(B, C, r, p) /\ UnackedFit(C)
  BY DEF IInv
<1>2. Types /\ TypeOK /\ MemoryPort
  BY DEF IInv, Types
<1>3. /\ memory' = [memory EXCEPT !.left = memory.left - 1]
      /\ UNCHANGED bursts
      /\ IF memory.burst.src = "kernel" THEN path # <<>> /\ path' = Tail(path)
                                        ELSE path' = path
  <2>1. memory.left # 0
    OBVIOUS
  <2>2. NextBeat
    BY DEF EmifBeat
  <2> QED BY <2>1, <2>2, Zenon DEF NextBeat
<1>4. PICK k \in Nat : n = k /\ n' = k
  BY <1>2, <1>3 DEF n, Types, TypeOK
<1>5. PICK e \in Nat : events_in = e
  BY <1>2, AnsweredArrived
<1>6. emif_wr_event' = emif_wr_event /\ MemoryPort' /\ EmifTypes' /\ events_in' = e
  BY <1>2, <1>5, EmifContinues DEF events_in
<1>7. PICK s \in Nat : r[e] = s
  <2>1. r[e] \in Nat
    BY <1>1, <1>5
  <2> QED BY <2>1
<1>8. PICK t \in Nat : /\ Taken(C, s) = t /\ sent = t + Len(path)
                       /\ Carries(path, t, B, C, k)
  BY <1>1, <1>4, <1>5, <1>7 DEF Numbering, OnPath
<1>9. PICK m \in Nat : memory.left = m + 1 /\ memory'.left = m
                       /\ memory'.burst = memory.burst
  <2>1. PICK c \in Nat \ {0} : memory.left = c
    BY <1>2 DEF Types
  <2>2. c - 1 \in Nat /\ c = (c - 1) + 1
    BY <2>1
  <2>3. memory'.left = c - 1 /\ memory'.burst = memory.burst
    BY <1>2, <1>3, <2>1 DEF Types
  <2> QED BY <2>1, <2>2, <2>3
<1>10. path \in Seq(KernelBursts)
  BY <1>2 DEF Types
<1>11. sent' = sent
  BY DEF EmifBeat, words
<1>12. OnPath(B, C, s)'
  <2>1. PICK x \in Nat : C[s] = x
    BY <1>1, <1>7
  <2>2. CASE memory.burst.src = "kernel"
    <3>1. path # <<>> /\ path' = Tail(path)
      BY <1>3, <2>2
    <3>2. PICK v \in Nat : t + 1 = v
      BY <1>8
    <3>3. Carries(path', v, B, C, k)
      BY <1>1, <1>4, <1>8, <1>10, <3>1, <3>2, PathTaken
    <3>4. sent' = v + Len(path')
      <4>1. PICK l \in Nat \ {0} : Len(path) = l /\ Len(path') = l - 1
        BY <1>10, <3>1, TailFacts
      <4> QED BY <1>8, <1>11, <3>2, <4>1
    <3>5. x = t + (m + 1)
      <4>1. x - (m + 1) = t
        BY <1>8, <1>9, <2>1, <2>2 DEF Taken
      <4> QED BY <1>8, <1>9, <2>1, <4>1
    <3>6. Taken(C, s)' = v
      <4>1. Taken(C, s)' = x - m
        BY <1>9, <2>1, <2>2 DEF Taken
      <4> QED BY <1>8, <1>9, <3>2, <3>5, <4>1
    <3> QED BY <1>4, <3>2, <3>3, <3>4, <3>6 DEF OnPath
  <2>3. CASE memory.burst.src # "kernel"
    <3>1. path' = path
      BY <1>3, <2>3
    <3>2. Taken(C, s)' = Taken(C, s)
      BY <1>9, <2>3 DEF Taken
    <3> QED BY <1>4, <1>8, <1>11, <3>1, <3>2 DEF OnPath
  <2> QED BY <2>2, <2>3
<1>13. OnPath(B, C, r[events_in])'
  BY <1>6, <1>7, <1>12
<1>14. EmifEvents(B, r, p)'
  BY <1>1, <1>3, <1>6 DEF Numbering, EmifEvents, n, events_in
<1>15. Acked(C, r, p)'
  BY <1>1, EmifKeepsAcked DEF Numbering
<1>16. Numbered(B, C)' /\ KernelPort(B, C)' /\ KernelEvents(B, p)' /\ UnackedFit(C)'
  <2>1. n' = n
    BY <1>4
  <2> QED BY <1>1, <2>1, EmifFrame DEF Numbering
<1>17. Types'
  <2>1. path' \in Seq(KernelBursts)
    BY <1>3, <1>10, TailFacts
  <2> QED BY <1>2, <1>3, <1>6, <2>1, EmifKeepsTypes DEF Types, TypeOK
<1>18. Outstanding' /\ Apart'
  <2>1. kernel_wr_event' = kernel_wr_event
    BY DEF EmifBeat
  <2> QED BY <1>3, <1>6, <2>1 DEF IInv, Outstanding, Apart
<1> QED BY <1>1, <1>6, <1>13, <1>14, <1>15, <1>16, <1>17, <1>18 DEF IInv, Numbering

LEMMA EmifStep ==
  ASSUME IInv, EmifBeat
  PROVE  IInv'
<1>1. CASE memory.left = 0 /\ path # <<>> /\ path' = Tail(path) /\ UNCHANGED bursts
           /\ memory' = Beats(Head(path), Head(path).burstcnt - 1)
  BY <1>1, EmifStartsKernel
<1>2. CASE /\ memory.left = 0 /\ Room /\ UNCHANGED path
           /\ bursts' = [bursts EXCEPT !.dma = @ + 1]
           /\ \E b \in DmaBursts : /\ b.address \notin KernelWrites
                                  /\ memory' = Beats(b, b.burstcnt - 1)
  BY <1>2, EmifStartsDma
<1>3. CASE memory.left > 0
  BY <1>3, EmifGoesOn
<1> QED BY <1>1, <1>2, <1>3 DEF EmifBeat, NextBeat, DmaBursts

-----------------------------------------------------------------------------
(***************************************************************************)
(* The memory controller answers a burst.                                  *)
(***************************************************************************)
LEMMA ResponseStep ==
  ASSUME IInv, EmifResponse
  PROVE  IInv'
<1>1. PICK B \in [Nat -> AnyBurst], C \in [Nat -> Nat], r \in [Nat -> Nat],
           p \in Nat :
        Numbering(B, C, r, p) /\ UnackedFit(C)
  BY DEF IInv
<1>2. Types /\ TypeOK /\ MemoryPort /\ EmifTypes
  BY TypesOfEmif DEF IInv, Types
<1>3. UNCHANGED <<kernel, path, memory, bursts, kernel_wr_event, emif_wr_event, we_cs,
                  kernel_burstcntr, lwe_cs, emif_burstcntr, wr_ack, wr_ack_burstcnt,
                  ack_in_d, burstcnt_d, per_word_ack_counter, sent, acked>>
  BY DEF EmifResponse, kernelSM, emifSM, tracker, multiply
<1>4. PICK k \in Nat : n = k /\ n' = k
  BY <1>2, <1>3 DEF n, Types, TypeOK
<1>5. PICK e \in Nat : events_in = e /\ events_in' = e /\ e <= FifoDepth
  BY <1>2, <1>3, AnsweredArrived DEF EmifTypes, events_in
<1>6. PICK l \in Nat : Len(responses) = l + 1 /\ Len(responses') = l
  <2>1. PICK c \in Nat \ {0} : Len(responses) = c /\ Len(responses') = c - 1
    BY <1>2, TailFacts DEF EmifResponse, EmifTypes
  <2>2. c - 1 \in Nat /\ c = (c - 1) + 1
    BY <2>1
  <2> QED BY <2>1, <2>2
<1>7. PICK a \in {0, 1} : a = (IF memory.left > 0 THEN 1 ELSE 0)
  OBVIOUS
<1>8. PICK w \in Nat : write_ack = w /\ e = w + (l + 1) + a /\ w + 1 <= e
  <2>1. write_ack \in 0 .. e /\ e = write_ack + (l + 1) + a
    BY <1>2, <1>5, <1>6, <1>7, AnsweredArrived
  <2>2. PICK w \in Nat : write_ack = w
    BY <1>5, <2>1
  <2>3. e = w + (l + 1) + a /\ a \in {0, 1}
    BY <1>7, <2>1, <2>2
  <2>4. w + 1 <= w + (l + 1) + a
    BY <1>6, <2>2, <2>3
  <2> QED BY <2>2, <2>3, <2>4
<1>9. w + 1 \in 1 .. e /\ w + 1 <= FifoDepth /\ write_ack' = w + 1
  <2>1. w < FifoDepth
    BY <1>5, <1>8, SizesAssumption
  <2> QED BY <1>5, <1>8, <2>1, SizesAssumption DEF EmifResponse
<1>10. PICK b \in MemoryBursts : Head(responses) = b /\ emif_wr_event[w + 1] = b
  <2>1. Head(responses) = responses[1] /\ Head(responses) \in MemoryBursts
    BY <1>2, TailFacts DEF EmifResponse, EmifTypes
  <2>2. 1 \in 1 .. Len(responses)
    BY <1>6
  <2>3. responses[1] = emif_wr_event[w + 1]
    BY <1>2, <1>8, <2>2 DEF MemoryPort
  <2> QED BY <2>1, <2>3
<1>11. /\ b.src = "kernel" => r[w + 1] = r[w] + 1 /\ B[r[w + 1]] = b
       /\ b.src # "kernel" => r[w + 1] = r[w]
  <2>1. /\ emif_wr_event[w + 1].src = "kernel" =>
             r[w + 1] = r[(w + 1) - 1] + 1 /\ B[r[w + 1]] = emif_wr_event[w + 1]
        /\ emif_wr_event[w + 1].src # "kernel" => r[w + 1] = r[(w + 1) - 1]
    BY <1>1, <1>5, <1>9 DEF Numbering, EmifEvents, Ranked
  <2>2. (w + 1) - 1 = w
    BY <1>8
  <2> QED BY <1>10, <2>1, <2>2
<1>12. PICK x \in Nat, y \in Nat : r[w] = x /\ r[w + 1] = y /\ y <= k
  <2>1. r[w] \in Nat /\ r[w + 1] \in Nat /\ r[e] \in Nat
    BY <1>1, <1>5, <1>8
  <2>2. r[w + 1] <= r[e]
    <3>1. w + 1 \in 0 .. e /\ e \in 0 .. e /\ w + 1 <= e
      BY <1>5, <1>8, <1>9
    <3> QED BY <1>1, <1>5, <3>1 DEF Numbering, EmifEvents, Ranked
  <2>3. r[e] <= k
    BY <1>1, <1>4, <1>5 DEF Numbering, EmifEvents
  <2>4. r[w + 1] <= k
    BY <1>4, <2>1, <2>2, <2>3
  <2> QED BY <2>1, <2>4
<1>13. committed' = C[r[w + 1]]
  <2>1. committed = C[x]
    BY <1>1, <1>8, <1>12 DEF Numbering, Acked
  <2>2. committed' = committed + (IF b.src = "kernel" THEN b.burstcnt ELSE 0)
    BY <1>10 DEF EmifResponse
  <2>3. CASE b.src = "kernel"
    <3>1. y = x + 1 /\ B[y] = b
      BY <1>11, <1>12, <2>3
    <3>2. y \in 1 .. k /\ y - 1 = x
      BY <1>4, <1>12, <3>1
    <3>3. C[y] = C[y - 1] + B[y].burstcnt
      BY <1>1, <1>4, <3>2 DEF Numbering, Numbered
    <3>4. C[y] = C[x] + b.burstcnt
      BY <3>1, <3>2, <3>3
    <3> QED BY <1>12, <2>1, <2>2, <2>3, <3>4
  <2>4. CASE b.src # "kernel"
    <3>1. y = x
      BY <1>11, <1>12, <2>4
    <3>2. committed' = C[x] + 0 /\ C[x] \in Nat
      BY <1>1, <1>12, <2>1, <2>2, <2>4
    <3> QED BY <1>12, <3>1, <3>2
  <2> QED BY <2>3, <2>4
<1>14. Acked(C, r, p)'
  BY <1>1, <1>3, <1>9, <1>13 DEF Numbering, Acked
<1>15. Numbered(B, C)' /\ KernelPort(B, C)' /\ KernelEvents(B, p)' /\ UnackedFit(C)'
       /\ EmifEvents(B, r, p)' /\ Outstanding' /\ Apart'
  <2>1. Numbered(B, C)' /\ KernelPort(B, C)' /\ KernelEvents(B, p)' /\ UnackedFit(C)'
    BY <1>1, <1>3
       DEF Numbering, Numbered, KernelPort, KernelEvents, UnackedFit, n
  <2>2. EmifEvents(B, r, p)'
    BY <1>1, <1>3 DEF Numbering, EmifEvents, n, events_in
  <2>3. Outstanding' /\ Apart'
    BY <1>3 DEF IInv, Outstanding, Apart
  <2> QED BY <2>1, <2>2, <2>3
<1>16. OnPath(B, C, r[events_in])'
  <2>1. PICK s : r[e] = s
    OBVIOUS
  <2>2. OnPath(B, C, s)
    BY <1>1, <1>5, <2>1 DEF Numbering
  <2>3. OnPath(B, C, s)'
    BY <1>3, <2>2 DEF OnPath, Taken, n
  <2> QED BY <1>5, <2>1, <2>3
<1>17. MemoryPort'
  <2>1. EventsInStep'
    <3>1. Len(emif_wr_event') = e
      BY <1>5 DEF events_in
    <3>2. e = (w + 1) + l + a
      BY <1>6, <1>7, <1>8
    <3>3. a = (IF memory'.left > 0 THEN 1 ELSE 0)
      BY <1>3, <1>7
    <3> QED BY <1>6, <1>9, <3>1, <3>2, <3>3 DEF EventsInStep
  <2>2. ASSUME NEW j \in 1 .. l PROVE responses'[j] = emif_wr_event[(w + 1) + j]
    <3>1. responses'[j] = responses[j + 1]
      <4>1. \A i \in 1 .. Len(responses) - 1 : Tail(responses)[i] = responses[i + 1]
        BY <1>2, TailFacts DEF EmifResponse, EmifTypes
      <4>2. Len(responses) - 1 = l
        BY <1>6
      <4> QED BY <2>2, <4>1, <4>2 DEF EmifResponse
    <3>2. j + 1 \in 1 .. Len(responses) /\ w + (j + 1) = (w + 1) + j
      BY <1>6, <1>8, <2>2
    <3>3. responses[j + 1] = emif_wr_event[w + (j + 1)]
      BY <1>2, <1>8, <3>2 DEF MemoryPort
    <3> QED BY <3>1, <3>2, <3>3
  <2>3. \A j \in 1 .. Len(responses') : responses'[j] = emif_wr_event'[write_ack' + j]
    BY <1>3, <1>6, <1>9, <2>2
  <2> QED BY <1>2, <1>3, <2>1, <2>3 DEF MemoryPort, events_in
<1>18. Types'
  <2>1. responses' \in Seq(MemoryBursts)
    BY <1>2, TailFacts DEF EmifResponse, EmifTypes
  <2>2. committed' \in Nat
    BY <1>1, <1>12, <1>13
  <2>3. write_ack' \in 0 .. FifoDepth
    BY <1>9, SizesAssumption
  <2> QED BY <1>2, <1>3, <2>1, <2>2, <2>3 DEF Types, TypeOK
<1> QED BY <1>1, <1>14, <1>15, <1>16, <1>17, <1>18 DEF IInv, Numbering

-----------------------------------------------------------------------------
(***************************************************************************)
(* A clock of the kernel.                                                  *)
(***************************************************************************)
\* The multiplier neither loses words nor makes some, as long as they fit its counter.
LEMMA MultiplierStep ==
  ASSUME TypeOK, KernelClock, NEW c \in Nat, c < acked + CounterRange,
         acked + per_word_ack_counter
           + (IF ack_in_d THEN burstcnt_d ELSE 0)
           + (IF wr_ack THEN wr_ack_burstcnt ELSE 0) = c
  PROVE  /\ acked' + per_word_ack_counter' + (IF ack_in_d' THEN burstcnt_d' ELSE 0) = c
         /\ per_word_ack_counter' \in 0 .. CounterRange - 1
         /\ acked' \in Nat /\ ack_in_d' \in BOOLEAN /\ burstcnt_d' \in Nat
         /\ acked <= acked'
<1>1. PICK a \in Nat, x \in Nat : acked = a /\ per_word_ack_counter = x /\ x < CounterRange
  BY SizesAssumption DEF TypeOK
<1>2. PICK y \in Nat : y = (IF ack_in_d THEN burstcnt_d ELSE 0)
  BY DEF TypeOK
<1>3. PICK z \in Nat : z = (IF wr_ack THEN wr_ack_burstcnt ELSE 0)
  BY DEF TypeOK
<1>4. a + x + y + z = c /\ c < a + CounterRange
  BY <1>1, <1>2, <1>3
<1>5. /\ acked' = a + (IF x # 0 THEN 1 ELSE 0)
      /\ ack_in_d' = wr_ack /\ burstcnt_d' = wr_ack_burstcnt
  BY <1>1 DEF KernelClock, per_word_write_ack_out
<1>6. (IF ack_in_d' THEN burstcnt_d' ELSE 0) = z
  BY <1>3, <1>5
<1>7. PICK u \in Nat, v \in Nat : /\ acked' = u /\ per_word_ack_counter' = v
                                  /\ u + v = a + x + y /\ v < CounterRange
  <2>1. CASE ack_in_d /\ x = 0
    <3>1. y < CounterRange /\ burstcnt_d = y
      BY <1>1, <1>2, <1>3, <1>4, <2>1, SizesAssumption
    <3>2. per_word_ack_counter' = y
      <4>1. per_word_ack_counter' = y % CounterRange
        BY <1>1, <2>1, <3>1 DEF KernelClock, next_ack_counter
      <4> QED BY <1>2, <3>1, <4>1, NoWrap
    <3>3. acked' = a
      BY <1>1, <1>5, <2>1
    <3>4. a + y = a + x + y
      BY <1>1, <1>2, <2>1
    <3> QED BY <1>1, <1>2, <3>1, <3>2, <3>3, <3>4
  <2>2. CASE ack_in_d /\ x # 0
    <3>1. burstcnt_d = y
      BY <1>2, <2>2
    <3>2. PICK v \in Nat : x + y - 1 = v
      BY <1>1, <1>2, <2>2
    <3>3. v < CounterRange /\ a + 1 + v = a + x + y
      BY <1>1, <1>2, <1>3, <1>4, <3>2, SizesAssumption
    <3>4. per_word_ack_counter' = v
      <4>1. per_word_ack_counter' = (x + y - 1) % CounterRange
        BY <1>1, <2>2, <3>1 DEF KernelClock, next_ack_counter
      <4>2. per_word_ack_counter' = v % CounterRange
        BY <3>2, <4>1
      <4> QED BY <3>2, <3>3, <4>2, NoWrap
    <3>5. acked' = a + 1
      BY <1>1, <1>5, <2>2
    <3> QED BY <1>1, <3>2, <3>3, <3>4, <3>5
  <2>3. CASE ~ack_in_d /\ x # 0
    <3>1. y = 0
      BY <1>2, <2>3
    <3>2. per_word_ack_counter' = x - 1
      BY <1>1, <2>3 DEF KernelClock, next_ack_counter, per_word_write_ack_out
    <3>3. acked' = a + 1
      BY <1>1, <1>5, <2>3
    <3>4. x - 1 \in Nat /\ a + 1 \in Nat /\ (a + 1) + (x - 1) = a + x + y
          /\ x - 1 < CounterRange
      BY <1>1, <2>3, <3>1, SizesAssumption
    <3> QED BY <3>2, <3>3, <3>4
  <2>4. CASE ~ack_in_d /\ x = 0
    <3>1. y = 0
      BY <1>2, <2>4
    <3>2. per_word_ack_counter' = x /\ acked' = a
      BY <1>1, <1>5, <2>4 DEF KernelClock, next_ack_counter, per_word_write_ack_out
    <3> QED BY <1>1, <3>1, <3>2
  <2> QED BY <2>1, <2>2, <2>3, <2>4 DEF TypeOK
<1>8. u + v + z = c
  BY <1>1, <1>2, <1>3, <1>4, <1>7
<1>9. v \in 0 .. CounterRange - 1
  BY <1>7, SizesAssumption
<1>10. ack_in_d' \in BOOLEAN /\ burstcnt_d' \in Nat
  BY <1>5 DEF TypeOK
<1>11. a <= u
  BY <1>1, <1>5, <1>7
<1> QED BY <1>1, <1>6, <1>7, <1>8, <1>9, <1>10, <1>11

\* A clock begins no burst.
LEMMA ClockKeepsNumber ==
  ASSUME Types, KernelClock
  PROVE  n' = n /\ bursts' \in [kernel : {n}, dma : {bursts.dma, bursts.dma - 1}]
<1>1. bursts \in [kernel : Nat, dma : Nat]
  BY DEF Types, TypeOK
<1>2. bursts' = bursts \/ bursts' = [bursts EXCEPT !.dma = @ - 1]
  BY DEF KernelClock
<1>3. CASE bursts' = bursts
  BY <1>1, <1>3 DEF n
<1>4. CASE bursts' = [bursts EXCEPT !.dma = @ - 1]
  BY <1>1, <1>4 DEF n
<1> QED BY <1>2, <1>3, <1>4

\* What a clock leaves of the acknowledgements still fits, and the rest of the
\* bursts of the kernel is as it was.
LEMMA ClockFrame ==
  ASSUME Types, KernelClock, NEW B, NEW C \in [Nat -> Nat],
         Numbered(B, C), KernelPort(B, C), UnackedFit(C), acked' \in Nat, acked <= acked'
  PROVE  Numbered(B, C)' /\ KernelPort(B, C)' /\ UnackedFit(C)'
<1>1. UNCHANGED <<kernel, we_cs, kernel_burstcntr, sent>>
  BY DEF KernelClock, kernelSM
<1>2. n' = n
  BY ClockKeepsNumber
<1>3. UnackedFit(C)'
  <2>1. PICK x \in Nat, a \in Nat, b \in Nat : C[n] = x /\ acked = a /\ acked' = b
    BY DEF Types, TypeOK, n
  <2>2. x < a + CounterRange /\ a <= b
    BY <2>1 DEF UnackedFit
  <2>3. x < b + CounterRange
    BY <2>1, <2>2, SizesAssumption
  <2> QED BY <1>2, <2>1, <2>3 DEF UnackedFit
<1> QED BY <1>1, <1>2, <1>3 DEF Numbered, KernelPort

\* The words matched fit the counter, beyond those acknowledged.
LEMMA MatchedFit ==
  ASSUME Types, NEW B, NEW C \in [Nat -> Nat], NEW p \in Nat,
         p <= n, Numbered(B, C), UnackedFit(C)
  PROVE  C[p] < acked + CounterRange
<1>1. PICK k \in Nat : n = k
  BY DEF Types, TypeOK, n
<1>2. PICK x \in Nat, y \in Nat, a \in Nat : C[p] = x /\ C[k] = y /\ acked = a
  BY <1>1 DEF Types, TypeOK
<1>3. y < a + CounterRange
  BY <1>1, <1>2 DEF UnackedFit
<1>4. x <= y
  <2>1. p \in 0 .. k /\ k \in 0 .. k /\ p <= k
    BY <1>1
  <2>2. C[p] <= C[k]
    BY <1>1, <2>1 DEF Numbered
  <2> QED BY <1>2, <2>2
<1> QED BY <1>2, <1>3, <1>4, SizesAssumption

LEMMA ClockWaits ==
  ASSUME IInv, KernelClock, write_ack = 0
  PROVE  IInv'
<1>1. PICK B \in [Nat -> AnyBurst], C \in [Nat -> Nat], r \in [Nat -> Nat],
           p \in Nat :
        Numbering(B, C, r, p) /\ UnackedFit(C)
  BY DEF IInv
<1>2. Types /\ TypeOK /\ MemoryPort
  BY DEF IInv, Types
<1>3. /\ UNCHANGED <<kernel, path, memory, responses, bursts, we_cs, kernel_burstcntr, lwe_cs,
                     emif_burstcntr, sent, committed, write_ack, emif_wr_event,
                     kernel_wr_event, wr_ack_burstcnt>>
      /\ ~wr_ack' /\ wr_ack' \in BOOLEAN
  <2>1. ~(write_ack > 0)
    OBVIOUS
  <2>2. UNCHANGED <<kernel, path, memory, responses, bursts, we_cs, kernel_burstcntr, lwe_cs,
                    emif_burstcntr, sent, committed>>
    <3>1. UNCHANGED <<kernel, path, memory, responses, we_cs, kernel_burstcntr, lwe_cs,
                      emif_burstcntr, sent, committed>>
      BY DEF KernelClock, kernelSM, emifSM
    <3>2. bursts' = bursts
      BY <2>1 DEF KernelClock
    <3> QED BY <3>1, <3>2
  <2>3. UNCHANGED <<write_ack, emif_wr_event, kernel_wr_event, wr_ack_burstcnt>>
    BY <2>1 DEF KernelClock
  <2>4. ~wr_ack' /\ wr_ack' \in BOOLEAN
    BY <2>1, Zenon DEF KernelClock
  <2> QED BY <2>2, <2>3, <2>4
<1>4. PICK c \in Nat : C[p] = c /\ c < acked + CounterRange
  <2>1. p <= n
    BY <1>1, <1>2 DEF Numbering, KernelEvents, Types, TypeOK, n
  <2>2. C[p] < acked + CounterRange /\ C[p] \in Nat
    BY <1>1, <1>2, <2>1, MatchedFit DEF Numbering
  <2> QED BY <2>2
<1>5. acked + per_word_ack_counter
        + (IF ack_in_d THEN burstcnt_d ELSE 0)
        + (IF wr_ack THEN wr_ack_burstcnt ELSE 0) = c
  BY <1>1, <1>4 DEF Numbering, Acked
<1>6. /\ acked' + per_word_ack_counter' + (IF ack_in_d' THEN burstcnt_d' ELSE 0) = c
      /\ per_word_ack_counter' \in 0 .. CounterRange - 1
      /\ acked' \in Nat /\ ack_in_d' \in BOOLEAN /\ burstcnt_d' \in Nat
      /\ acked <= acked'
  BY <1>2, <1>4, <1>5, MultiplierStep
<1>7. Acked(C, r, p)'
  <2>1. committed' = C[r[write_ack']]
    BY <1>1, <1>3 DEF Numbering, Acked
  <2>2. acked' + per_word_ack_counter' + (IF ack_in_d' THEN burstcnt_d' ELSE 0)
          + (IF wr_ack' THEN wr_ack_burstcnt' ELSE 0) = c
    <3>1. (IF wr_ack' THEN wr_ack_burstcnt' ELSE 0) = 0
      BY <1>3
    <3>2. c + 0 = c
      BY <1>4
    <3> QED BY <1>6, <3>1, <3>2
  <2> QED BY <1>4, <2>1, <2>2 DEF Acked
<1>8. KernelEvents(B, p)' /\ EmifEvents(B, r, p)' /\ MemoryPort'
  BY <1>1, <1>2, <1>3
     DEF Numbering, KernelEvents, EmifEvents, MemoryPort, EventsInStep, n, events_in
<1>9. OnPath(B, C, r[events_in])'
  <2>1. PICK s : r[events_in] = s /\ r[events_in'] = s
    BY <1>3 DEF events_in
  <2>2. OnPath(B, C, s)
    BY <1>1, <2>1 DEF Numbering
  <2>3. OnPath(B, C, s)'
    BY <1>3, <2>2 DEF OnPath, Taken, n
  <2> QED BY <2>1, <2>3
<1>10. Types'
  BY <1>2, <1>3, <1>6 DEF Types, TypeOK
<1>11. Numbered(B, C)' /\ KernelPort(B, C)' /\ UnackedFit(C)'
  BY <1>1, <1>2, <1>6, ClockFrame DEF Numbering
<1>12. Outstanding' /\ Apart'
  BY <1>3 DEF IInv, Outstanding, Apart
<1> QED BY <1>1, <1>7, <1>8, <1>9, <1>10, <1>11, <1>12 DEF IInv, Numbering

\* The FIFO of the memory's port, without its first event.
LEMMA MemoryPortPops ==
  ASSUME Types, MemoryPort, NEW w \in Nat, write_ack = w + 1, write_ack' = w,
         emif_wr_event # <<>>, emif_wr_event' = Tail(emif_wr_event),
         UNCHANGED <<memory, responses, lwe_cs, emif_burstcntr>>
  PROVE  MemoryPort'
<1>1. EmifTypes
  BY TypesOfEmif
<1>2. PICK m \in Nat : Len(emif_wr_event) = m + 1 /\ Len(emif_wr_event') = m
  <2>1. PICK c \in Nat \ {0} : Len(emif_wr_event) = c /\ Len(emif_wr_event') = c - 1
    BY <1>1, TailFacts DEF EmifTypes
  <2>2. c - 1 \in Nat /\ c = (c - 1) + 1
    BY <2>1
  <2> QED BY <2>1, <2>2
<1>3. \A i \in 1 .. m : emif_wr_event'[i] = emif_wr_event[i + 1]
  <2>1. \A i \in 1 .. Len(emif_wr_event) - 1 : Tail(emif_wr_event)[i] = emif_wr_event[i + 1]
    BY <1>1, TailFacts DEF EmifTypes
  <2>2. Len(emif_wr_event) - 1 = m
    BY <1>2
  <2> QED BY <2>1, <2>2
<1>4. PICK a \in {0, 1} : a = (IF memory.left > 0 THEN 1 ELSE 0)
  OBVIOUS
<1>5. PICK l \in Nat : Len(responses) = l /\ m = w + l + a
  <2>1. PICK l \in Nat : Len(responses) = l
    BY <1>1 DEF EmifTypes
  <2>2. m + 1 = (w + 1) + l + a
    BY <1>2, <1>4, <2>1 DEF MemoryPort, EventsInStep
  <2>3. m = w + l + a
    BY <1>2, <1>4, <2>1, <2>2
  <2> QED BY <2>1, <2>3
<1>6. EventsInStep'
  <2>1. a = (IF memory'.left > 0 THEN 1 ELSE 0)
    BY <1>4
  <2> QED BY <1>2, <1>5, <2>1 DEF EventsInStep
<1>7. ASSUME NEW j \in 1 .. l PROVE responses[j] = emif_wr_event'[w + j]
  <2>1. w + j \in 1 .. m /\ (w + j) + 1 = (w + 1) + j
    <3>1. w + j <= w + l + a
      BY <1>4, <1>5, <1>7
    <3> QED BY <1>5, <1>7, <3>1
  <2>2. emif_wr_event'[w + j] = emif_wr_event[(w + 1) + j]
    BY <1>3, <2>1
  <2>3. responses[j] = emif_wr_event[(w + 1) + j]
    BY <1>5, <1>7 DEF MemoryPort
  <2> QED BY <2>2, <2>3
<1>8. memory'.left > 0 => memory'.burst = emif_wr_event'[events_in']
  <2>1. SUFFICES ASSUME memory.left > 0 PROVE memory.burst = emif_wr_event'[m]
    BY <1>2 DEF events_in
  <2>2. m \in 1 .. m
    <3>1. a = 1
      BY <1>4, <2>1
    <3>2. m >= 1
      BY <1>5, <3>1
    <3> QED BY <1>2, <3>2
  <2>3. memory.burst = emif_wr_event[m + 1]
    BY <1>2, <2>1 DEF MemoryPort, events_in
  <2> QED BY <1>3, <2>2, <2>3
<1>9. \A j \in 1 .. Len(responses') : responses'[j] = emif_wr_event'[write_ack' + j]
  BY <1>5, <1>7
<1> QED BY <1>6, <1>8, <1>9 DEF MemoryPort

\* The kernel's next event is the same burst exactly when the answer is the kernel's.
LEMMA HeadsMatch ==
  ASSUME kernel_wr_event \in Seq(KernelBursts), emif_wr_event \in Seq(MemoryBursts),
         emif_wr_event # <<>>, Apart,
         NEW B \in [Nat -> AnyBurst], NEW p \in Nat, NEW k \in Nat, n = k,
         KernelEvents(B, p), NEW b \in MemoryBursts, Head(emif_wr_event) = b,
         b.src = "kernel" => p + 1 <= k /\ B[p + 1] = b
  PROVE  /\ SameAddress <=> b.src = "kernel"
         /\ SameAddress => kernel_wr_event # <<>> /\ Head(kernel_wr_event) = b
<1>1. CASE b.src = "kernel"
  <2>1. p + 1 <= k /\ B[p + 1] = b
    BY <1>1
  <2>2. PICK m \in Nat : k - p = m + 1
    <3>1. k - p - 1 \in Nat /\ k - p = (k - p - 1) + 1
      BY <2>1
    <3> QED BY <3>1
  <2>3. Len(kernel_wr_event) = m + 1 /\ 1 \in 1 .. k - p
    BY <2>2 DEF KernelEvents
  <2>4. kernel_wr_event[1] = b
    BY <2>1, <2>3 DEF KernelEvents
  <2>5. kernel_wr_event # <<>>
    BY <2>2, <2>3
  <2>6. Head(kernel_wr_event) = b
    BY <2>4, <2>5, TailFacts
  <2> QED BY <1>1, <2>5, <2>6 DEF SameAddress
<1>2. CASE b.src # "kernel"
  <2>1. b.src = "dma"
    BY <1>2, BurstTypes DEF MemoryBursts
  <2>2. SUFFICES ASSUME kernel_wr_event # <<>>
                 PROVE  Head(kernel_wr_event).address # b.address
    BY <1>2 DEF SameAddress
  <2>3. Head(kernel_wr_event) = kernel_wr_event[1] /\ 1 \in 1 .. Len(kernel_wr_event)
    BY <2>2, TailFacts
  <2>4. b = emif_wr_event[1] /\ 1 \in 1 .. Len(emif_wr_event)
    BY TailFacts
  <2> QED BY <2>1, <2>3, <2>4 DEF Apart
<1> QED BY <1>1, <1>2

\* The FIFOs lose their heads.
LEMMA ApartPops ==
  ASSUME Types, Apart, emif_wr_event # <<>>, emif_wr_event' = Tail(emif_wr_event),
         \/ kernel_wr_event' = kernel_wr_event
         \/ kernel_wr_event # <<>> /\ kernel_wr_event' = Tail(kernel_wr_event)
  PROVE  Apart'
<1>1. emif_wr_event \in Seq(MemoryBursts) /\ kernel_wr_event \in Seq(KernelBursts)
  BY TypesOfEmif DEF Types, TypeOK, KernelBursts, EmifTypes
<1>2. ASSUME NEW j \in 1 .. Len(emif_wr_event')
      PROVE  \E l \in 1 .. Len(emif_wr_event) : emif_wr_event'[j] = emif_wr_event[l]
  <2>1. /\ Len(emif_wr_event') = Len(emif_wr_event) - 1 /\ Len(emif_wr_event) \in Nat \ {0}
        /\ \A i \in 1 .. Len(emif_wr_event) - 1 : emif_wr_event'[i] = emif_wr_event[i + 1]
    BY <1>1, TailFacts
  <2>2. j + 1 \in 1 .. Len(emif_wr_event) /\ emif_wr_event'[j] = emif_wr_event[j + 1]
    BY <1>2, <2>1
  <2> QED BY <2>2
<1>3. ASSUME NEW i \in 1 .. Len(kernel_wr_event')
      PROVE  \E l \in 1 .. Len(kernel_wr_event) : kernel_wr_event'[i] = kernel_wr_event[l]
  <2>1. CASE kernel_wr_event' = kernel_wr_event
    BY <1>3, <2>1
  <2>2. CASE kernel_wr_event # <<>> /\ kernel_wr_event' = Tail(kernel_wr_event)
    <3>1. /\ Len(kernel_wr_event') = Len(kernel_wr_event) - 1
          /\ Len(kernel_wr_event) \in Nat \ {0}
          /\ \A j \in 1 .. Len(kernel_wr_event) - 1 : kernel_wr_event'[j] = kernel_wr_event[j + 1]
      BY <1>1, <2>2, TailFacts
    <3>2. i + 1 \in 1 .. Len(kernel_wr_event) /\ kernel_wr_event'[i] = kernel_wr_event[i + 1]
      BY <1>3, <3>1
    <3> QED BY <3>2
  <2> QED BY <2>1, <2>2
<1> QED BY <1>2, <1>3 DEF Apart

LEMMA ClockPops ==
  ASSUME IInv, KernelClock, write_ack # 0
  PROVE  IInv'
<1>1. PICK B \in [Nat -> AnyBurst], C \in [Nat -> Nat], r \in [Nat -> Nat],
           p \in Nat :
        Numbering(B, C, r, p) /\ UnackedFit(C)
  BY DEF IInv
<1>2. Types /\ TypeOK /\ MemoryPort /\ EmifTypes /\ kernel_wr_event \in Seq(KernelBursts)
  BY TypesOfEmif DEF IInv, Types, TypeOK, KernelBursts
<1>3. UNCHANGED <<kernel, path, memory, responses, we_cs, kernel_burstcntr, lwe_cs,
                  emif_burstcntr, sent, committed>>
  BY DEF KernelClock, kernelSM, emifSM
<1>4. PICK k \in Nat : n = k /\ n' = k
  <2>1. n \in Nat
    BY <1>2 DEF n, TypeOK
  <2> QED BY <1>2, <2>1, ClockKeepsNumber
<1>5. PICK e \in Nat, w \in Nat : events_in = e + 1 /\ write_ack = w + 1 /\ w <= e
                                  /\ w + 1 <= FifoDepth
  <2>1. PICK c \in Nat : events_in = c
    BY <1>2, AnsweredArrived
  <2>2. write_ack \in 0 .. c /\ write_ack \in 0 .. FifoDepth
    BY <1>2, <2>1, AnsweredArrived DEF TypeOK
  <2>3. PICK x \in Nat \ {0} : write_ack = x /\ x <= c /\ x <= FifoDepth
    BY <2>1, <2>2, SizesAssumption
  <2>4. c - 1 \in Nat /\ c = (c - 1) + 1 /\ x - 1 \in Nat /\ x = (x - 1) + 1 /\ x - 1 <= c - 1
    BY <2>1, <2>3
  <2> QED BY <2>1, <2>3, <2>4
<1>6. write_ack > 0 /\ emif_wr_event # <<>>
  BY <1>5 DEF events_in
<1>7. PICK b \in MemoryBursts : Head(emif_wr_event) = b /\ emif_wr_event[1] = b
  BY <1>2, <1>6, TailFacts DEF EmifTypes
<1>8. /\ emif_wr_event' = Tail(emif_wr_event)
      /\ write_ack' = w
      /\ kernel_wr_event' = IF SameAddress THEN Tail(kernel_wr_event) ELSE kernel_wr_event
      /\ wr_ack_burstcnt' = IF SameAddress THEN b.burstcnt ELSE wr_ack_burstcnt
      /\ bursts' = IF b.src = "dma" THEN [bursts EXCEPT !.dma = @ - 1] ELSE bursts
  <2>1. write_ack - 1 = w
    BY <1>5
  <2> QED BY <1>6, <1>7, <2>1 DEF KernelClock
<1>9. (wr_ack' <=> SameAddress) /\ wr_ack' \in BOOLEAN
  BY <1>6, Zenon DEF KernelClock
<1>10. /\ r[0] = p
       /\ b.src = "kernel" => r[1] = p + 1 /\ B[r[1]] = b
       /\ b.src # "kernel" => r[1] = p
  <2>1. Ranked(emif_wr_event, B, r, p, e + 1)
    BY <1>1, <1>5 DEF Numbering, EmifEvents
  <2>2. 1 \in 1 .. e + 1 /\ 1 - 1 = 0
    BY <1>5
  <2> QED BY <1>7, <2>1, <2>2 DEF Ranked
<1>11. PICK q \in Nat : r[1] = q /\ q <= k
  <2>1. r[1] \in Nat /\ r[e + 1] \in Nat
    BY <1>1, <1>5
  <2>2. r[1] <= r[e + 1]
    <3>1. 1 \in 0 .. e + 1 /\ e + 1 \in 0 .. e + 1 /\ 1 <= e + 1
      BY <1>5
    <3> QED BY <1>1, <1>5, <3>1 DEF Numbering, EmifEvents, Ranked
  <2>3. r[e + 1] <= k
    BY <1>1, <1>4, <1>5 DEF Numbering, EmifEvents
  <2>4. r[1] <= k
    BY <1>4, <2>1, <2>2, <2>3
  <2> QED BY <2>1, <2>4
<1>12. /\ SameAddress <=> b.src = "kernel"
       /\ SameAddress => kernel_wr_event # <<>> /\ Head(kernel_wr_event) = b
  <2>1. b.src = "kernel" => p + 1 <= k /\ B[p + 1] = b
    BY <1>10, <1>11
  <2>2. KernelEvents(B, p) /\ p \in Nat /\ B \in [Nat -> AnyBurst]
    BY <1>1 DEF Numbering
  <2>3. emif_wr_event \in Seq(MemoryBursts)
    BY <1>2 DEF EmifTypes
  <2>4. Apart
    BY DEF IInv
  <2> QED BY <1>2, <1>4, <1>6, <1>7, <2>1, <2>2, <2>3, <2>4, HeadsMatch
<1>c. PICK d \in Nat :
        /\ bursts.dma = d
        /\ b.src = "dma" => d >= 1 /\ bursts'.dma = d - 1
        /\ b.src # "dma" => bursts'.dma = d
        /\ bursts' \in [kernel : Nat, dma : Nat]
  <2>1. PICK d \in Nat : bursts.dma = d
    BY <1>2 DEF TypeOK
  <2>2. bursts \in [kernel : Nat, dma : Nat]
    BY <1>2 DEF TypeOK
  <2>3. CASE b.src = "dma"
    <3>1. r[1] = p
      BY <1>10, <2>3
    <3>2. PICK s \in Nat : r[e + 1] = s
      BY <1>1, <1>5
    <3>3. s + 1 <= p + (e + 1)
      <4>1. 1 \in 0 .. e + 1 /\ e + 1 \in 0 .. e + 1 /\ 1 <= e + 1
        BY <1>5
      <4>2. Ranked(emif_wr_event, B, r, p, e + 1)
        BY <1>1, <1>5 DEF Numbering, EmifEvents
      <4> QED BY <3>1, <3>2, <4>1, <4>2 DEF Ranked
    <3>4. (e + 1) + p <= s + d
      BY <1>1, <1>5, <2>1, <3>2 DEF Numbering, EmifEvents
    <3>5. d >= 1 /\ d - 1 \in Nat
      BY <1>1, <1>5, <2>1, <3>2, <3>3, <3>4
    <3>6. bursts' = [bursts EXCEPT !.dma = d - 1]
      BY <1>8, <2>1, <2>3
    <3>7. bursts'.dma = d - 1 /\ bursts' \in [kernel : Nat, dma : Nat]
      BY <2>2, <3>5, <3>6
    <3> QED BY <2>1, <2>3, <3>5, <3>7
  <2>4. CASE b.src # "dma"
    BY <1>8, <2>1, <2>2, <2>4
  <2> QED BY <2>3, <2>4
<1>13. KernelEvents(B, q)'
  <2>1. p \in 0 .. k /\ Len(kernel_wr_event) = k - p
        /\ \A i \in 1 .. k - p : kernel_wr_event[i] = B[p + i]
    BY <1>1, <1>4 DEF Numbering, KernelEvents
  <2>2. CASE SameAddress
    <3>1. q = p + 1
      BY <1>10, <1>11, <1>12, <2>2
    <3>2. PICK m \in Nat : k - p = m + 1 /\ k - q = m
      <4>1. k - q \in Nat /\ k - p = (k - q) + 1
        BY <1>1, <1>4, <1>11, <3>1
      <4> QED BY <4>1
    <3>3. kernel_wr_event # <<>> /\ kernel_wr_event' = Tail(kernel_wr_event)
      BY <1>8, <1>12, <2>2
    <3>4. Len(kernel_wr_event') = m
          /\ \A i \in 1 .. m : kernel_wr_event'[i] = kernel_wr_event[i + 1]
      <4>1. Len(kernel_wr_event) = m + 1
        BY <2>1, <3>2
      <4>2. Len(Tail(kernel_wr_event)) = Len(kernel_wr_event) - 1
            /\ \A i \in 1 .. Len(kernel_wr_event) - 1 :
                 Tail(kernel_wr_event)[i] = kernel_wr_event[i + 1]
        BY <1>2, <3>3, TailFacts
      <4>3. Len(kernel_wr_event) - 1 = m
        BY <3>2, <4>1
      <4> QED BY <3>3, <4>2, <4>3
    <3>5. ASSUME NEW i \in 1 .. m PROVE kernel_wr_event'[i] = B[q + i]
      <4>1. i + 1 \in 1 .. k - p /\ p + (i + 1) = q + i
        BY <1>1, <3>1, <3>2, <3>5
      <4>2. kernel_wr_event[i + 1] = B[p + (i + 1)]
        BY <2>1, <4>1
      <4> QED BY <3>4, <3>5, <4>1, <4>2
    <3>6. q \in 0 .. k
      BY <1>4, <1>11
    <3> QED BY <1>4, <3>2, <3>4, <3>5, <3>6 DEF KernelEvents
  <2>3. CASE ~SameAddress
    <3>1. q = p /\ kernel_wr_event' = kernel_wr_event
      BY <1>8, <1>10, <1>11, <1>12, <2>3
    <3> QED BY <1>4, <2>1, <3>1 DEF KernelEvents
  <2> QED BY <2>2, <2>3
<1>14. C[q] = C[p] + (IF SameAddress THEN b.burstcnt ELSE 0)
  <2>1. CASE SameAddress
    <3>1. q = p + 1 /\ B[q] = b
      BY <1>10, <1>11, <1>12, <2>1
    <3>2. q \in 1 .. k /\ q - 1 = p
      BY <1>1, <1>4, <1>11, <3>1
    <3>3. C[q] = C[q - 1] + B[q].burstcnt
      BY <1>1, <1>4, <3>2 DEF Numbering, Numbered
    <3> QED BY <2>1, <3>1, <3>2, <3>3
  <2>2. CASE ~SameAddress
    <3>1. q = p
      BY <1>10, <1>11, <1>12, <2>2
    <3>2. C[p] \in Nat
      BY <1>1
    <3>3. C[p] = C[p] + 0
      BY <3>2
    <3> QED BY <2>2, <3>1, <3>3
  <2> QED BY <2>1, <2>2
<1>15. PICK c \in Nat : C[p] = c /\ c < acked + CounterRange
  <2>1. p <= n
    BY <1>1, <1>4 DEF Numbering, KernelEvents
  <2>2. C[p] < acked + CounterRange /\ C[p] \in Nat
    BY <1>1, <1>2, <2>1, MatchedFit DEF Numbering
  <2> QED BY <2>2
<1>16. acked + per_word_ack_counter
         + (IF ack_in_d THEN burstcnt_d ELSE 0)
         + (IF wr_ack THEN wr_ack_burstcnt ELSE 0) = c
  BY <1>1, <1>15 DEF Numbering, Acked
<1>17. /\ acked' + per_word_ack_counter' + (IF ack_in_d' THEN burstcnt_d' ELSE 0) = c
       /\ per_word_ack_counter' \in 0 .. CounterRange - 1
       /\ acked' \in Nat /\ ack_in_d' \in BOOLEAN /\ burstcnt_d' \in Nat
       /\ acked <= acked'
  BY <1>2, <1>15, <1>16, MultiplierStep
<1>18. PICK R \in [Nat -> Nat] : R = [i \in Nat |-> r[i + 1]]
  <2>1. [i \in Nat |-> r[i + 1]] \in [Nat -> Nat]
    BY <1>1
  <2> QED BY <2>1
<1>19. R[e] = r[e + 1] /\ R[w] = r[w + 1]
  BY <1>5, <1>18
<1>20. Acked(C, R, q)'
  <2>1. committed' = C[R[write_ack']]
    <3>1. committed = C[r[w + 1]]
      BY <1>1, <1>5 DEF Numbering, Acked
    <3> QED BY <1>3, <1>8, <1>19, <3>1
  <2>2. (IF wr_ack' THEN wr_ack_burstcnt' ELSE 0) = (IF SameAddress THEN b.burstcnt ELSE 0)
    BY <1>8, <1>9
  <2>3. acked' + per_word_ack_counter' + (IF ack_in_d' THEN burstcnt_d' ELSE 0)
          + (IF wr_ack' THEN wr_ack_burstcnt' ELSE 0) = C[q]
    BY <1>14, <1>15, <1>17, <2>2
  <2> QED BY <2>1, <2>3 DEF Acked
<1>21. events_in' = e /\ emif_wr_event' \in Seq(MemoryBursts)
  <2>1. emif_wr_event \in Seq(MemoryBursts)
    BY <1>2 DEF EmifTypes
  <2>2. Len(Tail(emif_wr_event)) = Len(emif_wr_event) - 1
        /\ Tail(emif_wr_event) \in Seq(MemoryBursts)
    BY <1>6, <2>1, TailFacts
  <2>3. Len(emif_wr_event) = e + 1 /\ (e + 1) - 1 = e
    BY <1>5 DEF events_in
  <2> QED BY <1>8, <2>2, <2>3 DEF events_in
<1>22. EmifEvents(B, R, q)'
  <2>1. Ranked(emif_wr_event, B, r, p, e + 1)
    BY <1>1, <1>5 DEF Numbering, EmifEvents
  <2>2. emif_wr_event \in Seq(MemoryBursts) /\ Len(emif_wr_event) = e + 1
    BY <1>2, <1>5 DEF EmifTypes, events_in
  <2>3. Ranked(emif_wr_event', B, R, r[1], e)
    BY <1>1, <1>5, <1>6, <1>8, <1>18, <2>1, <2>2, RankedTaken
  <2>4. Ranked(emif_wr_event', B, R, q, e)
    BY <1>11, <2>3
  <2>5. PICK s \in Nat : r[e + 1] = s
    BY <1>1, <1>5
  <2>6. s <= k /\ (e + 1) + p <= s + d
    BY <1>1, <1>4, <1>5, <1>c, <2>5 DEF Numbering, EmifEvents
  <2>7. R[e] = s
    BY <1>19, <2>5
  <2>8. e + q <= s + bursts'.dma
    <3>1. CASE b.src = "dma"
      <4>1. q = p /\ bursts'.dma = d - 1
        BY <1>10, <1>11, <1>c, <3>1
      <4> QED BY <1>1, <1>5, <1>c, <2>5, <2>6, <4>1
    <3>2. CASE b.src # "dma"
      <4>1. q = p + 1 /\ bursts'.dma = d
        BY <1>7, <1>10, <1>11, <1>c, <3>2, BurstTypes DEF MemoryBursts
      <4> QED BY <1>1, <1>5, <1>c, <2>5, <2>6, <4>1
    <3> QED BY <3>1, <3>2
  <2> QED BY <1>4, <1>21, <2>4, <2>6, <2>7, <2>8 DEF EmifEvents
<1>23. OnPath(B, C, R[events_in])'
  <2>1. PICK s : r[e + 1] = s
    OBVIOUS
  <2>2. OnPath(B, C, s)
    BY <1>1, <1>5, <2>1 DEF Numbering
  <2>3. OnPath(B, C, s)'
    BY <1>3, <1>4, <2>2 DEF OnPath, Taken
  <2> QED BY <1>19, <1>21, <2>1, <2>3
<1>24. MemoryPort'
  BY <1>2, <1>3, <1>5, <1>6, <1>8, MemoryPortPops
<1>25. Numbered(B, C)' /\ KernelPort(B, C)' /\ UnackedFit(C)'
  BY <1>1, <1>2, <1>17, ClockFrame DEF Numbering
<1>26. Types'
  <2>1. /\ kernel_wr_event' \in Seq(KernelBursts)
        /\ Len(kernel_wr_event') <= FifoDepth
    <3>1. PICK x \in Nat : Len(kernel_wr_event) = x /\ x <= FifoDepth
      BY <1>2 DEF TypeOK
    <3>2. CASE SameAddress
      <4>1. Tail(kernel_wr_event) \in Seq(KernelBursts)
            /\ Len(Tail(kernel_wr_event)) = x - 1
        BY <1>2, <1>12, <3>1, <3>2, TailFacts
      <4> QED BY <1>8, <3>1, <3>2, <4>1, SizesAssumption
    <3>3. CASE ~SameAddress
      BY <1>2, <1>8, <3>1, <3>3
    <3> QED BY <3>2, <3>3
  <2>2. Len(emif_wr_event') <= FifoDepth
    <3>1. e + 1 <= FifoDepth
      BY <1>2, <1>5 DEF EmifTypes, events_in
    <3> QED BY <1>5, <1>21, <3>1, SizesAssumption DEF events_in
  <2>3. wr_ack_burstcnt' \in Nat
    BY <1>2, <1>7, <1>8, AnyBurstTypes DEF AnyBurst, TypeOK
  <2>4. write_ack' \in 0 .. FifoDepth
    BY <1>5, <1>8, SizesAssumption
  <2> QED BY <1>2, <1>3, <1>9, <1>17, <1>21, <1>c, <2>1, <2>2, <2>3, <2>4
          DEF Types, TypeOK, KernelBursts, MemoryBursts, DmaBursts
<1>27. q \in Nat /\ R \in [Nat -> Nat]
  BY <1>11, <1>18
<1>28. Apart'
  BY <1>2, <1>6, <1>8, <1>12, ApartPops DEF IInv
<1>29. Outstanding'
  <2>1. PICK l \in Nat, m \in Nat : Len(kernel_wr_event) = l /\ Len(kernel_wr_event') = m /\ m <= l
    <3>1. PICK l \in Nat : Len(kernel_wr_event) = l
      BY <1>2
    <3>2. CASE SameAddress
      <4>1. Len(kernel_wr_event') = l - 1 /\ l \in Nat \ {0}
        BY <1>2, <1>8, <1>12, <3>1, <3>2, TailFacts
      <4> QED BY <3>1, <4>1
    <3>3. CASE ~SameAddress
      BY <1>8, <3>1, <3>3
    <3> QED BY <3>2, <3>3
  <2>2. PICK x \in Nat : bursts'.dma = x /\ x <= d
    BY <1>c
  <2>3. l + d <= FifoDepth
    BY <1>c, <2>1 DEF IInv, Outstanding
  <2>4. m + x <= FifoDepth
    BY <2>1, <2>2, <2>3, SizesAssumption
  <2> QED BY <2>1, <2>2, <2>4 DEF Outstanding
<1> QED BY <1>1, <1>13, <1>20, <1>22, <1>23, <1>24, <1>25, <1>26, <1>27, <1>28, <1>29
     DEF IInv, Numbering

-----------------------------------------------------------------------------
(***************************************************************************)
(* Every state.                                                            *)
(***************************************************************************)
LEMMA InitInv ==
  ASSUME Init
  PROVE  IInv
<1>1. PICK B \in [Nat -> AnyBurst] : B = [i \in Nat |-> NoBeats.burst]
  BY DEF AnyBurst
<1>2. PICK C \in [Nat -> Nat] : C = [i \in Nat |-> 0]
  OBVIOUS
<1>3. NoBeats.burst \in AnyBurst /\ NoBeats.left = 0 /\ NoBeats \in [burst : AnyBurst, left : Nat]
  BY DEF AnyBurst, NoBeats, Beats
<1>4. Types
  <2>1. TypeOK
    <3>1. 0 \in 0 .. CounterRange - 1 /\ 0 \in 0 .. FifoDepth
      BY SizesAssumption
    <3>2. /\ kernel_wr_event \in Seq(Bursts("kernel"))
          /\ emif_wr_event \in Seq(Bursts("kernel") \cup Bursts("dma"))
          /\ Len(kernel_wr_event) = 0 /\ Len(emif_wr_event) = 0
      BY DEF Init
    <3>3. Len(kernel_wr_event) <= FifoDepth /\ Len(emif_wr_event) <= FifoDepth
      BY <3>2, SizesAssumption
    <3> QED BY <3>1, <3>2, <3>3 DEF Init, TypeOK
  <2> QED BY <1>3, <2>1 DEF Init, Types
<1>5. MemoryPort
  BY <1>3 DEF Init, MemoryPort, EventsInStep
<1>6. n = 0 /\ events_in = 0 /\ bursts.dma = 0
  BY DEF Init, n, events_in
<1>7. \A i \in Nat : C[i] = 0
  BY <1>2
<1>8. Numbered(B, C)
  BY <1>1, <1>2, <1>6, <1>7 DEF Numbered
<1>9. KernelPort(B, C)
  BY <1>3, <1>6, <1>7 DEF Init, KernelPort
<1>10. OnPath(B, C, 0)
  BY <1>3, <1>6, <1>7 DEF Init, OnPath, Taken, Carries
<1>11. KernelEvents(B, 0)
  BY <1>6 DEF Init, KernelEvents
<1>12. EmifEvents(B, C, 0)
  BY <1>6, <1>7 DEF Init, EmifEvents, Ranked
<1>13. Acked(C, C, 0)
  BY <1>7 DEF Init, Acked
<1>14. Numbering(B, C, C, 0)
  BY <1>6, <1>7, <1>8, <1>9, <1>10, <1>11, <1>12, <1>13 DEF Numbering
<1>15. UnackedFit(C)
  BY <1>6, <1>7, SizesAssumption DEF Init, UnackedFit
<1>16. Outstanding /\ Apart
  <2>1. Len(kernel_wr_event) = 0
    BY DEF Init
  <2> QED BY <1>6, <2>1, SizesAssumption DEF Outstanding, Apart
<1> QED BY <1>1, <1>2, <1>4, <1>5, <1>14, <1>15, <1>16 DEF IInv

LEMMA NextInv ==
  ASSUME IInv, [Next]_vars
  PROVE  IInv'
<1>1. CASE KernelBeat
  BY <1>1, KernelStarts, KernelContinues
<1>2. CASE EmifBeat
  BY <1>2, EmifStep
<1>3. CASE EmifResponse
  BY <1>3, ResponseStep
<1>4. CASE KernelClock
  BY <1>4, ClockWaits, ClockPops
<1>5. CASE UNCHANGED vars
  <2>1. UNCHANGED <<kernel, path, memory, responses, bursts, kernel_wr_event, emif_wr_event,
                    write_ack, we_cs, kernel_burstcntr, lwe_cs, emif_burstcntr, wr_ack,
                    wr_ack_burstcnt, ack_in_d, burstcnt_d, per_word_ack_counter,
                    sent, committed, acked>>
    BY <1>5 DEF vars, traffic, events, kernelSM, emifSM, tracker, multiply, words
  <2>2. PICK B \in [Nat -> AnyBurst], C \in [Nat -> Nat], r \in [Nat -> Nat],
             p \in Nat :
          Numbering(B, C, r, p) /\ UnackedFit(C)
    BY DEF IInv
  <2>3. Numbered(B, C)' /\ KernelPort(B, C)' /\ KernelEvents(B, p)' /\ UnackedFit(C)'
    BY <2>1, <2>2 DEF Numbering, Numbered, KernelPort, KernelEvents, UnackedFit, n
  <2>4. EmifEvents(B, r, p)' /\ Acked(C, r, p)' /\ OnPath(B, C, r[events_in])'
    BY <2>1, <2>2 DEF Numbering, EmifEvents, Acked, OnPath, Taken, n, events_in
  <2>5. Types' /\ MemoryPort' /\ Outstanding' /\ Apart'
    BY <2>1 DEF IInv, Types, TypeOK, MemoryPort, EventsInStep, Outstanding, Apart, events_in
  <2> QED BY <2>2, <2>3, <2>4, <2>5 DEF IInv, Numbering
<1> QED BY <1>1, <1>2, <1>3, <1>4, <1>5 DEF Next

(***************************************************************************)
(* In every state the bursts of the kernel can be numbered so that what is *)
(* on the way, in the FIFOs and in the multiplier accounts for every word. *)
(***************************************************************************)
THEOREM AckInvariance == Spec => []IInv
BY InitInv, NextInv, PTL DEF Spec

(***************************************************************************)
(* Types, with the FIFOs and the counter within their sizes.               *)
(***************************************************************************)
THEOREM AckTypes == Spec => []TypeOK
<1>1. IInv => TypeOK
  BY DEF IInv, Types
<1> QED BY <1>1, AckInvariance, PTL

(***************************************************************************)
(* The FIFO of events of the memory's port is in step with its answers.    *)
(***************************************************************************)
THEOREM EventsAlwaysInStep == Spec => []EventsInStep
<1>1. IInv => EventsInStep
  BY DEF IInv, MemoryPort
<1> QED BY <1>1, AckInvariance, PTL

(***************************************************************************)
(* No word is acknowledged before the memory has answered its burst: the   *)
(* bursts matched are some of those that have been answered.               *)
(***************************************************************************)
THEOREM NeverAcksEarly == Spec => []NeverEarly
<1>1. IInv => NeverEarly
  <2> SUFFICES ASSUME IInv PROVE NeverEarly
    OBVIOUS
  <2>1. PICK B \in [Nat -> AnyBurst], C \in [Nat -> Nat], r \in [Nat -> Nat],
             p \in Nat :
          Numbering(B, C, r, p) /\ UnackedFit(C)
    BY DEF IInv
  <2>2. Types /\ TypeOK /\ MemoryPort
    BY DEF IInv, Types
  <2>3. PICK e \in Nat, w \in Nat : events_in = e /\ write_ack = w /\ w <= e
    <3>1. PICK e \in Nat : events_in = e
      BY <2>2, AnsweredArrived
    <3>2. write_ack \in 0 .. e
      BY <2>2, <3>1, AnsweredArrived
    <3> QED BY <3>1, <3>2
  <2>4. PICK k \in Nat : n = k
    BY <2>2 DEF n, TypeOK
  <2>5. PICK x \in Nat, z \in Nat : r[w] = x /\ r[e] = z /\ p <= x /\ x <= z /\ z <= k
    <3>1. r[w] \in Nat /\ r[e] \in Nat
      BY <2>1, <2>3
    <3>2. 0 \in 0 .. e /\ w \in 0 .. e /\ e \in 0 .. e /\ 0 <= w /\ w <= e
      BY <2>3
    <3>3. r[0] = p /\ r[0] <= r[w] /\ r[w] <= r[e] /\ r[e] <= k
      BY <2>1, <2>3, <2>4, <3>2 DEF Numbering, EmifEvents, Ranked
    <3> QED BY <3>1, <3>3
  <2>6. C[p] <= C[x]
    <3>1. p \in 0 .. k /\ x \in 0 .. k
      BY <2>1, <2>4, <2>5
    <3> QED BY <2>1, <2>4, <2>5, <3>1 DEF Numbering, Numbered
  <2>7. committed = C[x]
    BY <2>1, <2>3, <2>5 DEF Numbering, Acked
  <2>8. acked <= C[p]
    <3>1. PICK a \in Nat, c \in Nat : acked = a /\ C[p] = c
      BY <2>1, <2>2 DEF TypeOK
    <3>2. PICK y \in Nat : y = (IF ack_in_d THEN burstcnt_d ELSE 0)
      BY <2>2 DEF TypeOK
    <3>3. PICK v \in Nat : v = (IF wr_ack THEN wr_ack_burstcnt ELSE 0)
      BY <2>2 DEF TypeOK
    <3>4. PICK u \in Nat : per_word_ack_counter = u
      BY <2>2, SizesAssumption DEF TypeOK
    <3>5. a + u + y + v = c
      BY <2>1, <3>1, <3>2, <3>3, <3>4 DEF Numbering, Acked
    <3>6. a <= c
      BY <3>1, <3>2, <3>3, <3>4, <3>5
    <3> QED BY <3>1, <3>6
  <2>9. PICK a \in Nat, c \in Nat, d \in Nat : acked = a /\ C[p] = c /\ C[x] = d
    BY <2>1, <2>2, <2>5 DEF TypeOK
  <2>10. a <= c /\ c <= d /\ committed = d
    BY <2>6, <2>7, <2>8, <2>9
  <2> QED BY <2>9, <2>10 DEF NeverEarly
<1> QED BY <1>1, AckInvariance, PTL

(***************************************************************************)
(* When nothing is on the way, every word sent has been acknowledged once: *)
(* all the kernel's bursts have arrived and have been matched.             *)
(***************************************************************************)
THEOREM AcksExactly == Spec => []AckedExactly
<1>1. IInv => AckedExactly
  <2> SUFFICES ASSUME IInv,
                      kernel.left = 0, path = <<>>, memory.left = 0, responses = <<>>,
                      write_ack = 0, ~wr_ack, ~ack_in_d, per_word_ack_counter = 0
               PROVE  acked = sent
    BY DEF AckedExactly
  <2>1. PICK B \in [Nat -> AnyBurst], C \in [Nat -> Nat], r \in [Nat -> Nat],
             p \in Nat :
          Numbering(B, C, r, p) /\ UnackedFit(C)
    BY DEF IInv
  <2>2. TypeOK /\ MemoryPort
    BY DEF IInv, Types
  <2>3. events_in = 0
    BY <2>2 DEF MemoryPort, EventsInStep, events_in
  <2>4. r[0] = p
    BY <2>1, <2>3 DEF Numbering, EmifEvents, Ranked
  <2>5. PICK c \in Nat : C[p] = c
    BY <2>1
  <2>6. sent = c
    <3>1. sent = Taken(C, p) + 0
      BY <2>1, <2>3, <2>4 DEF Numbering, OnPath
    <3>2. Taken(C, p) = c - 0
      BY <2>5 DEF Taken
    <3> QED BY <2>5, <3>1, <3>2
  <2>7. acked = c
    <3>1. acked + 0 + 0 + 0 = c
      BY <2>1, <2>5 DEF Numbering, Acked
    <3> QED BY <2>2, <3>1 DEF TypeOK
  <2> QED BY <2>6, <2>7
<1> QED BY <1>1, AckInvariance, PTL
=============================================================================
