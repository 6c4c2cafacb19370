----------------------------- MODULE DmaTransfer -----------------------------
(***************************************************************************)
(* One channel of the DMA controller (dma_data_transfer.sv): it reads the  *)
(* words of the source that hold the bytes of a command, shifts them to    *)
(* the offset of the destination through a pipeline, buffers them, and     *)
(* writes them in bursts, with byte enables on the first and the last.     *)
(*                                                                         *)
(* A step of Clock is a clock of the board: every register takes its next  *)
(* value, from the values before the clock and from what the memories do   *)
(* in it.  Registers have the names of the source.  A byte of data is      *)
(* represented by the address it was read from, so that moved, the pairs   *)
(* <<s, d>> written, shows where it went.  Addresses are those of bytes.   *)
(*                                                                         *)
(* Left out: reset; the registers that only repeat what the command says   *)
(* (lengths in words, byte enables, shifts), which settle before it is     *)
(* latched; the copies of comparisons that are a clock late to ease timing *)
(* (the _hi_bits); rd_reqs_complete_reg, which repeats the end of the      *)
(* requests when the state has moved on; the counters for the CSRs.        *)
(***************************************************************************)
EXTENDS Integers, Sequences

CONSTANTS
  Commands,               \* the descriptors a channel may be given
  NULL,
  BytesPerWord,           \* HOSTMEM_DATA_BYTES_PER_WORD
  SRC_RD_BURSTCOUNT_MAX,
  DST_WR_BURSTCOUNT_MAX,
  RDDATA_BUFFER_DEPTH,
  DATA_BUFFER_SKID_SPACE

\* The skid space of dma_data_transfer.sv:62-64 is 16 bursts of at most 16
\* words, or 4 of more: both are above the bound here.  With a buffer smaller
\* than the last bound a channel can wait for ever, the reader for room and the
\* writer for a whole burst; RDDATA_BUFFER_DEPTH is 1024 (dma_pkg.sv:136).
ASSUME TransferAssumption ==
  /\ Commands \subseteq [src : Nat, dst : Nat, len : Nat \ {0}]
  /\ NULL \notin Commands
  /\ BytesPerWord \in Nat \ {0, 1}
  /\ SRC_RD_BURSTCOUNT_MAX \in Nat \ {0}
  /\ DST_WR_BURSTCOUNT_MAX \in Nat \ {0}
  /\ RDDATA_BUFFER_DEPTH \in Nat
  /\ DATA_BUFFER_SKID_SPACE \in Nat
  /\ DATA_BUFFER_SKID_SPACE >= 3 * SRC_RD_BURSTCOUNT_MAX + 8
  /\ RDDATA_BUFFER_DEPTH >= DATA_BUFFER_SKID_SPACE + DST_WR_BURSTCOUNT_MAX

VARIABLES
  build,                 \* parameters: to the host? writes the magic number?
  descriptor, moved,     \* of DmaDescriptor
  \* command
  cmdq,                  \* cmd_pipeline, the command FIFO
  cmdq_dout,             \* the command in use
  latch,                 \* latch_this_cmd_pre[1..3], _cmd, _post[0..2]
  \* reading
  rd_state, src_addr_cntr, src_burst_cnt, rd_xfer_remaining,
  pending,               \* words the source owes, in order
  readdatavalid,         \* src_avmm_int_readdatavalid
  readdata,
  readdatavalid_cntr, outstanding_read_reqs, free_space_in_databuf,
  there_is_space_in_databuf, pipeline_flush_count,
  \* the pipeline that shifts
  pipeline_shifter,      \* how many of its bits are set, at most 6
  stage0, double_width_readdata, zero_aligned, dbl_writedata, shifted,
  \* buffer
  databuf, databuf_writes_cntr, databuffer_wr_req_d, local_databuf_usedw,
  \* writing
  wr_state, this_is_first_burst_word, dst_write_cntr, dst_avmm_address,
  dst_avmm_burstcount, wr_xfer_remaining,
  beats_left,            \* beats of its burst the destination still expects
  \* end
  all_transfers_complete_latched, controller_busy_d, irq

hostVars == <<build, descriptor>>
cmdVars == <<cmdq, cmdq_dout, latch>>
rdVars == <<rd_state, src_addr_cntr, src_burst_cnt, rd_xfer_remaining, pending,
            readdatavalid, readdata, readdatavalid_cntr, outstanding_read_reqs,
            free_space_in_databuf, there_is_space_in_databuf,
            pipeline_flush_count>>
pipeVars == <<pipeline_shifter, stage0, double_width_readdata, zero_aligned,
              dbl_writedata, shifted>>
bufVars == <<databuf, databuf_writes_cntr, databuffer_wr_req_d,
             local_databuf_usedw>>
wrVars == <<wr_state, this_is_first_burst_word, dst_write_cntr,
            dst_avmm_address, dst_avmm_burstcount, wr_xfer_remaining,
            beats_left>>
endVars == <<all_transfers_complete_latched, controller_busy_d, irq>>
vars == <<hostVars, moved, cmdVars, rdVars, pipeVars, bufVars, wrVars, endVars>>

-----------------------------------------------------------------------------
D == INSTANCE DmaDescriptor WITH given_up <- FALSE

Bytes == 0 .. BytesPerWord - 1
Off(a) == a % BytesPerWord
AtMost(a, b) == IF a <= b THEN a ELSE b

\* A word of the source, byte by byte.
WordAt(a) == [i \in Bytes |-> a - Off(a) + i]
NoWord == [i \in Bytes |-> NULL]

\* The words of a command on either side: its length and its offset.
Words(n) == (n + BytesPerWord - 1) \div BytesPerWord
ReadWords(c) == Words(c.len + Off(c.src))
WriteWords(c) == Words(c.len + Off(c.dst))

\* FIND_FIRST_WR_BYTEENABLE and FIND_LAST_WR_BYTEENABLE, as sets of bytes.
FirstByteEnable(c) ==
  {i \in Bytes : i >= Off(c.dst) /\ i < Off(c.dst) + c.len}

\* Mutant: a last word that is full has no byte enabled.
LastByteEnableEmpty(c) == {i \in Bytes : i < Off(c.len + Off(c.dst))}

LastByteEnable(c) ==
  LET n == Off(c.len + Off(c.dst))
  IN  {i \in Bytes : i < IF n = 0 THEN BytesPerWord ELSE n}

Init ==
  /\ build \in {[to_host |-> h, magic |-> m] : h, m \in BOOLEAN}
  /\ build.magic => build.to_host
  /\ descriptor = NULL /\ moved = {}
  /\ cmdq = <<>>
  /\ cmdq_dout = [src |-> 0, dst |-> 0, len |-> 0]
  /\ latch = [i \in 1 .. 7 |-> FALSE]
  /\ rd_state = "IDLE"
  /\ src_addr_cntr = 0 /\ src_burst_cnt = 0 /\ rd_xfer_remaining = 0
  /\ pending = <<>> /\ readdatavalid = FALSE /\ readdata = NoWord
  /\ readdatavalid_cntr = 0 /\ outstanding_read_reqs = 0
  /\ free_space_in_databuf = RDDATA_BUFFER_DEPTH
  /\ there_is_space_in_databuf = TRUE
  /\ pipeline_flush_count = 0 /\ pipeline_shifter = 0
  /\ stage0 = NoWord /\ zero_aligned = NoWord /\ shifted = NoWord
  /\ double_width_readdata = <<NoWord, NoWord>>
  /\ dbl_writedata = <<NoWord, NoWord>>
  /\ databuf = <<>> /\ databuf_writes_cntr = 0 /\ local_databuf_usedw = 0
  /\ databuffer_wr_req_d = [i \in 1 .. 4 |-> FALSE]
  /\ wr_state = "WIDLE"
  /\ this_is_first_burst_word = FALSE
  /\ dst_write_cntr = 0 /\ dst_avmm_address = 0 /\ dst_avmm_burstcount = 0
  /\ wr_xfer_remaining = 0 /\ beats_left = 0
  /\ all_transfers_complete_latched = FALSE
  /\ controller_busy_d = FALSE /\ irq = FALSE

-----------------------------------------------------------------------------
(***************************************************************************)
(* Commands are popped while the controller is idle.  The setup takes four *)
(* clocks until latch_this_cmd, when both state machines start, and three  *)
(* more until the first burst count is there.                              *)
(***************************************************************************)
controller_busy == rd_state # "IDLE" \/ wr_state # "WIDLE"
Pop == cmdq # <<>> /\ ~controller_busy
latch_this_cmd == latch[4]
latch_this_cmd_post2 == latch[7]

CommandQueue ==
  /\ cmdq' = IF Pop THEN Tail(cmdq) ELSE cmdq
  /\ cmdq_dout' = IF Pop THEN Head(cmdq) ELSE cmdq_dout
  /\ latch' = [i \in 1 .. 7 |-> IF i = 1 THEN Pop ELSE latch[i - 1]]

-----------------------------------------------------------------------------
(***************************************************************************)
(* Reading.  accepts: the source takes the request of this clock; answers: *)
(* it returns a word that it owes.                                         *)
(***************************************************************************)
Requests(accepts) == rd_state = "READ" /\ accepts
rd_reqs_complete(accepts) == Requests(accepts) /\ rd_xfer_remaining = 0
flush_done == pipeline_flush_count = 6

rd_state_nxt(accepts) ==
  CASE rd_state = "IDLE" -> IF latch_this_cmd THEN "READ" ELSE "IDLE"
    [] rd_state \in {"READ", "PAUSE_READ"} ->
         IF rd_reqs_complete(accepts) THEN "WAIT_FOR_RX_DATA"
         ELSE IF there_is_space_in_databuf THEN "READ" ELSE "PAUSE_READ"
    [] rd_state = "WAIT_FOR_RX_DATA" ->
         IF readdatavalid_cntr > 0 THEN "WAIT_FOR_RX_DATA" ELSE "FLUSH"
    [] rd_state = "FLUSH" -> IF flush_done THEN "IDLE" ELSE "FLUSH"

\* The first burst, and the burst after this one.
BurstOf(n) == AtMost(n, SRC_RD_BURSTCOUNT_MAX)

ReadRequests(accepts) ==
  /\ rd_state' = rd_state_nxt(accepts)
  /\ src_addr_cntr' =
       IF latch_this_cmd THEN cmdq_dout.src
       ELSE IF Requests(accepts)
            THEN src_addr_cntr + src_burst_cnt * BytesPerWord
            ELSE src_addr_cntr
  /\ src_burst_cnt' =
       IF latch_this_cmd THEN BurstOf(ReadWords(cmdq_dout))
       ELSE IF Requests(accepts) THEN BurstOf(rd_xfer_remaining)
            ELSE src_burst_cnt
  /\ rd_xfer_remaining' =
       LET n == IF latch_this_cmd THEN ReadWords(cmdq_dout) ELSE rd_xfer_remaining
       IN  IF latch_this_cmd \/ Requests(accepts) THEN n - BurstOf(n) ELSE n

\* Mutant: the words on their way are not counted.
SpaceWithoutOutstanding == free_space_in_databuf > DATA_BUFFER_SKID_SPACE

\* The words on their way, and the skid space, fit in the buffer.
Space == free_space_in_databuf > outstanding_read_reqs + DATA_BUFFER_SKID_SPACE

ReadAnswers(accepts, answers) ==
  /\ pending' =
       (IF answers THEN Tail(pending) ELSE pending)
         \o (IF Requests(accepts)
             THEN [k \in 1 .. src_burst_cnt |->
                     src_addr_cntr + (k - 1) * BytesPerWord]
             ELSE <<>>)
  /\ readdatavalid' = answers
  /\ readdata' = IF answers THEN WordAt(Head(pending)) ELSE readdata
  /\ LET received == IF readdatavalid THEN 1 ELSE 0
     IN  /\ readdatavalid_cntr' =
              IF latch_this_cmd THEN ReadWords(cmdq_dout)
              ELSE readdatavalid_cntr - received
         /\ outstanding_read_reqs' =
              IF latch_this_cmd THEN 0
              ELSE outstanding_read_reqs - received
                     + IF Requests(accepts) THEN src_burst_cnt ELSE 0
  /\ free_space_in_databuf' = RDDATA_BUFFER_DEPTH - Len(databuf)
  /\ there_is_space_in_databuf' = (latch_this_cmd \/ Space)
  /\ pipeline_flush_count' =
       IF latch_this_cmd THEN 0
       ELSE pipeline_flush_count + IF rd_state = "FLUSH" THEN 1 ELSE 0

-----------------------------------------------------------------------------
(***************************************************************************)
(* The pipeline moves with every word received, and on its own while it is *)
(* flushed.                                                                *)
(***************************************************************************)
do_pipe_step == readdatavalid \/ rd_state = "FLUSH"
StepAt(bit) == do_pipe_step /\ pipeline_shifter > bit

\* BytesPerWord bytes of two words <<low, high>>, from byte n on.
Slice(dbl, n) ==
  [i \in Bytes |-> IF n + i < BytesPerWord THEN dbl[1][n + i]
                   ELSE dbl[2][n + i - BytesPerWord]]

Shift ==
  /\ pipeline_shifter' =
       IF latch_this_cmd \/ flush_done THEN 0
       ELSE IF do_pipe_step THEN AtMost(pipeline_shifter + 1, 6)
            ELSE pipeline_shifter
  /\ stage0' = IF do_pipe_step THEN readdata ELSE stage0
  /\ double_width_readdata' =
       IF StepAt(0) THEN <<double_width_readdata[2], stage0>>
       ELSE double_width_readdata
  /\ zero_aligned' =
       IF StepAt(2) THEN Slice(double_width_readdata, Off(cmdq_dout.src))
       ELSE zero_aligned
  /\ dbl_writedata' =
       IF StepAt(3) THEN <<dbl_writedata[2], zero_aligned>> ELSE dbl_writedata
  /\ shifted' =
       IF StepAt(4)
       THEN Slice(dbl_writedata, BytesPerWord - Off(cmdq_dout.dst))
       ELSE shifted

databuffer_wr_req == StepAt(5) /\ databuf_writes_cntr > 0

-----------------------------------------------------------------------------
(***************************************************************************)
(* Writing.  ready: the destination takes the beat of this clock.          *)
(***************************************************************************)
successful_dst_int_write(ready) == wr_state \in {"WRITE", "MAGIC"} /\ ready

\* The last word is the one whose write makes the count complete.
this_is_last_dst_write(ready) ==
  dst_write_cntr + (IF successful_dst_int_write(ready) THEN 1 ELSE 0)
    = WriteWords(cmdq_dout)

dst_avmm_byteenable(ready) ==
  IF this_is_first_burst_word THEN FirstByteEnable(cmdq_dout)
  ELSE IF this_is_last_dst_write(ready) THEN LastByteEnable(cmdq_dout)
  ELSE IF wr_state = "MAGIC" THEN {0}
  ELSE Bytes

\* A partial word is a burst of its own.
burstcount(ready) ==
  IF dst_avmm_byteenable(ready) # Bytes THEN 1 ELSE dst_avmm_burstcount

first_dst_write_is_partial == FirstByteEnable(cmdq_dout) # Bytes
last_dst_write_is_partial == LastByteEnable(cmdq_dout) # Bytes

databuffer_rdack(ready) == successful_dst_int_write(ready) /\ wr_state # "MAGIC"

\* Pushes are counted four clocks late.
local_databuf_usedw_next(ready) ==
  local_databuf_usedw + (IF databuffer_wr_req_d[4] THEN 1 ELSE 0)
                      - (IF databuffer_rdack(ready) THEN 1 ELSE 0)

Buffer(ready) ==
  /\ databuf' =
       IF latch_this_cmd THEN <<>>
       ELSE (IF databuffer_rdack(ready) THEN Tail(databuf) ELSE databuf)
              \o (IF databuffer_wr_req THEN <<shifted>> ELSE <<>>)
  /\ databuf_writes_cntr' =
       IF latch_this_cmd THEN WriteWords(cmdq_dout)
       ELSE databuf_writes_cntr - IF databuffer_wr_req THEN 1 ELSE 0
  /\ databuffer_wr_req_d' =
       [i \in 1 .. 4 |-> IF i = 1 THEN databuffer_wr_req
                         ELSE databuffer_wr_req_d[i - 1]]
  /\ local_databuf_usedw' =
       IF latch_this_cmd THEN 0 ELSE local_databuf_usedw_next(ready)

\* Mutant: the writer waits for a whole burst, though fewer words are left.
EnoughForThisBurstWhole == local_databuf_usedw >= DST_WR_BURSTCOUNT_MAX

EnoughForThisBurst ==
  \/ local_databuf_usedw >= DST_WR_BURSTCOUNT_MAX
  \/ local_databuf_usedw = wr_xfer_remaining
  \/ /\ build.to_host
     /\ local_databuf_usedw >= 1
     /\ first_dst_write_is_partial
     /\ this_is_first_burst_word

EnoughForNextBurst(ready) ==
  \/ local_databuf_usedw_next(ready) >= DST_WR_BURSTCOUNT_MAX
  \/ local_databuf_usedw_next(ready) = wr_xfer_remaining

EndOfBurst(ready) == successful_dst_int_write(ready) /\ burstcount(ready) = 1

wr_state_nxt(ready) ==
  CASE wr_state = "WIDLE" -> IF latch_this_cmd THEN "WAIT_DATA" ELSE "WIDLE"
    [] wr_state = "WAIT_DATA" ->
         IF EnoughForThisBurst THEN "WRITE" ELSE "WAIT_DATA"
    [] wr_state = "WRITE" ->
         IF ~EndOfBurst(ready) THEN "WRITE"
         ELSE IF wr_xfer_remaining = 1
              THEN IF build.magic THEN "WAIT_MAGIC" ELSE "WIDLE"
              ELSE IF EnoughForNextBurst(ready) THEN "WRITE" ELSE "WAIT_DATA"
    [] wr_state = "WAIT_MAGIC" ->
         IF all_transfers_complete_latched THEN "MAGIC" ELSE "WAIT_MAGIC"
    [] wr_state = "MAGIC" ->
         IF successful_dst_int_write(ready) THEN "WIDLE" ELSE "MAGIC"

\* Mutant: the last partial word is counted into the burst before it.
NextBurstWhole(n) == AtMost(n, DST_WR_BURSTCOUNT_MAX)

\* The burst count for n words to come: towards the host the last word, if it
\* is partial, is left for a burst of its own.
NextBurst(n) ==
  IF n > DST_WR_BURSTCOUNT_MAX THEN DST_WR_BURSTCOUNT_MAX
  ELSE IF build.to_host /\ last_dst_write_is_partial THEN n - 1 ELSE n

dst_avmm_burstcount_nxt(ready) ==
  IF latch_this_cmd_post2
  THEN IF build.to_host /\ first_dst_write_is_partial THEN 1
       ELSE NextBurst(WriteWords(cmdq_dout))
  ELSE IF successful_dst_int_write(ready)
       THEN IF wr_state = "MAGIC" THEN 1
            ELSE IF dst_avmm_burstcount = 1 THEN NextBurst(wr_xfer_remaining - 1)
            ELSE dst_avmm_burstcount - 1
       ELSE IF wr_state = "MAGIC" THEN 1 ELSE dst_avmm_burstcount

Write(ready) ==
  /\ wr_state' = wr_state_nxt(ready)
  /\ this_is_first_burst_word' =
       \/ latch_this_cmd
       \/ /\ this_is_first_burst_word
          /\ ~(/\ wr_state = "WRITE"
               /\ IF build.to_host THEN EndOfBurst(ready)
                  ELSE successful_dst_int_write(ready))
  /\ dst_write_cntr' =
       IF latch_this_cmd THEN 0
       ELSE dst_write_cntr + IF successful_dst_int_write(ready) THEN 1 ELSE 0
  /\ dst_avmm_address' =
       IF latch_this_cmd THEN cmdq_dout.dst
       ELSE IF databuffer_rdack(ready) THEN dst_avmm_address + BytesPerWord
            ELSE dst_avmm_address
  /\ dst_avmm_burstcount' = dst_avmm_burstcount_nxt(ready)
  /\ wr_xfer_remaining' =
       IF latch_this_cmd THEN WriteWords(cmdq_dout)
       ELSE IF successful_dst_int_write(ready) /\ wr_xfer_remaining > 0
            THEN wr_xfer_remaining - 1
            ELSE wr_xfer_remaining
  /\ beats_left' =
       IF databuffer_rdack(ready)
       THEN (IF beats_left = 0 THEN burstcount(ready) ELSE beats_left) - 1
       ELSE beats_left
  /\ moved' =
       IF databuffer_rdack(ready)
       THEN moved \cup {<<Head(databuf)[i],
                          dst_avmm_address - Off(dst_avmm_address) + i>> :
                            i \in dst_avmm_byteenable(ready)}
       ELSE moved

-----------------------------------------------------------------------------
(***************************************************************************)
(* The end.  complete: all_transfers_complete, which the dispatcher raises *)
(* when every channel has ended, channel 0 by waiting.                     *)
(***************************************************************************)
Completion(complete) ==
  /\ all_transfers_complete_latched' =
       (wr_state # "WIDLE" /\ (all_transfers_complete_latched \/ complete))
  /\ controller_busy_d' = controller_busy
  /\ irq' = (~latch_this_cmd /\ (irq \/ (controller_busy_d /\ ~controller_busy)))

Clock(accepts, answers, ready, complete) ==
  /\ answers => pending # <<>>
  /\ complete => wr_state = "WAIT_MAGIC"
  /\ CommandQueue
  /\ ReadRequests(accepts)
  /\ ReadAnswers(accepts, answers)
  /\ Shift
  /\ Buffer(ready)
  /\ Write(ready)
  /\ Completion(complete)
  /\ UNCHANGED hostVars

Clocks == \E accepts, answers, ready, complete \in BOOLEAN :
            Clock(accepts, answers, ready, complete)

\* The dispatcher gives the channel a command: the next only after the end of
\* the one before, as it does until the host gives up a wait (FifoBacklog and
\* DoneMeansMoved of DmaDispatcher).
Offer(c) ==
  /\ descriptor = NULL
  /\ descriptor' = c
  /\ moved' = {}
  /\ cmdq' = Append(cmdq, c)
  /\ UNCHANGED <<build, cmdq_dout, latch, rdVars, pipeVars, bufVars, wrVars,
                 endVars>>

\* It takes the interrupt.
Answer ==
  /\ irq
  /\ irq' = FALSE
  /\ descriptor' = NULL
  /\ UNCHANGED <<build, moved, cmdVars, rdVars, pipeVars, bufVars, wrVars,
                 all_transfers_complete_latched, controller_busy_d>>

Next ==
  \/ Clocks
  \/ \E c \in Commands : Offer(c)
  \/ Answer

Spec == Init /\ [][Next]_vars

\* The clock runs; no memory holds back a request, a word or a beat for ever;
\* the dispatcher takes the interrupt and completes a transfer that waits.
FairSpec ==
  /\ Spec
  /\ WF_vars(Clocks)
  /\ WF_vars(rd_state = "READ" /\ \E a, r, p \in BOOLEAN : Clock(TRUE, a, r, p))
  /\ WF_vars(\E s, r, p \in BOOLEAN : Clock(s, TRUE, r, p))
  /\ WF_vars(wr_state \in {"WRITE", "MAGIC"} /\ \E s, a, p \in BOOLEAN : Clock(s, a, TRUE, p))
  /\ WF_vars(\E s, a, r \in BOOLEAN : Clock(s, a, r, TRUE))
  /\ WF_vars(Answer)

-----------------------------------------------------------------------------
(***************************************************************************)
(* Properties.                                                             *)
(***************************************************************************)
\* dma_data_transfer.sv:62-64, 496-508, 781-795: whatever the memories do,
\* the data buffer, whose overflow and underflow checking is off and whose
\* counter of $clog2(RDDATA_BUFFER_DEPTH) bits cannot count a full buffer,
\* never fills up; the writer never takes a word that is not there or not
\* counted yet; and the flow control counts every word on its way.
BufferInBounds ==
  /\ Len(databuf) < RDDATA_BUFFER_DEPTH
  /\ wr_state = "WRITE" => databuf # <<>> /\ local_databuf_usedw > 0
  /\ local_databuf_usedw \in 0 .. Len(databuf)
  /\ outstanding_read_reqs =
       Len(pending) + IF readdatavalid THEN 1 ELSE 0

\* The Avalon side (dma_data_transfer.sv:844, 895-899): the destination gets
\* bursts of 1 to DST_WR_BURSTCOUNT_MAX beats, of which none is missing when
\* the writer stops, and towards the host a partial word is always a burst of
\* its own.
BurstsWellFormed ==
  [][wr_state = "WRITE" =>
       /\ dst_write_cntr' > dst_write_cntr =>
            /\ beats_left = 0 => burstcount(TRUE) \in 1 .. DST_WR_BURSTCOUNT_MAX
            /\ (build.to_host /\ dst_avmm_byteenable(TRUE) # Bytes) =>
                 beats_left = 0 /\ beats_left' = 0
       /\ wr_state' # "WRITE" => beats_left' = 0]_vars

\* dma_data_transfer.sv:8-17: a channel moves each byte of a command to its
\* place and no other, for any offsets, and says that it is done only then.
ImplementsDescriptor == D!Spec

\* Every command is answered.
EveryCommandAnswered == descriptor # NULL ~> descriptor = NULL

=============================================================================
