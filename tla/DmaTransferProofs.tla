-------------------------- MODULE DmaTransferProofs --------------------------
(***************************************************************************)
(* For every word and burst size, every depth of the data buffer and every *)
(* set of commands: the buffer stays in its bounds, the bursts are whole,  *)
(* and every byte of a command goes to its place, so that DmaTransfer      *)
(* implements DmaDescriptor.                                               *)
(***************************************************************************)
EXTENDS DmaTransfer, SequenceTheorems, TLAPS

Word == [Bytes -> Nat \cup {NULL}]
Command == [src : Nat, dst : Nat, len : Nat]

-----------------------------------------------------------------------------
(***************************************************************************)
(* Words and bytes.                                                        *)
(***************************************************************************)
\* The offset of an address is that of a byte of a word.
LEMMA OffType ==
  ASSUME NEW a \in Nat
  PROVE  Off(a) \in Bytes /\ a - Off(a) \in Nat
  BY TransferAssumption DEF Off, Bytes

\* Some bytes need some words, and one word holds no more than it can.
LEMMA WordsType ==
  ASSUME NEW n \in Nat
  PROVE  /\ Words(n) \in Nat
         /\ n > 0 => Words(n) > 0
         /\ n > 0 /\ Words(n) = 1 => n <= BytesPerWord
  BY TransferAssumption DEF Words

LEMMA CommandOffsets ==
  ASSUME NEW c \in Command
  PROVE  /\ Off(c.src) \in 0 .. BytesPerWord
         /\ BytesPerWord - Off(c.dst) \in 0 .. BytesPerWord
<1>1. Off(c.src) \in Bytes /\ Off(c.dst) \in Bytes
  BY OffType DEF Command
<1> QED BY <1>1, TransferAssumption DEF Bytes

LEMMA CommandWords ==
  ASSUME NEW c \in Command
  PROVE  /\ ReadWords(c) \in Nat
         /\ WriteWords(c) \in Nat
         /\ c.len > 0 => WriteWords(c) > 0
<1>1. Off(c.src) \in Nat /\ Off(c.dst) \in Nat
  BY OffType DEF Command, Bytes
<1> QED BY <1>1, WordsType DEF ReadWords, WriteWords, Command

\* When one word is written and its first bytes are all enabled, the last are.
LEMMA OneWord ==
  ASSUME NEW c \in Command, c.len > 0,
         WriteWords(c) = 1, FirstByteEnable(c) = Bytes
  PROVE  LastByteEnable(c) = Bytes
<1>1. Off(c.dst) \in Nat /\ c.len + Off(c.dst) \in Nat
  <2>1. c.dst \in Nat /\ c.len \in Nat
    BY DEF Command
  <2>2. Off(c.dst) \in Bytes
    BY <2>1, OffType
  <2>3. Off(c.dst) \in Nat
    BY <2>2, TransferAssumption DEF Bytes
  <2> QED BY <2>1, <2>3
<1>2. c.len + Off(c.dst) <= BytesPerWord
  BY <1>1, WordsType DEF WriteWords, Command
<1>3. 0 \in Bytes /\ BytesPerWord - 1 \in Bytes
  BY TransferAssumption DEF Bytes
<1>4. 0 >= Off(c.dst) /\ BytesPerWord - 1 < Off(c.dst) + c.len
  BY <1>3 DEF FirstByteEnable
<1>5. c.len + Off(c.dst) = BytesPerWord
  BY <1>1, <1>2, <1>4, TransferAssumption DEF Command
<1>6. Off(BytesPerWord) = 0
  BY TransferAssumption DEF Off
<1> QED BY <1>5, <1>6, TransferAssumption DEF LastByteEnable, Bytes

\* Shifting makes words of words.
LEMMA SliceType ==
  ASSUME NEW dbl \in Word \X Word, NEW n \in 0 .. BytesPerWord
  PROVE  Slice(dbl, n) \in Word
<1> SUFFICES ASSUME NEW i \in Bytes
             PROVE  Slice(dbl, n)[i] \in Nat \cup {NULL}
  BY DEF Slice, Word
<1>1. dbl[1] \in Word /\ dbl[2] \in Word
  OBVIOUS
<1>2. CASE n + i < BytesPerWord
  <2>1. n + i \in Bytes
    BY <1>2, TransferAssumption DEF Bytes
  <2> QED BY <1>1, <1>2, <2>1 DEF Slice, Word
<1>3. CASE ~(n + i < BytesPerWord)
  <2>1. n + i - BytesPerWord \in Bytes
    BY <1>3, TransferAssumption DEF Bytes
  <2> QED BY <1>1, <1>3, <2>1 DEF Slice, Word
<1> QED BY <1>2, <1>3

LEMMA WordAtType ==
  ASSUME NEW a \in Nat
  PROVE  WordAt(a) \in Word
<1>1. a - Off(a) \in Nat
  BY OffType
<1>2. \A i \in Bytes : a - Off(a) + i \in Nat
  BY <1>1, TransferAssumption DEF Bytes
<1> QED BY <1>2 DEF WordAt, Word

-----------------------------------------------------------------------------
(***************************************************************************)
(* Types.                                                                  *)
(***************************************************************************)
CommandTypes ==
  /\ build \in [to_host : BOOLEAN, magic : BOOLEAN]
  /\ descriptor \in Commands \cup {NULL}
  /\ cmdq \in Seq(Commands)
  /\ cmdq_dout \in Command
  /\ latch \in [1 .. 7 -> BOOLEAN]
  /\ controller_busy_d \in BOOLEAN
  /\ irq \in BOOLEAN

ReadTypes ==
  /\ rd_state \in {"IDLE", "READ", "PAUSE_READ", "WAIT_FOR_RX_DATA", "FLUSH"}
  /\ src_addr_cntr \in Nat
  /\ src_burst_cnt \in 0 .. SRC_RD_BURSTCOUNT_MAX
  /\ rd_xfer_remaining \in Nat
  /\ pending \in Seq(Nat)
  /\ readdatavalid \in BOOLEAN
  /\ readdatavalid_cntr \in Int
  /\ outstanding_read_reqs \in Int
  /\ free_space_in_databuf \in Int
  /\ there_is_space_in_databuf \in BOOLEAN
  /\ pipeline_flush_count \in Nat

PipeTypes ==
  /\ pipeline_shifter \in 0 .. 6
  /\ readdata \in Word
  /\ stage0 \in Word
  /\ double_width_readdata \in Word \X Word
  /\ zero_aligned \in Word
  /\ dbl_writedata \in Word \X Word
  /\ shifted \in Word

WriteTypes ==
  /\ wr_state \in {"WIDLE", "WAIT_DATA", "WRITE", "WAIT_MAGIC", "MAGIC"}
  /\ this_is_first_burst_word \in BOOLEAN
  /\ dst_write_cntr \in Nat
  /\ dst_avmm_burstcount \in Int
  /\ wr_xfer_remaining \in Nat
  /\ databuf \in Seq(Word)
  /\ databuf_writes_cntr \in Nat
  /\ databuffer_wr_req_d \in [1 .. 4 -> BOOLEAN]
  /\ local_databuf_usedw \in Int

Types == CommandTypes /\ ReadTypes /\ PipeTypes /\ WriteTypes

LEMMA CommandsAreCommands ==
  /\ Commands \subseteq Command
  /\ \A c \in Commands : c.len > 0
  BY TransferAssumption DEF Command

LEMMA BurstOfType ==
  ASSUME NEW n \in Nat
  PROVE  /\ BurstOf(n) \in 0 .. SRC_RD_BURSTCOUNT_MAX
         /\ BurstOf(n) \in Nat
         /\ n - BurstOf(n) \in Nat
         /\ BurstOf(n) = 0 => n = 0
  BY TransferAssumption DEF BurstOf, AtMost

LEMMA CommandTypesStep ==
  ASSUME CommandTypes, CommandQueue, UNCHANGED hostVars,
         NEW complete \in BOOLEAN, Completion(complete)
  PROVE  CommandTypes'
<1> USE DEF CommandTypes
<1>1. build' \in [to_host : BOOLEAN, magic : BOOLEAN]
      /\ descriptor' \in Commands \cup {NULL}
  BY DEF hostVars
<1>2. cmdq' \in Seq(Commands) /\ cmdq_dout' \in Command
  BY CommandsAreCommands, HeadTailProperties DEF CommandQueue, Pop
<1>3. Pop \in BOOLEAN /\ controller_busy \in BOOLEAN
  BY DEF Pop, controller_busy
<1>4. latch' \in [1 .. 7 -> BOOLEAN]
  BY <1>3 DEF CommandQueue
<1>5. controller_busy_d' \in BOOLEAN /\ irq' \in BOOLEAN
  BY <1>3, Zenon DEF Completion
<1> QED BY <1>1, <1>2, <1>4, <1>5

\* The addresses of a request are numbers, one for each word.
LEMMA RequestWords ==
  ASSUME ReadTypes
  PROVE  LET r == [k \in 1 .. src_burst_cnt |->
                     src_addr_cntr + (k - 1) * BytesPerWord]
         IN  r \in Seq(Nat) /\ Len(r) = src_burst_cnt
<1>1. src_burst_cnt \in Nat /\ src_addr_cntr \in Nat
  BY TransferAssumption DEF ReadTypes
<1>2. \A k \in 1 .. src_burst_cnt : (k - 1) * BytesPerWord \in Nat
  BY <1>1, TransferAssumption
<1>3. \A k \in 1 .. src_burst_cnt :
         src_addr_cntr + (k - 1) * BytesPerWord \in Nat
  BY <1>1, <1>2
<1> QED BY <1>1, <1>3

LEMMA PendingType ==
  ASSUME ReadTypes, NEW accepts \in BOOLEAN, NEW answers \in BOOLEAN,
         answers => pending # <<>>, ReadAnswers(accepts, answers)
  PROVE  /\ pending' \in Seq(Nat)
         /\ Len(pending') = Len(pending) - (IF answers THEN 1 ELSE 0)
                            + (IF Requests(accepts) THEN src_burst_cnt ELSE 0)
<1> DEFINE r == [k \in 1 .. src_burst_cnt |->
                   src_addr_cntr + (k - 1) * BytesPerWord]
           rest == IF answers THEN Tail(pending) ELSE pending
           more == IF Requests(accepts) THEN r ELSE <<>>
<1>1. r \in Seq(Nat) /\ Len(r) = src_burst_cnt
  BY RequestWords
<1>2. pending \in Seq(Nat)
  BY DEF ReadTypes
<1>3. rest \in Seq(Nat) /\ Len(rest) = Len(pending) - IF answers THEN 1 ELSE 0
  BY <1>2, HeadTailProperties, LenProperties
<1>4. /\ more \in Seq(Nat)
      /\ Len(more) = IF Requests(accepts) THEN src_burst_cnt ELSE 0
  BY <1>1, EmptySeq
<1>5. pending' = rest \o more
  BY DEF ReadAnswers
<1> HIDE DEF r, rest, more
<1>6. pending' \in Seq(Nat) /\ Len(pending') = Len(rest) + Len(more)
  BY <1>3, <1>4, <1>5, ConcatProperties
<1>7. Len(pending) \in Nat /\ src_burst_cnt \in Nat
  BY <1>2, LenProperties, TransferAssumption DEF ReadTypes
<1> QED BY <1>3, <1>4, <1>6, <1>7

LEMMA ReadTypesStep ==
  ASSUME CommandTypes, ReadTypes, WriteTypes,
         NEW accepts \in BOOLEAN, NEW answers \in BOOLEAN,
         answers => pending # <<>>,
         ReadRequests(accepts), ReadAnswers(accepts, answers)
  PROVE  ReadTypes'
<1> USE DEF ReadTypes
<1>1. rd_state' \in {"IDLE", "READ", "PAUSE_READ", "WAIT_FOR_RX_DATA", "FLUSH"}
  <2>1. rd_state' = rd_state_nxt(accepts)
    BY DEF ReadRequests
  <2> QED BY <2>1 DEF rd_state_nxt
<1>2. cmdq_dout.src \in Nat /\ ReadWords(cmdq_dout) \in Nat
  BY CommandWords DEF CommandTypes, Command
<1>3. src_addr_cntr' \in Nat
  <2>1. src_burst_cnt \in Nat /\ src_burst_cnt * BytesPerWord \in Nat
    BY TransferAssumption
  <2> QED BY <1>2, <2>1 DEF ReadRequests
<1>4. src_burst_cnt' \in 0 .. SRC_RD_BURSTCOUNT_MAX
  <2>1. /\ BurstOf(ReadWords(cmdq_dout)) \in 0 .. SRC_RD_BURSTCOUNT_MAX
        /\ BurstOf(rd_xfer_remaining) \in 0 .. SRC_RD_BURSTCOUNT_MAX
    BY <1>2, BurstOfType
  <2> QED BY <2>1 DEF ReadRequests
<1>5. rd_xfer_remaining' \in Nat
  <2>1. /\ ReadWords(cmdq_dout) - BurstOf(ReadWords(cmdq_dout)) \in Nat
        /\ rd_xfer_remaining - BurstOf(rd_xfer_remaining) \in Nat
    BY <1>2, BurstOfType
  <2> QED BY <2>1 DEF ReadRequests
<1>6. pending' \in Seq(Nat)
  BY PendingType
<1>7. readdatavalid' \in BOOLEAN /\ there_is_space_in_databuf' \in BOOLEAN
  BY DEF ReadAnswers, latch_this_cmd, Space, CommandTypes
<1>8. readdatavalid_cntr' \in Int /\ outstanding_read_reqs' \in Int
  BY <1>2, TransferAssumption DEF ReadAnswers
<1>9. free_space_in_databuf' \in Int
  <2>1. Len(databuf) \in Nat
    BY LenProperties DEF WriteTypes
  <2> QED BY <2>1, TransferAssumption DEF ReadAnswers
<1>10. pipeline_flush_count' \in Nat
  BY DEF ReadAnswers
<1> QED BY <1>1, <1>3, <1>4, <1>5, <1>6, <1>7, <1>8, <1>9, <1>10

LEMMA PipeTypesStep ==
  ASSUME CommandTypes, ReadTypes, PipeTypes,
         NEW accepts \in BOOLEAN, NEW answers \in BOOLEAN,
         answers => pending # <<>>,
         ReadAnswers(accepts, answers), Shift
  PROVE  PipeTypes'
<1> USE DEF PipeTypes
<1>1. /\ Off(cmdq_dout.src) \in 0 .. BytesPerWord
      /\ BytesPerWord - Off(cmdq_dout.dst) \in 0 .. BytesPerWord
  BY CommandOffsets DEF CommandTypes
<1>3. pipeline_shifter' \in 0 .. 6
  BY DEF Shift, AtMost
<1>4. readdata' \in Word
  <2>1. answers => Head(pending) \in Nat
    BY HeadTailProperties DEF ReadTypes
  <2>2. answers => WordAt(Head(pending)) \in Word
    BY <2>1, WordAtType
  <2> QED BY <2>2 DEF ReadAnswers
<1>5. stage0' \in Word
  BY DEF Shift
<1>6. double_width_readdata' \in Word \X Word
  BY DEF Shift
<1>7. zero_aligned' \in Word
  BY <1>1, SliceType DEF Shift
<1>8. dbl_writedata' \in Word \X Word
  BY DEF Shift
<1>9. shifted' \in Word
  BY <1>1, SliceType DEF Shift
<1> QED BY <1>3, <1>4, <1>5, <1>6, <1>7, <1>8, <1>9

LEMMA WriteTypesStep ==
  ASSUME CommandTypes, PipeTypes, WriteTypes, NEW ready \in BOOLEAN,
         wr_state = "WRITE" => databuf # <<>>,
         Buffer(ready), Write(ready)
  PROVE  WriteTypes'
<1> USE DEF WriteTypes
<1>1. WriteWords(cmdq_dout) \in Nat
  BY CommandWords DEF CommandTypes
<1>2. wr_state' \in {"WIDLE", "WAIT_DATA", "WRITE", "WAIT_MAGIC", "MAGIC"}
  <2>1. wr_state' = wr_state_nxt(ready)
    BY DEF Write
  <2> QED BY <2>1 DEF wr_state_nxt
<1>3. this_is_first_burst_word' \in BOOLEAN
  BY DEF Write, latch_this_cmd, CommandTypes
<1>4. dst_write_cntr' \in Nat /\ wr_xfer_remaining' \in Nat
  BY <1>1 DEF Write
<1>5. dst_avmm_burstcount' \in Int
  <2>1. \A n \in Int : NextBurst(n) \in Int
    BY TransferAssumption DEF NextBurst
  <2>2. dst_avmm_burstcount' = dst_avmm_burstcount_nxt(ready)
    BY DEF Write
  <2> QED BY <1>1, <2>1, <2>2 DEF dst_avmm_burstcount_nxt
<1>6. databuf' \in Seq(Word)
  <2> DEFINE rest == IF databuffer_rdack(ready) THEN Tail(databuf) ELSE databuf
             more == IF databuffer_wr_req THEN <<shifted>> ELSE <<>>
  <2>1. rest \in Seq(Word)
    BY HeadTailProperties DEF databuffer_rdack, successful_dst_int_write
  <2>2. more \in Seq(Word)
    BY DEF PipeTypes
  <2>3. databuf' = IF latch_this_cmd THEN <<>> ELSE rest \o more
    BY DEF Buffer
  <2> QED BY <2>1, <2>2, <2>3, ConcatProperties
<1>7. databuf_writes_cntr' \in Nat
  BY <1>1 DEF Buffer, databuffer_wr_req
<1>8. databuffer_wr_req_d' \in [1 .. 4 -> BOOLEAN]
  <2>1. databuffer_wr_req \in BOOLEAN
    BY DEF databuffer_wr_req, StepAt
  <2> QED BY <2>1 DEF Buffer
<1>9. local_databuf_usedw' \in Int
  BY DEF Buffer, local_databuf_usedw_next
<1> QED BY <1>2, <1>3, <1>4, <1>5, <1>6, <1>7, <1>8, <1>9

-----------------------------------------------------------------------------
(***************************************************************************)
(* There is one command at a time: in the FIFO, in the setup, in one of    *)
(* the state machines, or at its end.                                      *)
(***************************************************************************)
Resting == ~controller_busy /\ ~controller_busy_d /\ ~irq

Phase ==
  /\ cmdq # <<>> =>
       Len(cmdq) = 1 /\ Resting /\ descriptor # NULL
         /\ \A i \in 1 .. 4 : ~latch[i]
  /\ \A i \in 1 .. 4 : latch[i] =>
       /\ Resting /\ descriptor # NULL
       /\ cmdq_dout \in Commands
       /\ \A j \in 1 .. 4 : latch[j] => j = i
  /\ controller_busy \/ controller_busy_d => ~irq /\ descriptor # NULL
  /\ controller_busy => cmdq_dout \in Commands
  /\ irq => descriptor # NULL

\* The command moves one stage at each clock.
LEMMA LatchStep ==
  ASSUME CommandTypes, CommandQueue
  PROVE  /\ latch'[1] = Pop
         /\ \A i \in 2 .. 7 : latch'[i] = latch[i - 1]
  BY DEF CommandTypes, CommandQueue

\* The state machines start when the command is latched and at no other time.
LEMMA BusyStep ==
  ASSUME ReadTypes, WriteTypes,
         NEW accepts \in BOOLEAN, NEW ready \in BOOLEAN,
         rd_state' = rd_state_nxt(accepts), wr_state' = wr_state_nxt(ready)
  PROVE  controller_busy' => controller_busy \/ latch_this_cmd
  BY DEF ReadTypes, WriteTypes, rd_state_nxt, wr_state_nxt, controller_busy

LEMMA PhaseStep ==
  ASSUME CommandTypes, ReadTypes, WriteTypes, Phase,
         NEW accepts \in BOOLEAN, NEW ready \in BOOLEAN,
         NEW complete \in BOOLEAN,
         CommandQueue, UNCHANGED hostVars, Completion(complete),
         rd_state' = rd_state_nxt(accepts), wr_state' = wr_state_nxt(ready)
  PROVE  Phase'
<1>1. /\ latch'[1] = Pop /\ latch'[2] = latch[1] /\ latch'[3] = latch[2]
      /\ latch'[4] = latch[3]
  BY LatchStep
<1>2. controller_busy' => controller_busy \/ latch[4]
  BY BusyStep DEF latch_this_cmd
<1>3. /\ controller_busy_d' = controller_busy
      /\ irq' => ~latch[4] /\ (irq \/ (controller_busy_d /\ ~controller_busy))
      /\ descriptor' = descriptor
  BY DEF Completion, latch_this_cmd, hostVars
<1>4. CASE Pop
  <2>1. cmdq' = <<>> /\ cmdq_dout' \in Commands
    BY <1>4, HeadTailProperties, EmptySeq, LenProperties
       DEF CommandQueue, Pop, Phase, CommandTypes
  <2>2. /\ Resting /\ descriptor # NULL
        /\ ~latch[1] /\ ~latch[2] /\ ~latch[3] /\ ~latch[4]
    BY <1>4 DEF Phase, Pop
  <2>3. Resting'
    BY <1>2, <1>3, <2>2 DEF Resting
  <2>4. \A i \in 1 .. 4 : latch'[i] => i = 1
    BY <1>1, <2>2
  <2> QED BY <1>3, <2>1, <2>2, <2>3, <2>4 DEF Phase, Resting
<1>5. CASE ~Pop
  <2>1. cmdq' = cmdq /\ cmdq_dout' = cmdq_dout
    BY <1>5 DEF CommandQueue
  <2>2. CASE cmdq # <<>>
    <3>1. Resting /\ \A i \in 1 .. 4 : ~latch[i]
      BY <2>2 DEF Phase
    <3>2. FALSE
      BY <1>5, <2>2, <3>1 DEF Pop, Resting
    <3> QED BY <3>2
  <2>3. CASE cmdq = <<>> /\ \E i \in 1 .. 4 : latch[i]
    <3>1. /\ Resting /\ descriptor # NULL /\ cmdq_dout \in Commands
          /\ \A i, j \in 1 .. 4 : latch[i] /\ latch[j] => i = j
      BY <2>3 DEF Phase
    <3>2. \A i \in 1 .. 4 : latch'[i] => i # 1 /\ latch[i - 1] /\ ~latch[4]
      BY <1>1, <1>5, <3>1
    <3>3. \A i, j \in 1 .. 4 : latch'[i] /\ latch'[j] => i = j
      <4> SUFFICES ASSUME NEW i \in 1 .. 4, NEW j \in 1 .. 4,
                          latch'[i], latch'[j]
                   PROVE  i = j
        OBVIOUS
      <4>1. i - 1 \in 1 .. 4 /\ j - 1 \in 1 .. 4 /\ latch[i - 1] /\ latch[j - 1]
        BY <3>2
      <4> QED BY <3>1, <4>1
    <3>4. ~controller_busy_d' /\ ~irq'
      BY <1>3, <3>1 DEF Resting
    <3>5. controller_busy' => latch[4]
      BY <1>2, <3>1 DEF Resting
    <3> QED BY <1>3, <2>1, <2>3, <3>1, <3>2, <3>3, <3>4, <3>5
            DEF Phase, Resting
  <2>4. CASE cmdq = <<>> /\ \A i \in 1 .. 4 : ~latch[i]
    <3>1. \A i \in 1 .. 4 : ~latch'[i]
      BY <1>1, <1>5, <2>4
    <3>2. controller_busy' => controller_busy
      BY <1>2, <2>4
    <3>3. controller_busy' \/ controller_busy_d' => ~irq' /\ descriptor # NULL
      BY <1>3, <3>2 DEF Phase
    <3>4. irq' => descriptor # NULL
      BY <1>3 DEF Phase
    <3>5. controller_busy' => cmdq_dout \in Commands
      BY <3>2 DEF Phase
    <3> QED BY <1>3, <2>1, <2>4, <3>1, <3>3, <3>4, <3>5 DEF Phase
  <2> QED BY <2>2, <2>3, <2>4
<1> QED BY <1>4, <1>5

-----------------------------------------------------------------------------
(***************************************************************************)
(* Reading: every word asked for and not yet received is counted, and      *)
(* there is none when the reader flushes its pipeline or rests.            *)
(***************************************************************************)
Received == IF readdatavalid THEN 1 ELSE 0

ReadInv ==
  /\ outstanding_read_reqs = Len(pending) + Received
  /\ readdatavalid_cntr =
       Len(pending) + Received + rd_xfer_remaining + src_burst_cnt
  /\ rd_state \notin {"READ", "PAUSE_READ"} =>
       rd_xfer_remaining = 0 /\ src_burst_cnt = 0
  /\ rd_state \in {"FLUSH", "IDLE"} => pending = <<>> /\ ~readdatavalid
  /\ pipeline_flush_count <= 7
  /\ rd_state = "FLUSH" => pipeline_flush_count <= 6
  /\ rd_state \notin {"FLUSH", "IDLE"} => pipeline_flush_count = 0

\* A command is latched while both machines rest.
LatchRests == latch_this_cmd => rd_state = "IDLE" /\ wr_state = "WIDLE"

LEMMA PhaseLatch == ASSUME Phase PROVE LatchRests
  BY DEF Phase, LatchRests, latch_this_cmd, Resting, controller_busy

LEMMA ReadInvStep ==
  ASSUME CommandTypes, ReadTypes, WriteTypes, ReadInv, LatchRests,
         NEW accepts \in BOOLEAN, NEW answers \in BOOLEAN,
         answers => pending # <<>>,
         ReadRequests(accepts), ReadAnswers(accepts, answers)
  PROVE  ReadInv'
<1>1. /\ pending' \in Seq(Nat)
      /\ Len(pending') = Len(pending) - (IF answers THEN 1 ELSE 0)
                         + (IF Requests(accepts) THEN src_burst_cnt ELSE 0)
  BY PendingType
<1>2. Len(pending) \in Nat /\ Len(pending') \in Nat
  BY <1>1, LenProperties DEF ReadTypes
<1>3. (readdatavalid' = answers) /\ Received' = IF answers THEN 1 ELSE 0
  BY DEF ReadAnswers, Received
<1>4. (pending = <<>> <=> Len(pending) = 0) /\ (pending' = <<>> <=> Len(pending') = 0)
  BY <1>1, EmptySeq DEF ReadTypes
<1>5. /\ ReadWords(cmdq_dout) \in Nat
      /\ BurstOf(ReadWords(cmdq_dout)) \in Nat
      /\ BurstOf(rd_xfer_remaining) \in Nat
      /\ rd_xfer_remaining = 0 => BurstOf(rd_xfer_remaining) = 0
      /\ src_burst_cnt \in Nat
  <2>1. cmdq_dout \in Command /\ rd_xfer_remaining \in Nat
    BY DEF CommandTypes, ReadTypes
  <2>2. ReadWords(cmdq_dout) \in Nat
    BY <2>1, CommandWords
  <2>3. /\ BurstOf(ReadWords(cmdq_dout)) \in Nat
        /\ BurstOf(rd_xfer_remaining) \in Nat
        /\ rd_xfer_remaining - BurstOf(rd_xfer_remaining) \in Nat
    BY <2>1, <2>2, BurstOfType
  <2>4. src_burst_cnt \in Nat
    BY TransferAssumption DEF ReadTypes
  <2> QED BY <2>1, <2>2, <2>3, <2>4
<1>6. rd_state' = rd_state_nxt(accepts)
  BY DEF ReadRequests
<1> USE DEF ReadTypes
<1>7. CASE latch_this_cmd
  <2>1. rd_state = "IDLE" /\ ~Requests(accepts)
    BY <1>7 DEF LatchRests, Requests
  <2>2. pending = <<>> /\ ~readdatavalid /\ ~answers
    BY <2>1 DEF ReadInv
  <2>3. rd_state' = "READ"
    BY <1>6, <1>7, <2>1 DEF rd_state_nxt
  <2>4. /\ outstanding_read_reqs' = 0
        /\ readdatavalid_cntr' = ReadWords(cmdq_dout)
        /\ pipeline_flush_count' = 0
        /\ src_burst_cnt' = BurstOf(ReadWords(cmdq_dout))
        /\ rd_xfer_remaining' =
             ReadWords(cmdq_dout) - BurstOf(ReadWords(cmdq_dout))
    BY <1>7 DEF ReadAnswers, ReadRequests
  <2> QED BY <1>1, <1>3, <1>4, <1>5, <2>1, <2>2, <2>3, <2>4 DEF ReadInv
<1>8. CASE ~latch_this_cmd
  <2>1. /\ outstanding_read_reqs' = outstanding_read_reqs - Received
              + IF Requests(accepts) THEN src_burst_cnt ELSE 0
        /\ readdatavalid_cntr' = readdatavalid_cntr - Received
        /\ pipeline_flush_count' =
             pipeline_flush_count + IF rd_state = "FLUSH" THEN 1 ELSE 0
    BY <1>8 DEF ReadAnswers, Received
  <2>2. /\ src_burst_cnt' = IF Requests(accepts) THEN BurstOf(rd_xfer_remaining)
                            ELSE src_burst_cnt
        /\ rd_xfer_remaining' =
             IF Requests(accepts)
             THEN rd_xfer_remaining - BurstOf(rd_xfer_remaining)
             ELSE rd_xfer_remaining
    BY <1>8 DEF ReadRequests
  <2>3. Received \in Nat /\ Received' \in Nat
    BY <1>3 DEF Received
  <2>4. /\ outstanding_read_reqs' = Len(pending') + Received'
        /\ readdatavalid_cntr' =
             Len(pending') + Received' + rd_xfer_remaining' + src_burst_cnt'
    <3>1. rd_xfer_remaining' + src_burst_cnt' =
            rd_xfer_remaining + src_burst_cnt
              - IF Requests(accepts) THEN src_burst_cnt ELSE 0
      BY <1>5, <2>2
    <3>2. Len(pending') + Received' =
            Len(pending) + IF Requests(accepts) THEN src_burst_cnt ELSE 0
      BY <1>1, <1>2, <1>3, <1>5
    <3>3. rd_xfer_remaining' \in Int /\ src_burst_cnt' \in Int
      BY <1>5, <2>2
    <3>4. outstanding_read_reqs' = Len(pending') + Received'
      BY <1>2, <1>5, <2>1, <2>3, <3>2 DEF ReadInv
    <3>5. readdatavalid_cntr' = Len(pending) + rd_xfer_remaining + src_burst_cnt
      BY <1>2, <1>5, <2>1, <2>3 DEF ReadInv
    <3>6. Len(pending') + Received' + (rd_xfer_remaining' + src_burst_cnt') =
            Len(pending) + rd_xfer_remaining + src_burst_cnt
      <4>1. rd_xfer_remaining \in Int
        OBVIOUS
      <4>2. CASE Requests(accepts)
        BY <1>2, <1>5, <3>1, <3>2, <4>1, <4>2
      <4>3. CASE ~Requests(accepts)
        BY <1>2, <1>5, <3>1, <3>2, <4>1, <4>3
      <4> QED BY <4>2, <4>3
    <3> QED BY <1>2, <2>3, <3>3, <3>4, <3>5, <3>6
  <2>5. CASE rd_state = "IDLE"
    <3>1. rd_state' = "IDLE" /\ ~Requests(accepts)
      BY <1>6, <1>8, <2>5 DEF rd_state_nxt, Requests
    <3> QED BY <1>1, <1>3, <1>4, <2>1, <2>2, <2>4, <2>5, <3>1 DEF ReadInv
  <2>6. CASE rd_state \in {"READ", "PAUSE_READ"}
    <3>1. CASE rd_reqs_complete(accepts)
      <4>1. rd_state' = "WAIT_FOR_RX_DATA"
        BY <1>6, <2>6, <3>1 DEF rd_state_nxt
      <4>2. rd_xfer_remaining' = 0 /\ src_burst_cnt' = 0
        BY <1>5, <2>2, <3>1 DEF rd_reqs_complete
      <4> QED BY <2>1, <2>4, <2>6, <4>1, <4>2 DEF ReadInv
    <3>2. CASE ~rd_reqs_complete(accepts)
      <4>1. rd_state' \in {"READ", "PAUSE_READ"}
        BY <1>6, <2>6, <3>2 DEF rd_state_nxt
      <4> QED BY <2>1, <2>4, <2>6, <4>1 DEF ReadInv
    <3> QED BY <3>1, <3>2
  <2>7. CASE rd_state = "WAIT_FOR_RX_DATA"
    <3>1. ~Requests(accepts) /\ rd_xfer_remaining = 0 /\ src_burst_cnt = 0
      BY <2>7 DEF Requests, ReadInv
    <3>2. CASE readdatavalid_cntr > 0
      <4>1. rd_state' = "WAIT_FOR_RX_DATA"
        BY <1>6, <2>7, <3>2 DEF rd_state_nxt
      <4> QED BY <2>1, <2>2, <2>4, <2>7, <3>1, <4>1 DEF ReadInv
    <3>3. CASE ~(readdatavalid_cntr > 0)
      <4>1. rd_state' = "FLUSH"
        BY <1>6, <2>7, <3>3 DEF rd_state_nxt
      <4>2. Len(pending) = 0 /\ ~readdatavalid
        BY <1>2, <3>1, <3>3 DEF ReadInv, Received
      <4>3. pending' = <<>> /\ ~readdatavalid'
        BY <1>1, <1>2, <1>3, <1>4, <3>1, <4>2
      <4> QED BY <2>1, <2>2, <2>4, <2>7, <3>1, <4>1, <4>3 DEF ReadInv
    <3> QED BY <3>2, <3>3
  <2>8. CASE rd_state = "FLUSH"
    <3>1. /\ ~Requests(accepts) /\ rd_xfer_remaining = 0 /\ src_burst_cnt = 0
          /\ pending = <<>> /\ ~answers
      BY <2>8 DEF Requests, ReadInv
    <3>2. pending' = <<>> /\ ~readdatavalid'
      BY <1>1, <1>2, <1>3, <1>4, <3>1
    <3>3. \/ rd_state' = "IDLE" /\ pipeline_flush_count = 6
          \/ rd_state' = "FLUSH" /\ pipeline_flush_count # 6
      BY <1>6, <2>8 DEF rd_state_nxt, flush_done
    <3> QED BY <2>1, <2>2, <2>4, <2>8, <3>1, <3>2, <3>3 DEF ReadInv
  <2> QED BY <2>5, <2>6, <2>7, <2>8
<1> QED BY <1>7, <1>8

-----------------------------------------------------------------------------
(***************************************************************************)
(* Room: the words in the buffer and those on their way.  When space is    *)
(* seen, two clocks late, a burst may already have been asked for; another *)
(* is asked for in the clock that sees it, and one more before the reader  *)
(* pauses; the flush pushes seven words more.                              *)
(***************************************************************************)
Load == Len(databuf) + outstanding_read_reqs
Spare == RDDATA_BUFFER_DEPTH - DATA_BUFFER_SKID_SPACE

RoomInv ==
  /\ free_space_in_databuf <= RDDATA_BUFFER_DEPTH - Len(databuf) + 1
  /\ there_is_space_in_databuf => Load <= Spare + SRC_RD_BURSTCOUNT_MAX
  /\ rd_state = "READ" => Load <= Spare + 2 * SRC_RD_BURSTCOUNT_MAX
  /\ Load <= Spare + 3 * SRC_RD_BURSTCOUNT_MAX + pipeline_flush_count

\* What a clock does to the buffer.
LEMMA BufferLength ==
  ASSUME PipeTypes, WriteTypes, NEW ready \in BOOLEAN,
         wr_state = "WRITE" => databuf # <<>>,
         Buffer(ready)
  PROVE  /\ Len(databuf) \in Nat
         /\ Len(databuf') = IF latch_this_cmd THEN 0
              ELSE Len(databuf) - (IF databuffer_rdack(ready) THEN 1 ELSE 0)
                                + (IF databuffer_wr_req THEN 1 ELSE 0)
<1> DEFINE rest == IF databuffer_rdack(ready) THEN Tail(databuf) ELSE databuf
           more == IF databuffer_wr_req THEN <<shifted>> ELSE <<>>
<1>1. databuf \in Seq(Word) /\ Len(databuf) \in Nat
  BY LenProperties DEF WriteTypes
<1>2. /\ rest \in Seq(Word)
      /\ Len(rest) = Len(databuf) - IF databuffer_rdack(ready) THEN 1 ELSE 0
  BY <1>1, HeadTailProperties
     DEF databuffer_rdack, successful_dst_int_write, WriteTypes
<1>3. more \in Seq(Word) /\ Len(more) = IF databuffer_wr_req THEN 1 ELSE 0
  BY DEF PipeTypes
<1>4. databuf' = IF latch_this_cmd THEN <<>> ELSE rest \o more
  BY DEF Buffer
<1>5. Len(rest \o more) = Len(rest) + Len(more)
  BY <1>2, <1>3, ConcatProperties
<1> HIDE DEF rest, more
<1> QED BY <1>1, <1>2, <1>3, <1>4, <1>5, EmptySeq

\* What is written and read changes the buffer and both counts alike.
LEMMA Balance ==
  ASSUME NEW l \in Int, NEW u \in Int, NEW w \in Int,
         NEW p \in Int, NEW q \in Int, NEW f \in Int,
         l = u + w
  PROVE  (l - p) + q = (u + (f - p)) + (w + (q - f))
  OBVIOUS

LEMMA RoomInvStep ==
  ASSUME CommandTypes, ReadTypes, PipeTypes, WriteTypes, ReadInv, RoomInv,
         LatchRests, wr_state = "WRITE" => databuf # <<>>,
         NEW accepts \in BOOLEAN, NEW answers \in BOOLEAN,
         NEW ready \in BOOLEAN,
         ReadRequests(accepts), ReadAnswers(accepts, answers), Buffer(ready)
  PROVE  RoomInv'
<1> DEFINE push == IF databuffer_wr_req THEN 1 ELSE 0
           pop == IF databuffer_rdack(ready) THEN 1 ELSE 0
           M == SRC_RD_BURSTCOUNT_MAX
<1>1. /\ Len(databuf) \in Nat
      /\ Len(databuf') =
           IF latch_this_cmd THEN 0 ELSE Len(databuf) - pop + push
  BY BufferLength
<1>a. push \in {0, 1} /\ pop \in {0, 1}
  OBVIOUS
<1>b. push = 1 => readdatavalid \/ rd_state = "FLUSH"
  BY DEF databuffer_wr_req, StepAt, do_pipe_step
<1> HIDE DEF push, pop
<1>2. /\ Spare \in Nat /\ M \in Nat /\ RDDATA_BUFFER_DEPTH \in Nat
      /\ DATA_BUFFER_SKID_SPACE \in Nat
      /\ Spare' = Spare /\ Spare = RDDATA_BUFFER_DEPTH - DATA_BUFFER_SKID_SPACE
  BY TransferAssumption DEF Spare
<1>3. free_space_in_databuf' = RDDATA_BUFFER_DEPTH - Len(databuf)
  BY DEF ReadAnswers
<1>4. free_space_in_databuf' <= RDDATA_BUFFER_DEPTH - Len(databuf') + 1
  BY <1>1, <1>2, <1>3, <1>a
<1>5. rd_state' = rd_state_nxt(accepts)
  BY DEF ReadRequests
<1>6. CASE latch_this_cmd
  <2>1. Load' = 0
    BY <1>1, <1>6 DEF Load, ReadAnswers
  <2>2. pipeline_flush_count' = 0
    BY <1>6 DEF ReadAnswers
  <2> QED BY <1>2, <1>4, <2>1, <2>2 DEF RoomInv
<1>7. CASE ~latch_this_cmd
  <2> DEFINE asked == IF Requests(accepts) THEN src_burst_cnt ELSE 0
             flush == IF rd_state = "FLUSH" THEN 1 ELSE 0
  <2>1. /\ outstanding_read_reqs' = outstanding_read_reqs - Received + asked
        /\ pipeline_flush_count' = pipeline_flush_count + flush
    BY <1>7 DEF ReadAnswers, Received
  <2>2. asked \in 0 .. M /\ (asked # 0 => rd_state = "READ")
    BY <1>2 DEF Requests, ReadTypes
  <2>3. push <= Received + flush
    BY <1>a, <1>b DEF Received
  <2>4. Received \in {0, 1} /\ flush \in {0, 1}
    BY DEF Received
  <2>5. outstanding_read_reqs \in Int /\ pipeline_flush_count \in Nat
    BY DEF ReadTypes
  <2> HIDE DEF asked, flush
  <2>6. Load' <= Load + asked + flush
    BY <1>1, <1>2, <1>7, <1>a, <2>1, <2>2, <2>3, <2>4, <2>5 DEF Load
  <2>7. Load \in Int /\ Load' \in Int
    BY <1>1, <1>2, <1>7, <1>a, <2>1, <2>2, <2>4, <2>5 DEF Load
  <2>8. CASE rd_state = "READ"
    <3>1. flush = 0
      BY <2>8 DEF flush
    <3>2. Load <= Spare + 2 * M
      BY <2>8 DEF RoomInv
    <3>3. there_is_space_in_databuf' => Load' <= Spare + M
      <4>1. SUFFICES ASSUME Space PROVE Load' <= Spare + M
        BY <1>7 DEF ReadAnswers
      <4>2. Load <= Spare
        BY <1>1, <1>2, <2>5, <4>1 DEF Space, RoomInv, Load, ReadTypes
      <4> QED BY <1>2, <2>2, <2>6, <2>7, <3>1, <4>2
    <3>4. rd_state' = "READ" => there_is_space_in_databuf
      BY <1>5, <2>8 DEF rd_state_nxt
    <3>5. rd_state' = "READ" => Load' <= Spare + 2 * M
      BY <1>2, <2>2, <2>6, <2>7, <3>1, <3>4 DEF RoomInv
    <3>6. Load' <= Spare + 3 * M
      BY <1>2, <2>2, <2>6, <2>7, <3>1, <3>2
    <3>7. Load' <= Spare + 3 * M + pipeline_flush_count'
      BY <1>2, <2>1, <2>5, <2>7, <3>1, <3>6
    <3> QED BY <1>2, <1>4, <3>3, <3>5, <3>7 DEF RoomInv
  <2>9. CASE rd_state # "READ"
    <3>1. asked = 0
      BY <2>2, <2>9
    <3>2. Load' <= Load + flush
      BY <2>6, <2>7, <3>1, <2>4
    <3>3. Load' <= Spare + 3 * M + pipeline_flush_count'
      BY <1>2, <2>1, <2>4, <2>5, <2>7, <3>2 DEF RoomInv
    <3>4. there_is_space_in_databuf' => Load' <= Spare + M
      <4>1. SUFFICES ASSUME Space PROVE Load' <= Spare + M
        BY <1>7 DEF ReadAnswers
      <4>2. Load <= Spare
        BY <1>1, <1>2, <2>5, <4>1 DEF Space, RoomInv, Load, ReadTypes
      <4> QED BY <1>2, <2>4, <2>7, <3>2, <4>2, TransferAssumption
    <3>5. rd_state' = "READ" =>
            rd_state = "PAUSE_READ" /\ there_is_space_in_databuf
      BY <1>5, <1>7, <2>9 DEF rd_state_nxt, ReadTypes
    <3>6. rd_state' = "READ" => Load' <= Spare + 2 * M
      <4>1. SUFFICES ASSUME rd_state' = "READ" PROVE Load' <= Spare + 2 * M
        OBVIOUS
      <4>2. flush = 0 /\ Load <= Spare + M
        BY <3>5, <4>1 DEF RoomInv, flush
      <4> QED BY <1>2, <2>7, <3>2, <4>2
    <3> QED BY <1>2, <1>4, <3>3, <3>4, <3>6 DEF RoomInv
  <2> QED BY <2>8, <2>9
<1> QED BY <1>6, <1>7

-----------------------------------------------------------------------------
(***************************************************************************)
(* Writing: the words of the command are in the buffer, or still to be     *)
(* pushed into it; the writer counts those that were pushed four clocks    *)
(* ago, and within a burst it has counted the rest of the burst.           *)
(***************************************************************************)
Flag(i) == IF databuffer_wr_req_d[i] THEN 1 ELSE 0
Uncounted == Flag(1) + Flag(2) + Flag(3) + Flag(4)

Sending == wr_state \in {"WAIT_DATA", "WRITE"}

\* The first burst count is there.
Settled == ~latch[5] /\ ~latch[6] /\ ~latch[7]

CountInv ==
  /\ Len(databuf) = local_databuf_usedw + Uncounted
  /\ local_databuf_usedw >= 0
  /\ databuf_writes_cntr + Len(databuf) = wr_xfer_remaining
  /\ Sending => /\ wr_xfer_remaining > 0
                /\ wr_xfer_remaining + dst_write_cntr = WriteWords(cmdq_dout)
  /\ ~Sending => wr_xfer_remaining = 0

SetupInv ==
  /\ latch[5] => pipeline_shifter = 0
  /\ latch[6] => pipeline_shifter <= 1
  /\ latch[7] => pipeline_shifter <= 2
  /\ ~Settled => wr_state = "WAIT_DATA" /\ Len(databuf) = 0 /\ dst_write_cntr = 0

BurstInv ==
  Sending /\ Settled =>
    /\ dst_avmm_burstcount <= DST_WR_BURSTCOUNT_MAX
    /\ dst_avmm_burstcount <= wr_xfer_remaining
    /\ \/ dst_avmm_burstcount >= 1
       \/ /\ dst_avmm_burstcount = 0
          /\ wr_xfer_remaining = 1
          /\ ~this_is_first_burst_word
          /\ last_dst_write_is_partial
    /\ (build.to_host /\ first_dst_write_is_partial /\ this_is_first_burst_word)
         => dst_avmm_burstcount = 1
    /\ wr_state = "WRITE" =>
         /\ local_databuf_usedw >= 1
         /\ local_databuf_usedw >= dst_avmm_burstcount

WriteInv == CountInv /\ SetupInv /\ BurstInv

LEMMA WriteHasData ==
  ASSUME WriteTypes, WriteInv
  PROVE  wr_state = "WRITE" => databuf # <<>> /\ Len(databuf) > 0 /\ Settled
<1> SUFFICES ASSUME wr_state = "WRITE"
             PROVE  databuf # <<>> /\ Len(databuf) > 0 /\ Settled
  OBVIOUS
<1>1. Settled
  BY DEF WriteInv, SetupInv
<1>2. local_databuf_usedw >= 1
  BY <1>1 DEF WriteInv, BurstInv, Sending
<1>3. Uncounted \in Nat
  BY DEF Uncounted, Flag, WriteTypes
<1>4. Len(databuf) > 0
  BY <1>2, <1>3 DEF WriteInv, CountInv, WriteTypes
<1> QED BY <1>1, <1>4, EmptySeq

\* Nothing is counted of an empty buffer.
LEMMA EmptyUncounted ==
  ASSUME WriteTypes, WriteInv, Len(databuf) = 0
  PROVE  local_databuf_usedw = 0
<1>1. Uncounted \in Nat
  BY DEF Uncounted, Flag
<1>2. 0 = local_databuf_usedw + Uncounted /\ local_databuf_usedw >= 0
  BY DEF WriteInv, CountInv
<1>3. local_databuf_usedw \in Int
  BY DEF WriteTypes
<1> QED BY <1>1, <1>2, <1>3

\* The next burst: no larger than the words to come, and empty only when the
\* word to come is a partial one.
LEMMA NextBurstType ==
  ASSUME NEW n \in Nat, n > 0
  PROVE  /\ NextBurst(n) \in Nat
         /\ NextBurst(n) <= DST_WR_BURSTCOUNT_MAX
         /\ NextBurst(n) <= n
         /\ NextBurst(n) = 0 =>
              n = 1 /\ build.to_host /\ last_dst_write_is_partial
  BY TransferAssumption DEF NextBurst

\* A burst that goes on has a beat to come, so that it ends with the last word.
LEMMA BurstGoesOn ==
  ASSUME WriteTypes, WriteInv, wr_state = "WRITE", Settled
  PROVE  /\ ~EndOfBurst(FALSE)
         /\ ~EndOfBurst(TRUE) => /\ dst_avmm_burstcount >= 2
                                 /\ wr_xfer_remaining >= 2
<1>1. ~EndOfBurst(FALSE)
  BY DEF EndOfBurst, successful_dst_int_write
<1>2. successful_dst_int_write(TRUE)
  BY DEF successful_dst_int_write
<1>3. Sending
  BY DEF Sending
<1> SUFFICES ASSUME ~EndOfBurst(TRUE)
             PROVE  dst_avmm_burstcount >= 2 /\ wr_xfer_remaining >= 2
  BY <1>1
<1>4. dst_avmm_byteenable(TRUE) = Bytes /\ dst_avmm_burstcount # 1
  BY <1>2 DEF EndOfBurst, burstcount
<1>5. CASE dst_avmm_burstcount >= 1
  BY <1>3, <1>4, <1>5 DEF WriteInv, BurstInv, WriteTypes
<1>6. CASE ~(dst_avmm_burstcount >= 1)
  <2>1. /\ wr_xfer_remaining = 1 /\ ~this_is_first_burst_word
        /\ last_dst_write_is_partial
    BY <1>3, <1>6 DEF WriteInv, BurstInv
  <2>2. dst_write_cntr + 1 = WriteWords(cmdq_dout)
    BY <1>3, <2>1 DEF WriteInv, CountInv, WriteTypes
  <2>3. this_is_last_dst_write(TRUE)
    BY <1>2, <2>2 DEF this_is_last_dst_write
  <2>4. dst_avmm_byteenable(TRUE) = LastByteEnable(cmdq_dout)
    BY <2>1, <2>3 DEF dst_avmm_byteenable
  <2> QED BY <1>4, <2>1, <2>4 DEF last_dst_write_is_partial
<1> QED BY <1>5, <1>6

\* The counters of the words move together.
LEMMA CountInvStep ==
  ASSUME CommandTypes, ReadTypes, PipeTypes, WriteTypes, Phase, LatchRests, WriteInv,
         NEW ready \in BOOLEAN,
         CommandQueue, Buffer(ready), Write(ready),
         wr_state = "WRITE" => databuf # <<>> /\ Len(databuf) > 0 /\ Settled,
         Sending => cmdq_dout' = cmdq_dout
  PROVE  CountInv'
<1> DEFINE push == IF databuffer_wr_req THEN 1 ELSE 0
           pop == IF databuffer_rdack(ready) THEN 1 ELSE 0
<1>1. /\ Len(databuf) \in Nat
      /\ Len(databuf') =
           IF latch_this_cmd THEN 0 ELSE Len(databuf) - pop + push
  BY BufferLength
<1>2. push \in {0, 1} /\ pop \in {0, 1}
  OBVIOUS
<1>3. Flag(4) \in {0, 1} /\ Uncounted \in Nat
  BY DEF Uncounted, Flag, WriteTypes
<1>4. Uncounted' = Uncounted + push - Flag(4)
  <2>1. /\ databuffer_wr_req_d'[1] = databuffer_wr_req
        /\ databuffer_wr_req_d'[2] = databuffer_wr_req_d[1]
        /\ databuffer_wr_req_d'[3] = databuffer_wr_req_d[2]
        /\ databuffer_wr_req_d'[4] = databuffer_wr_req_d[3]
    BY DEF Buffer
  <2> DEFINE f1 == Flag(1) f2 == Flag(2) f3 == Flag(3) f4 == Flag(4)
  <2>2. Flag(1)' = push /\ Flag(2)' = f1 /\ Flag(3)' = f2 /\ Flag(4)' = f3
    BY <2>1 DEF Flag
  <2>3. f1 \in {0, 1} /\ f2 \in {0, 1} /\ f3 \in {0, 1} /\ f4 \in {0, 1}
    BY DEF Flag
  <2>4. Uncounted = f1 + f2 + f3 + f4 /\ Uncounted' = push + f1 + f2 + f3
    BY <2>2 DEF Uncounted
  <2> HIDE DEF f1, f2, f3, push
  <2>5. Uncounted' = Uncounted + push - f4
    BY <1>2, <2>3, <2>4
  <2> QED BY <2>5 DEF f4
<1>5. local_databuf_usedw_next(ready) = local_databuf_usedw + Flag(4) - pop
  BY DEF local_databuf_usedw_next, Flag
<1>6. push = 1 => databuf_writes_cntr > 0
  BY DEF databuffer_wr_req
<1>7. pop = 1 <=> wr_state = "WRITE" /\ ready
  BY DEF databuffer_rdack, successful_dst_int_write
<1>8. databuf_writes_cntr' =
        IF latch_this_cmd THEN WriteWords(cmdq_dout) ELSE databuf_writes_cntr - push
  BY DEF Buffer
<1>9. WriteWords(cmdq_dout) \in Nat
  BY CommandWords DEF CommandTypes
<1> HIDE DEF push, pop
<1>10. CASE latch_this_cmd
  <2>1. wr_state = "WIDLE" /\ ~Sending /\ wr_xfer_remaining = 0
    BY <1>10 DEF LatchRests, Sending, WriteInv, CountInv
  <2>2. Len(databuf) = 0 /\ databuf_writes_cntr = 0 /\ Uncounted = 0
    BY <1>1, <1>3, <2>1 DEF WriteInv, CountInv, WriteTypes
  <2>3. Flag(4) = 0
    BY <2>2 DEF Uncounted, Flag
  <2>4. push = 0
    BY <1>2, <1>6, <2>2
  <2>5. Uncounted' = 0
    BY <1>4, <2>2, <2>3, <2>4
  <2>6. /\ local_databuf_usedw' = 0 /\ Len(databuf') = 0
        /\ wr_xfer_remaining' = WriteWords(cmdq_dout) /\ dst_write_cntr' = 0
        /\ wr_state' = "WAIT_DATA"
    BY <1>1, <1>10, <2>1 DEF Buffer, Write, wr_state_nxt
  <2>7. cmdq_dout' = cmdq_dout /\ cmdq_dout \in Commands
    BY <1>10 DEF Phase, latch_this_cmd, CommandQueue, Pop
  <2>8. WriteWords(cmdq_dout) > 0 /\ WriteWords(cmdq_dout)' = WriteWords(cmdq_dout)
    BY <2>7, CommandsAreCommands, CommandWords
       DEF WriteWords, Words, Off
  <2> QED BY <1>8, <1>9, <1>10, <2>5, <2>6, <2>8 DEF CountInv, Sending
<1>11. CASE ~latch_this_cmd
  <2>1. Len(databuf') = Len(databuf) - pop + push
    BY <1>1, <1>11
  <2>2. /\ local_databuf_usedw' = local_databuf_usedw + Flag(4) - pop
        /\ databuf_writes_cntr' = databuf_writes_cntr - push
    BY <1>5, <1>8, <1>11 DEF Buffer
  <2>3. Len(databuf') = local_databuf_usedw' + Uncounted'
    <3>1. Len(databuf) = local_databuf_usedw + Uncounted
      BY DEF WriteInv, CountInv
    <3>2. local_databuf_usedw \in Int
      BY DEF WriteTypes
    <3>3. /\ Len(databuf) \in Int /\ Uncounted \in Int /\ Flag(4) \in Int
          /\ pop \in Int /\ push \in Int
      BY <1>1, <1>2, <1>3
    <3>4. (Len(databuf) - pop) + push
            = (local_databuf_usedw + (Flag(4) - pop))
              + (Uncounted + (push - Flag(4)))
      BY <3>1, <3>2, <3>3, Balance
    <3>5. /\ Len(databuf') = (Len(databuf) - pop) + push
          /\ local_databuf_usedw' = local_databuf_usedw + (Flag(4) - pop)
          /\ Uncounted' = Uncounted + (push - Flag(4))
      BY <1>4, <2>1, <2>2
    <3> QED BY <3>4, <3>5
  <2>4. pop = 1 => wr_state = "WRITE" /\ local_databuf_usedw >= 1
                     /\ wr_xfer_remaining > 0
    BY <1>7 DEF WriteInv, BurstInv, CountInv, Sending
  <2>5. local_databuf_usedw' >= 0
    BY <1>2, <1>3, <2>2, <2>4 DEF WriteInv, CountInv, WriteTypes
  <2>6. ~Sending => wr_xfer_remaining = 0
    BY DEF WriteInv, CountInv
  <2>7. wr_xfer_remaining' = wr_xfer_remaining - pop
    <3>1. wr_state = "MAGIC" => wr_xfer_remaining = 0
      BY <2>6 DEF Sending
    <3>2. CASE pop = 1
      BY <1>7, <1>11, <2>4, <3>2 DEF Write, successful_dst_int_write, WriteTypes
    <3>3. CASE pop = 0
      BY <1>7, <1>11, <3>1, <3>3
         DEF Write, successful_dst_int_write, WriteTypes
    <3> QED BY <1>2, <3>2, <3>3
  <2>8. databuf_writes_cntr' + Len(databuf') = wr_xfer_remaining'
    <3>1. databuf_writes_cntr + Len(databuf) = wr_xfer_remaining
      BY DEF WriteInv, CountInv
    <3>2. databuf_writes_cntr \in Int /\ wr_xfer_remaining \in Int
      BY DEF WriteTypes
    <3> QED BY <1>1, <1>2, <2>1, <2>2, <2>7, <3>1, <3>2
  <2>9. CASE ~Sending
    <3>1. ~Sending' /\ pop = 0
      BY <1>2, <1>7, <1>11, <2>9
         DEF Sending, Write, wr_state_nxt, WriteTypes
    <3>2. wr_xfer_remaining' = 0
      BY <2>6, <2>7, <2>9, <3>1
    <3> QED BY <2>3, <2>5, <2>8, <3>1, <3>2 DEF CountInv
  <2>10. CASE Sending
    <3>1. WriteWords(cmdq_dout)' = WriteWords(cmdq_dout)
      BY <2>10 DEF WriteWords, Words, Off
    <3>2. wr_xfer_remaining > 0
          /\ wr_xfer_remaining + dst_write_cntr = WriteWords(cmdq_dout)
      BY <2>10 DEF WriteInv, CountInv
    <3>3. dst_write_cntr' = dst_write_cntr + pop
      BY <1>2, <1>7, <1>11, <2>10 DEF Write, successful_dst_int_write, Sending
    <3>4. wr_xfer_remaining' + dst_write_cntr' = WriteWords(cmdq_dout)'
      BY <1>2, <2>7, <3>1, <3>2, <3>3 DEF WriteTypes
    <3>5. Sending' <=> wr_xfer_remaining' > 0
      <4>1. wr_state' = wr_state_nxt(ready)
        BY DEF Write
      <4>2. CASE wr_state = "WAIT_DATA"
        <5>1. wr_state' \in {"WAIT_DATA", "WRITE"} /\ pop = 0
          BY <1>2, <1>7, <4>1, <4>2 DEF wr_state_nxt
        <5> QED BY <2>7, <3>2, <5>1 DEF Sending, WriteTypes
      <4>3. CASE wr_state = "WRITE" /\ EndOfBurst(ready)
        <5>1. pop = 1
          BY <1>7, <4>3 DEF EndOfBurst, successful_dst_int_write
        <5>2. CASE wr_xfer_remaining = 1
          <6>1. wr_state' \in {"WIDLE", "WAIT_MAGIC"}
            BY <4>1, <4>3, <5>2 DEF wr_state_nxt
          <6> QED BY <2>7, <5>1, <5>2, <6>1 DEF Sending
        <5>3. CASE wr_xfer_remaining # 1
          <6>1. wr_state' \in {"WRITE", "WAIT_DATA"}
            BY <4>1, <4>3, <5>3 DEF wr_state_nxt
          <6> QED BY <2>7, <3>2, <5>1, <5>3, <6>1 DEF Sending, WriteTypes
        <5> QED BY <5>2, <5>3
      <4>4. CASE wr_state = "WRITE" /\ ~EndOfBurst(ready)
        <5>1. wr_state' = "WRITE"
          BY <4>1, <4>4 DEF wr_state_nxt
        <5>2. wr_xfer_remaining' > 0
          <6>1. ready => wr_xfer_remaining >= 2
            BY <4>4, BurstGoesOn
          <6> QED BY <1>2, <1>7, <2>7, <3>2, <6>1 DEF WriteTypes
        <5> QED BY <5>1, <5>2 DEF Sending
      <4> QED BY <2>10, <4>2, <4>3, <4>4 DEF Sending
    <3>6. wr_xfer_remaining' \in Nat
      BY <1>2, <2>7, <3>2 DEF WriteTypes
    <3> QED BY <2>3, <2>5, <2>8, <3>4, <3>5, <3>6 DEF CountInv
  <2> QED BY <2>9, <2>10
<1> QED BY <1>10, <1>11

\* No word is pushed in the three clocks after the setup.
LEMMA SetupInvStep ==
  ASSUME CommandTypes, ReadTypes, PipeTypes, WriteTypes, Phase, LatchRests, WriteInv,
         NEW ready \in BOOLEAN,
         CommandQueue, Shift, Buffer(ready), Write(ready),
         wr_state = "WRITE" => databuf # <<>> /\ Len(databuf) > 0 /\ Settled
  PROVE  SetupInv'
<1>1. /\ latch'[5] = latch_this_cmd /\ latch'[6] = latch[5]
      /\ latch'[7] = latch[6]
  BY LatchStep DEF latch_this_cmd
<1>2. pipeline_shifter' \in 0 .. pipeline_shifter + 1
  BY DEF Shift, AtMost, PipeTypes
<1>3. Len(databuf) \in Nat
      /\ Len(databuf') = IF latch_this_cmd THEN 0
           ELSE Len(databuf) - (IF databuffer_rdack(ready) THEN 1 ELSE 0)
                             + (IF databuffer_wr_req THEN 1 ELSE 0)
  BY BufferLength
<1>4. CASE latch_this_cmd
  <2>1. wr_state = "WIDLE"
    BY <1>4 DEF LatchRests
  <2>2. Settled
    BY <2>1 DEF WriteInv, SetupInv
  <2>3. /\ pipeline_shifter' = 0 /\ dst_write_cntr' = 0 /\ Len(databuf') = 0
        /\ wr_state' = "WAIT_DATA"
    BY <1>3, <1>4, <2>1 DEF Shift, Write, wr_state_nxt
  <2> QED BY <1>1, <2>2, <2>3 DEF SetupInv, Settled
<1>5. CASE ~latch_this_cmd /\ ~Settled
  <2>1. wr_state = "WAIT_DATA" /\ Len(databuf) = 0 /\ dst_write_cntr = 0
        /\ pipeline_shifter <= 2
    BY <1>5 DEF WriteInv, SetupInv, Settled, PipeTypes
  <2>2. ~databuffer_wr_req /\ ~databuffer_rdack(ready)
    BY <2>1 DEF databuffer_wr_req, StepAt, databuffer_rdack,
                successful_dst_int_write, PipeTypes
  <2>3. Len(databuf') = 0 /\ dst_write_cntr' = 0
    BY <1>3, <1>5, <2>1, <2>2 DEF Write, successful_dst_int_write
  <2>4. wr_state' = "WAIT_DATA"
    <3>1. local_databuf_usedw = 0
      BY <2>1, EmptyUncounted
    <3>2. wr_xfer_remaining > 0
      BY <2>1 DEF WriteInv, CountInv, Sending
    <3>3. ~EnoughForThisBurst
      BY <3>1, <3>2, TransferAssumption DEF EnoughForThisBurst
    <3> QED BY <2>1, <3>3 DEF Write, wr_state_nxt
  <2>5. /\ latch'[5] => pipeline_shifter' = 0
        /\ latch'[6] => pipeline_shifter' <= 1
        /\ latch'[7] => pipeline_shifter' <= 2
    BY <1>1, <1>2, <1>5 DEF WriteInv, SetupInv, PipeTypes
  <2> QED BY <2>3, <2>4, <2>5 DEF SetupInv
<1>6. CASE ~latch_this_cmd /\ Settled
  <2>1. ~latch'[5] /\ ~latch'[6] /\ ~latch'[7]
    BY <1>1, <1>6 DEF Settled
  <2> QED BY <2>1 DEF SetupInv, Settled
<1> QED BY <1>4, <1>5, <1>6

LEMMA BurstInvStep ==
  ASSUME CommandTypes, ReadTypes, PipeTypes, WriteTypes, Phase, LatchRests, WriteInv,
         WriteTypes', CountInv', SetupInv',
         NEW ready \in BOOLEAN,
         CommandQueue, Buffer(ready), Write(ready),
         wr_state = "WRITE" => databuf # <<>> /\ Len(databuf) > 0 /\ Settled,
         Sending => cmdq_dout' = cmdq_dout, build' = build
  PROVE  BurstInv'
<1> SUFFICES ASSUME Sending', Settled'
             PROVE  BurstInv'
  BY DEF BurstInv
<1>1. /\ latch'[5] = latch_this_cmd /\ latch'[6] = latch[5]
      /\ latch'[7] = latch[6]
  BY LatchStep DEF latch_this_cmd
<1>2. ~latch_this_cmd /\ ~latch[5] /\ ~latch[6]
  BY <1>1 DEF Settled
<1>3. Sending
  BY <1>2 DEF Sending, Write, wr_state_nxt, WriteTypes
<1>4. cmdq_dout' = cmdq_dout
  BY <1>3
<1>5. /\ last_dst_write_is_partial' = last_dst_write_is_partial
      /\ first_dst_write_is_partial' = first_dst_write_is_partial
      /\ build'.to_host = build.to_host
  BY <1>4 DEF last_dst_write_is_partial, first_dst_write_is_partial,
              LastByteEnable, FirstByteEnable, Off, Bytes
<1>6. wr_xfer_remaining > 0 /\ wr_xfer_remaining' > 0
  BY <1>3 DEF WriteInv, CountInv
<1>7. CASE latch[7]
  <2>1. /\ wr_state = "WAIT_DATA" /\ Len(databuf) = 0 /\ dst_write_cntr = 0
    BY <1>7 DEF WriteInv, SetupInv, Settled
  <2>2. wr_xfer_remaining = WriteWords(cmdq_dout)
    BY <1>3, <2>1 DEF WriteInv, CountInv, WriteTypes
  <2>3. wr_xfer_remaining' = wr_xfer_remaining
    BY <1>2, <2>1 DEF Write, successful_dst_int_write
  <2>4. wr_state' = "WAIT_DATA"
    <3>1. local_databuf_usedw = 0
      BY <2>1, EmptyUncounted
    <3>2. ~EnoughForThisBurst
      BY <1>6, <3>1, TransferAssumption DEF EnoughForThisBurst
    <3> QED BY <2>1, <3>2 DEF Write, wr_state_nxt
  <2>5. dst_avmm_burstcount' =
          IF build.to_host /\ first_dst_write_is_partial THEN 1
          ELSE NextBurst(wr_xfer_remaining)
    BY <1>7, <2>2 DEF Write, dst_avmm_burstcount_nxt, latch_this_cmd_post2
  <2>6. CASE build.to_host /\ first_dst_write_is_partial
    BY <1>5, <1>6, <2>3, <2>4, <2>5, <2>6, TransferAssumption
       DEF BurstInv, WriteTypes
  <2>7. CASE ~(build.to_host /\ first_dst_write_is_partial)
    <3>1. /\ NextBurst(wr_xfer_remaining) \in Nat
          /\ NextBurst(wr_xfer_remaining) <= DST_WR_BURSTCOUNT_MAX
          /\ NextBurst(wr_xfer_remaining) <= wr_xfer_remaining
          /\ NextBurst(wr_xfer_remaining) = 0 =>
               /\ wr_xfer_remaining = 1 /\ build.to_host
               /\ last_dst_write_is_partial
      BY <1>6, NextBurstType DEF WriteTypes
    <3>2. NextBurst(wr_xfer_remaining) # 0
      <4>1. SUFFICES ASSUME NextBurst(wr_xfer_remaining) = 0 PROVE FALSE
        OBVIOUS
      <4>2. /\ WriteWords(cmdq_dout) = 1
            /\ FirstByteEnable(cmdq_dout) = Bytes
            /\ LastByteEnable(cmdq_dout) # Bytes
        BY <2>2, <2>7, <3>1, <4>1
           DEF first_dst_write_is_partial, last_dst_write_is_partial
      <4>3. cmdq_dout \in Commands
        BY <2>1 DEF Phase, controller_busy
      <4> QED BY <4>2, <4>3, OneWord, CommandsAreCommands
    <3> QED BY <1>5, <2>3, <2>4, <2>5, <2>7, <3>1, <3>2 DEF BurstInv
  <2> QED BY <2>6, <2>7
<1>8. CASE ~latch[7]
  <2>1. Settled
    BY <1>2, <1>8 DEF Settled
  <2>2. /\ dst_avmm_burstcount <= DST_WR_BURSTCOUNT_MAX
        /\ dst_avmm_burstcount <= wr_xfer_remaining
        /\ \/ dst_avmm_burstcount >= 1
           \/ /\ dst_avmm_burstcount = 0
              /\ wr_xfer_remaining = 1
              /\ ~this_is_first_burst_word
              /\ last_dst_write_is_partial
        /\ (build.to_host /\ first_dst_write_is_partial /\ this_is_first_burst_word)
             => dst_avmm_burstcount = 1
        /\ wr_state = "WRITE" =>
             /\ local_databuf_usedw >= 1
             /\ local_databuf_usedw >= dst_avmm_burstcount
    BY <1>3, <2>1 DEF WriteInv, BurstInv
  <2>3. /\ local_databuf_usedw' = local_databuf_usedw_next(ready)
        /\ dst_avmm_burstcount' = dst_avmm_burstcount_nxt(ready)
        /\ wr_state' = wr_state_nxt(ready)
    BY <1>2 DEF Buffer, Write
  <2>4. CASE ~(wr_state = "WRITE" /\ ready)
    <3>1. ~successful_dst_int_write(ready) /\ ~databuffer_rdack(ready)
      BY <1>3, <2>4 DEF successful_dst_int_write, databuffer_rdack, Sending
    <3>2. /\ dst_avmm_burstcount' = dst_avmm_burstcount
          /\ wr_xfer_remaining' = wr_xfer_remaining
      BY <1>2, <1>3, <1>8, <2>3, <3>1
         DEF dst_avmm_burstcount_nxt, latch_this_cmd_post2, Write, Sending
    <3>3. this_is_first_burst_word' => this_is_first_burst_word
      BY <1>2 DEF Write
    <3>4. local_databuf_usedw' >= local_databuf_usedw
      BY <2>3, <3>1 DEF local_databuf_usedw_next, WriteTypes
    <3>5. wr_state' = "WRITE" => wr_state = "WRITE" \/ EnoughForThisBurst
      BY <1>3, <2>3 DEF Sending, wr_state_nxt
    <3>6. wr_state' = "WRITE" => /\ local_databuf_usedw' >= 1
                                 /\ local_databuf_usedw' >= dst_avmm_burstcount
      <4>1. CASE wr_state = "WRITE"
        BY <2>2, <3>4, <4>1 DEF WriteTypes
      <4>2. CASE EnoughForThisBurst
        <5>1. local_databuf_usedw >= 1
              /\ local_databuf_usedw >= dst_avmm_burstcount
          BY <1>6, <2>2, <4>2, TransferAssumption
             DEF EnoughForThisBurst, WriteTypes
        <5> QED BY <3>4, <5>1 DEF WriteTypes
      <4> QED BY <3>5, <4>1, <4>2
    <3> QED BY <1>5, <2>2, <3>2, <3>3, <3>6 DEF BurstInv
  <2>5. CASE wr_state = "WRITE" /\ ready
    <3>1. successful_dst_int_write(ready) /\ databuffer_rdack(ready) /\ ready = TRUE
      BY <2>5 DEF successful_dst_int_write, databuffer_rdack
    <3>2. wr_xfer_remaining' = wr_xfer_remaining - 1
      BY <1>2, <1>6, <3>1 DEF Write
    <3>3. local_databuf_usedw' >= local_databuf_usedw - 1
      BY <2>3, <3>1 DEF local_databuf_usedw_next, WriteTypes
    <3>4. dst_avmm_burstcount' =
            IF dst_avmm_burstcount = 1 THEN NextBurst(wr_xfer_remaining')
            ELSE dst_avmm_burstcount - 1
      BY <1>8, <2>3, <2>5, <3>1, <3>2
         DEF dst_avmm_burstcount_nxt, latch_this_cmd_post2
    <3>5. wr_xfer_remaining' \in Nat /\ wr_xfer_remaining >= 2
      BY <1>6, <3>2 DEF WriteTypes
    <3>6. dst_avmm_burstcount >= 1
      BY <2>2, <3>5
    <3>7. /\ NextBurst(wr_xfer_remaining') \in Nat
          /\ NextBurst(wr_xfer_remaining') <= DST_WR_BURSTCOUNT_MAX
          /\ NextBurst(wr_xfer_remaining') <= wr_xfer_remaining'
          /\ NextBurst(wr_xfer_remaining') = 0 =>
               /\ wr_xfer_remaining' = 1 /\ build.to_host
               /\ last_dst_write_is_partial
      BY <1>6, <3>5, NextBurstType
    <3>8. /\ dst_avmm_burstcount' <= DST_WR_BURSTCOUNT_MAX
          /\ dst_avmm_burstcount' <= wr_xfer_remaining'
          /\ dst_avmm_burstcount' \in Nat
      BY <2>2, <3>2, <3>4, <3>6, <3>7, TransferAssumption DEF WriteTypes
    <3>9. dst_avmm_burstcount = 1 => EndOfBurst(ready)
      BY <3>1 DEF EndOfBurst, burstcount
    <3>10. EndOfBurst(ready) /\ build.to_host => ~this_is_first_burst_word'
      BY <1>2, <2>5 DEF Write
    <3>11. build.to_host /\ this_is_first_burst_word' => this_is_first_burst_word
      BY <1>2 DEF Write
    <3>12. dst_avmm_burstcount' = 0 =>
             /\ wr_xfer_remaining' = 1 /\ build.to_host
             /\ last_dst_write_is_partial /\ dst_avmm_burstcount = 1
      BY <3>4, <3>6, <3>7 DEF WriteTypes
    <3>13. dst_avmm_burstcount' >= 1
           \/ /\ dst_avmm_burstcount' = 0
              /\ wr_xfer_remaining' = 1
              /\ ~this_is_first_burst_word'
              /\ last_dst_write_is_partial'
      BY <1>5, <3>8, <3>9, <3>10, <3>12
    <3>14. (build.to_host /\ first_dst_write_is_partial /\ this_is_first_burst_word')
             => FALSE
      BY <2>2, <3>9, <3>10, <3>11
    <3>15. wr_state' = "WRITE" =>
             /\ local_databuf_usedw' >= 1
             /\ local_databuf_usedw' >= dst_avmm_burstcount'
      <4>1. SUFFICES ASSUME wr_state' = "WRITE"
                     PROVE  /\ local_databuf_usedw' >= 1
                            /\ local_databuf_usedw' >= dst_avmm_burstcount'
        OBVIOUS
      <4>2. CASE EndOfBurst(ready)
        <5>1. EnoughForNextBurst(ready)
          BY <2>3, <2>5, <3>5, <4>1, <4>2 DEF wr_state_nxt, WriteTypes
        <5>2. \/ local_databuf_usedw' >= DST_WR_BURSTCOUNT_MAX
              \/ local_databuf_usedw' = wr_xfer_remaining
          BY <2>3, <5>1 DEF EnoughForNextBurst
        <5> QED BY <3>2, <3>5, <3>8, <5>2, TransferAssumption DEF WriteTypes
      <4>3. CASE ~EndOfBurst(ready)
        <5>1. dst_avmm_burstcount >= 2
          BY <2>1, <2>5, <3>1, <4>3, BurstGoesOn
        <5>2. dst_avmm_burstcount' = dst_avmm_burstcount - 1
          BY <3>4, <5>1 DEF WriteTypes
        <5> QED BY <2>2, <2>5, <3>3, <5>1, <5>2 DEF WriteTypes
      <4> QED BY <4>2, <4>3
    <3> QED BY <1>5, <3>8, <3>13, <3>14, <3>15 DEF BurstInv
  <2> QED BY <2>4, <2>5
<1> QED BY <1>7, <1>8

-----------------------------------------------------------------------------
(***************************************************************************)
(* The inductive invariant.                                                *)
(***************************************************************************)
IInv == Types /\ Phase /\ ReadInv /\ RoomInv /\ WriteInv

LEMMA InitIInv == Init => IInv
<1> SUFFICES ASSUME Init PROVE IInv
  OBVIOUS
<1>1. /\ <<>> \in Seq(Nat) /\ <<>> \in Seq(Commands) /\ <<>> \in Seq(Word)
      /\ Len(<<>>) = 0
  BY EmptySeq
<1>2. NoWord \in Word
  BY DEF NoWord, Word
<1>3. CommandTypes
  <2>1. cmdq \in Seq(Commands)
    BY <1>1 DEF Init
  <2>2. build \in [to_host : BOOLEAN, magic : BOOLEAN]
        /\ descriptor \in Commands \cup {NULL}
    BY DEF Init
  <2>3. cmdq_dout \in Command
    BY DEF Command, Init
  <2>4. latch \in [1 .. 7 -> BOOLEAN] /\ controller_busy_d \in BOOLEAN
        /\ irq \in BOOLEAN
    BY DEF Init
  <2> QED BY <2>1, <2>2, <2>3, <2>4 DEF CommandTypes
<1>4. ReadTypes
  <2>1. pending \in Seq(Nat)
    BY <1>1 DEF Init
  <2>2. src_burst_cnt \in 0 .. SRC_RD_BURSTCOUNT_MAX
        /\ free_space_in_databuf \in Int
    BY TransferAssumption DEF Init
  <2>3. /\ rd_state = "IDLE" /\ readdatavalid \in BOOLEAN
        /\ there_is_space_in_databuf \in BOOLEAN
    BY Zenon DEF Init
  <2>4. /\ src_addr_cntr = 0 /\ rd_xfer_remaining = 0 /\ readdatavalid_cntr = 0
        /\ outstanding_read_reqs = 0 /\ pipeline_flush_count = 0
    BY Zenon DEF Init
  <2> QED BY <2>1, <2>2, <2>3, <2>4 DEF ReadTypes
<1>5. PipeTypes
  BY <1>2 DEF PipeTypes, Init
<1>6. WriteTypes
  <2>1. databuf \in Seq(Word)
    BY <1>1 DEF Init
  <2>2. wr_state = "WIDLE" /\ this_is_first_burst_word \in BOOLEAN
    BY Zenon DEF Init
  <2>4. databuffer_wr_req_d \in [1 .. 4 -> BOOLEAN]
    BY DEF Init
  <2>3. /\ dst_write_cntr = 0 /\ dst_avmm_burstcount = 0
        /\ wr_xfer_remaining = 0 /\ databuf_writes_cntr = 0
        /\ local_databuf_usedw = 0
    BY Zenon DEF Init
  <2> QED BY <2>1, <2>2, <2>3, <2>4 DEF WriteTypes
<1>7. Phase
  BY DEF Phase, Resting, controller_busy, Init
<1>8. ReadInv
  BY <1>1 DEF ReadInv, Received, Init
<1>9. RoomInv
  BY <1>1, TransferAssumption DEF RoomInv, Load, Spare, Init
<1>10. WriteInv
  <2>1. Uncounted = 0
    BY DEF Uncounted, Flag, Init
  <2>2. ~Sending /\ Settled
    BY DEF Sending, Settled, Init
  <2> QED BY <1>1, <2>1, <2>2 DEF WriteInv, CountInv, SetupInv, BurstInv, Init
<1> QED BY <1>3, <1>4, <1>5, <1>6, <1>7, <1>8, <1>9, <1>10 DEF IInv, Types

LEMMA ClockIInv ==
  ASSUME IInv,
         NEW accepts \in BOOLEAN, NEW answers \in BOOLEAN,
         NEW ready \in BOOLEAN, NEW complete \in BOOLEAN,
         Clock(accepts, answers, ready, complete)
  PROVE  IInv'
<1> USE DEF IInv, Types, Clock
<1>1. LatchRests
  BY PhaseLatch
<1>2. wr_state = "WRITE" => databuf # <<>> /\ Len(databuf) > 0 /\ Settled
  BY WriteHasData
<1>3. CommandTypes'
  BY CommandTypesStep
<1>4. ReadTypes'
  BY ReadTypesStep
<1>5. PipeTypes'
  BY PipeTypesStep
<1>6. WriteTypes'
  BY <1>2, WriteTypesStep
<1>7. Phase'
  <2>1. rd_state' = rd_state_nxt(accepts) /\ wr_state' = wr_state_nxt(ready)
    BY DEF ReadRequests, Write
  <2> QED BY <2>1, PhaseStep
<1>8. ReadInv'
  BY <1>1, ReadInvStep
<1>9. RoomInv'
  BY <1>1, <1>2, RoomInvStep
<1>10. Sending => cmdq_dout' = cmdq_dout
  BY DEF Sending, CommandQueue, Pop, controller_busy
<1>11. build' = build
  BY DEF hostVars
<1>12. CountInv'
  BY <1>1, <1>2, <1>10, CountInvStep
<1>13. SetupInv'
  BY <1>1, <1>2, SetupInvStep
<1>14. BurstInv'
  BY <1>1, <1>2, <1>6, <1>10, <1>11, <1>12, <1>13, BurstInvStep
<1> QED BY <1>3, <1>4, <1>5, <1>6, <1>7, <1>8, <1>9, <1>12, <1>13, <1>14
        DEF WriteInv

\* What the dispatcher does, and a step that changes nothing.
LEMMA OtherIInv ==
  ASSUME IInv,
         \/ \E c \in Commands : Offer(c)
         \/ Answer
         \/ UNCHANGED vars
  PROVE  IInv'
<1> USE DEF IInv, Types
<1>1. UNCHANGED <<build, cmdq_dout, latch, rdVars, pipeVars, bufVars, wrVars,
                  controller_busy_d>>
  BY DEF Offer, Answer, vars, hostVars, cmdVars, endVars
<1>2. ReadTypes' /\ PipeTypes' /\ WriteTypes'
  BY <1>1 DEF ReadTypes, PipeTypes, WriteTypes, rdVars, pipeVars, bufVars, wrVars
<1>3. ReadInv' /\ RoomInv'
  BY <1>1 DEF ReadInv, RoomInv, Received, Load, Spare, rdVars, bufVars
<1>4. WriteInv'
  <2>1. Uncounted' = Uncounted /\ Sending' = Sending /\ Settled' = Settled
    BY <1>1 DEF Uncounted, Flag, Sending, Settled, bufVars, wrVars
  <2>2. CountInv' /\ SetupInv'
    BY <1>1, <2>1 DEF WriteInv, CountInv, SetupInv, bufVars, wrVars, pipeVars,
                      WriteWords, Words, Off
  <2>3. BurstInv'
    BY <1>1, <2>1 DEF WriteInv, BurstInv, bufVars, wrVars,
                      first_dst_write_is_partial, last_dst_write_is_partial,
                      FirstByteEnable, LastByteEnable, Off, Bytes
  <2> QED BY <2>2, <2>3 DEF WriteInv
<1>5. controller_busy' = controller_busy
  BY <1>1 DEF controller_busy, rdVars, wrVars
<1>6. CommandTypes' /\ Phase'
  <2>1. CASE \E c \in Commands : Offer(c)
    <3>1. PICK c \in Commands : Offer(c)
      BY <2>1
    <3>2. /\ descriptor = NULL /\ descriptor' = c /\ cmdq' = Append(cmdq, c)
          /\ irq' = irq /\ c # NULL
      BY <3>1, TransferAssumption DEF Offer, endVars
    <3>3. cmdq = <<>> /\ Resting /\ \A i \in 1 .. 4 : ~latch[i]
      BY <3>2 DEF Phase, Resting
    <3>4. cmdq' \in Seq(Commands) /\ Len(cmdq') = 1
      BY <3>2, <3>3, AppendProperties, EmptySeq DEF CommandTypes
    <3>5. Resting'
      BY <1>1, <1>5, <3>2, <3>3 DEF Resting
    <3> QED BY <1>1, <1>5, <3>2, <3>3, <3>4, <3>5 DEF CommandTypes, Phase, Resting
  <2>2. CASE Answer
    <3>1. irq /\ ~irq' /\ irq' \in BOOLEAN /\ cmdq' = cmdq /\ descriptor' = NULL
      BY <2>2 DEF Answer, cmdVars
    <3>2. cmdq = <<>> /\ ~controller_busy /\ ~controller_busy_d
            /\ \A i \in 1 .. 4 : ~latch[i]
      BY <3>1 DEF Phase, Resting
    <3> QED BY <1>1, <1>5, <3>1, <3>2 DEF CommandTypes, Phase, Resting
  <2>3. CASE UNCHANGED vars
    <3>1. UNCHANGED <<descriptor, cmdq, irq>>
      BY <2>3 DEF vars, hostVars, cmdVars, endVars
    <3> QED BY <1>1, <1>5, <3>1 DEF CommandTypes, Phase, Resting
  <2> QED BY <2>1, <2>2, <2>3
<1> QED BY <1>2, <1>3, <1>4, <1>6

\* The registers keep to the invariant at every clock.
THEOREM TransferInvariance == Spec => []IInv
<1>1. IInv /\ [Next]_vars => IInv'
  <2> SUFFICES ASSUME IInv, [Next]_vars PROVE IInv'
    OBVIOUS
  <2>1. CASE Clocks
    BY <2>1, ClockIInv DEF Clocks
  <2>2. CASE \E c \in Commands : Offer(c)
    BY <2>2, OtherIInv
  <2>3. CASE Answer
    BY <2>3, OtherIInv
  <2>4. CASE UNCHANGED vars
    BY <2>4, OtherIInv
  <2> QED BY <2>1, <2>2, <2>3, <2>4 DEF Next
<1> QED BY <1>1, InitIInv, PTL DEF Spec

\* dma_data_transfer.sv:62-64, 496-508, 781-795: for every size of words and
\* bursts, and every depth the assumption allows, the data buffer never fills
\* up and never runs dry within a burst.
THEOREM BuffersInBounds == Spec => []BufferInBounds
<1>1. IInv => BufferInBounds
  <2> SUFFICES ASSUME IInv PROVE BufferInBounds
    OBVIOUS
  <2> USE DEF IInv, Types
  <2>1. Len(databuf) \in Nat /\ Len(pending) \in Nat
    BY LenProperties DEF WriteTypes, ReadTypes
  <2>2. Len(databuf) < RDDATA_BUFFER_DEPTH
    <3>1. Load <= Spare + 3 * SRC_RD_BURSTCOUNT_MAX + 7
      <4>1. /\ Load <= Spare + 3 * SRC_RD_BURSTCOUNT_MAX + pipeline_flush_count
            /\ pipeline_flush_count <= 7
        BY DEF RoomInv, ReadInv
      <4>2. Load \in Int /\ Spare \in Int /\ pipeline_flush_count \in Nat
        BY <2>1, TransferAssumption DEF Load, Spare, ReadTypes
      <4> QED BY <4>1, <4>2, TransferAssumption
    <3>2. outstanding_read_reqs >= 0 /\ outstanding_read_reqs \in Int
      BY <2>1 DEF ReadInv, Received
    <3> QED BY <2>1, <3>1, <3>2, TransferAssumption DEF Load, Spare
  <2>3. wr_state = "WRITE" => databuf # <<>> /\ local_databuf_usedw > 0
    BY WriteHasData DEF WriteInv, BurstInv, Sending, WriteTypes
  <2>4. local_databuf_usedw \in 0 .. Len(databuf)
    <3>1. Uncounted \in Nat
      BY DEF Uncounted, Flag
    <3>2. Len(databuf) = local_databuf_usedw + Uncounted /\ local_databuf_usedw >= 0
      BY DEF WriteInv, CountInv
    <3>3. local_databuf_usedw \in Int
      BY DEF WriteTypes
    <3> QED BY <2>1, <3>1, <3>2, <3>3
  <2>5. outstanding_read_reqs = Len(pending) + IF readdatavalid THEN 1 ELSE 0
    BY DEF ReadInv, Received
  <2> QED BY <2>2, <2>3, <2>4, <2>5 DEF BufferInBounds
<1> QED BY <1>1, TransferInvariance, PTL

-----------------------------------------------------------------------------
(***************************************************************************)
(* Multiples of the word size.                                             *)
(***************************************************************************)
LEMMA DivMod ==
  ASSUME NEW a \in Nat
  PROVE  /\ a = (a \div BytesPerWord) * BytesPerWord + Off(a)
         /\ a \div BytesPerWord \in Nat
  BY TransferAssumption DEF Off

LEMMA Times ==
  ASSUME NEW x \in Int, NEW y \in Int
  PROVE  /\ (x + y) * BytesPerWord = x * BytesPerWord + y * BytesPerWord
         /\ (x - y) * BytesPerWord = x * BytesPerWord - y * BytesPerWord
         /\ x <= y => x * BytesPerWord <= y * BytesPerWord
         /\ x * BytesPerWord \in Int
  BY TransferAssumption

\* An address has one offset.
LEMMA SameOff ==
  ASSUME NEW q \in Int, NEW r \in 0 .. BytesPerWord - 1,
         NEW q2 \in Int, NEW r2 \in 0 .. BytesPerWord - 1,
         q * BytesPerWord + r = q2 * BytesPerWord + r2
  PROVE  r = r2
<1>1. (q - q2) * BytesPerWord = r2 - r
  BY TransferAssumption
<1>2. CASE q > q2
  <2>1. (q - q2) * BytesPerWord >= 1 * BytesPerWord
    BY <1>2, Times
  <2> QED BY <1>1, <2>1, TransferAssumption
<1>3. CASE q < q2
  <2>1. (q - q2) * BytesPerWord <= (0-1) * BytesPerWord
    BY <1>3, Times
  <2> QED BY <1>1, <2>1, TransferAssumption
<1>4. CASE q = q2
  BY <1>1, <1>4, TransferAssumption
<1> QED BY <1>2, <1>3, <1>4

LEMMA OffShift ==
  ASSUME NEW a \in Nat, NEW m \in Nat
  PROVE  Off(a + m * BytesPerWord) = Off(a)
<1>1. m * BytesPerWord \in Nat
  BY TransferAssumption
<1> DEFINE b == a + m * BytesPerWord
<1>2. b \in Nat
  BY <1>1
<1>3. /\ a = (a \div BytesPerWord) * BytesPerWord + Off(a) /\ a \div BytesPerWord \in Nat
      /\ b = (b \div BytesPerWord) * BytesPerWord + Off(b) /\ b \div BytesPerWord \in Nat
  BY <1>2, DivMod
<1>4. Off(a) \in 0 .. BytesPerWord - 1 /\ Off(b) \in 0 .. BytesPerWord - 1
  BY <1>2, OffType DEF Bytes
<1>5. (a \div BytesPerWord + m) * BytesPerWord + Off(a) = (b \div BytesPerWord) * BytesPerWord + Off(b)
  <2>1. (a \div BytesPerWord + m) * BytesPerWord = (a \div BytesPerWord) * BytesPerWord + m * BytesPerWord
    BY <1>3, Times
  <2> HIDE DEF b
  <2>2. b = a + m * BytesPerWord
    BY DEF b
  <2>3. (b \div BytesPerWord) * BytesPerWord \in Int /\ (a \div BytesPerWord) * BytesPerWord \in Int
    BY <1>3, Times
  <2> QED BY <2>1, <2>2, <2>3, <1>1, <1>2, <1>3, <1>4
<1> HIDE DEF b
<1> QED BY <1>3, <1>4, <1>5, SameOff DEF b

\* The words of n bytes hold them, and one word less does not.
LEMMA WordsCover ==
  ASSUME NEW n \in Nat
  PROVE  /\ n <= Words(n) * BytesPerWord
         /\ n > 0 => (Words(n) - 1) * BytesPerWord < n
  BY TransferAssumption DEF Words

-----------------------------------------------------------------------------
(***************************************************************************)
(* Bursts.                                                                 *)
(***************************************************************************)
\* The writer of a burst: a beat that the destination still expects is one
\* that dst_avmm_burstcount counts; the first word's byte enables are kept for
\* the words after it only towards the host, when all of them are whole; and
\* towards the host a partial last word is in no burst with another word.
BeatsInv ==
  /\ beats_left \in Nat
  /\ wr_state # "WRITE" => beats_left = 0
  /\ beats_left # 0 => beats_left = dst_avmm_burstcount /\ dst_write_cntr > 0

FirstInv ==
  Sending =>
    /\ dst_write_cntr = 0 => this_is_first_burst_word
    /\ this_is_first_burst_word /\ dst_write_cntr > 0 =>
         build.to_host /\ ~first_dst_write_is_partial
    /\ beats_left # 0 \/ (this_is_first_burst_word /\ dst_write_cntr > 0) =>
         dst_avmm_burstcount >= 1
    /\ /\ build.to_host /\ last_dst_write_is_partial
       /\ \/ beats_left # 0
          \/ dst_write_cntr > 0 /\ this_is_first_burst_word
          \/ Settled /\ dst_avmm_burstcount >= 2
       => dst_avmm_burstcount < wr_xfer_remaining

BeatInv == BeatsInv /\ FirstInv

LEMMA NextBurstLeaves ==
  ASSUME NEW n \in Nat, n > 0, build.to_host, last_dst_write_is_partial
  PROVE  NextBurst(n) < n
BY TransferAssumption DEF NextBurst

\* The byte enables of a beat, and what its burst count says of it.
LEMMA BeatEnables ==
  ASSUME WriteTypes, WriteInv, Sending, wr_state = "WRITE"
  PROVE  dst_avmm_byteenable(TRUE) =
           IF this_is_first_burst_word THEN FirstByteEnable(cmdq_dout)
           ELSE IF wr_xfer_remaining = 1 THEN LastByteEnable(cmdq_dout) ELSE Bytes
<1>1. successful_dst_int_write(TRUE)
  BY DEF successful_dst_int_write
<1>2. wr_xfer_remaining + dst_write_cntr = WriteWords(cmdq_dout)
  BY DEF WriteInv, CountInv
<1>3. this_is_last_dst_write(TRUE) <=> wr_xfer_remaining = 1
  BY <1>1, <1>2 DEF this_is_last_dst_write, WriteTypes
<1> QED BY <1>3 DEF dst_avmm_byteenable

\* The last beat of a burst is the last one that the destination expects.
LEMMA BurstEnds ==
  ASSUME WriteTypes, WriteInv, BeatInv, wr_state = "WRITE", Settled,
         EndOfBurst(TRUE), beats_left # 0
  PROVE  beats_left = 1
<1>1. Sending
  BY DEF Sending
<1>2. /\ beats_left = dst_avmm_burstcount /\ dst_avmm_burstcount >= 1
      /\ dst_write_cntr > 0
      /\ dst_avmm_burstcount <= wr_xfer_remaining
  BY <1>1 DEF BeatInv, BeatsInv, FirstInv, WriteInv, BurstInv
<1>3. CASE dst_avmm_byteenable(TRUE) = Bytes
  BY <1>2, <1>3 DEF EndOfBurst, burstcount
<1>4. CASE dst_avmm_byteenable(TRUE) # Bytes
  <2>1. wr_xfer_remaining = 1
    <3>1. this_is_first_burst_word => FirstByteEnable(cmdq_dout) = Bytes
      BY <1>1, <1>2 DEF BeatInv, FirstInv, first_dst_write_is_partial
    <3> QED BY <1>1, <1>4, <3>1, BeatEnables
  <2> QED BY <1>2, <2>1 DEF WriteTypes
<1> QED BY <1>3, <1>4

LEMMA BeatInvStep ==
  ASSUME CommandTypes, ReadTypes, PipeTypes, WriteTypes, Phase, LatchRests, WriteInv, BeatInv,
         NEW ready \in BOOLEAN,
         CommandQueue, Buffer(ready), Write(ready),
         wr_state = "WRITE" => databuf # <<>> /\ Len(databuf) > 0 /\ Settled,
         Sending => cmdq_dout' = cmdq_dout, build' = build
  PROVE  BeatInv'
<1>1. /\ latch'[5] = latch_this_cmd /\ latch'[6] = latch[5]
      /\ latch'[7] = latch[6]
  BY LatchStep DEF latch_this_cmd
<1>2. CASE latch_this_cmd
  <2>1. wr_state = "WIDLE" /\ wr_state' = "WAIT_DATA" /\ beats_left = 0
    BY <1>2 DEF LatchRests, Write, wr_state_nxt, BeatInv, BeatsInv
  <2>2. dst_write_cntr' = 0 /\ this_is_first_burst_word' /\ beats_left' = 0
    BY <1>2, <2>1 DEF Write, databuffer_rdack, successful_dst_int_write
  <2>3. ~Settled'
    BY <1>1, <1>2 DEF Settled
  <2> QED BY <2>1, <2>2, <2>3 DEF BeatInv, BeatsInv, FirstInv
<1>3. CASE ~latch_this_cmd /\ ~Sending
  <2>1. ~Sending' /\ beats_left = 0
    BY <1>3 DEF Write, wr_state_nxt, Sending, WriteTypes, BeatInv, BeatsInv
  <2>2. ~databuffer_rdack(ready)
    BY <1>3 DEF databuffer_rdack, successful_dst_int_write, Sending
  <2>3. beats_left' = 0
    BY <2>1, <2>2 DEF Write
  <2> QED BY <2>1, <2>3 DEF BeatInv, BeatsInv, FirstInv, Sending
<1>4. CASE ~latch_this_cmd /\ Sending
  <2>1. cmdq_dout' = cmdq_dout /\ build' = build
    BY <1>4
  <2>2. /\ last_dst_write_is_partial' = last_dst_write_is_partial
        /\ first_dst_write_is_partial' = first_dst_write_is_partial
    BY <2>1 DEF last_dst_write_is_partial, first_dst_write_is_partial,
                LastByteEnable, FirstByteEnable, Off, Bytes
  <2>3. /\ dst_avmm_burstcount' = dst_avmm_burstcount_nxt(ready)
        /\ wr_state' = wr_state_nxt(ready)
        /\ wr_xfer_remaining > 0
    BY <1>4 DEF Write, WriteInv, CountInv
  <2>4. CASE ~(wr_state = "WRITE" /\ ready)
    <3>1. ~successful_dst_int_write(ready) /\ ~databuffer_rdack(ready)
      BY <1>4, <2>4 DEF successful_dst_int_write, databuffer_rdack, Sending
    <3>2. /\ wr_xfer_remaining' = wr_xfer_remaining
          /\ dst_write_cntr' = dst_write_cntr
          /\ this_is_first_burst_word' = this_is_first_burst_word
          /\ beats_left' = beats_left
      <4>1. ~(wr_state = "WRITE" /\ IF build.to_host THEN EndOfBurst(ready)
                                    ELSE successful_dst_int_write(ready))
        BY <3>1 DEF EndOfBurst
      <4>2. this_is_first_burst_word' = this_is_first_burst_word
        BY <1>4, <4>1 DEF Write, WriteTypes
      <4>3. wr_xfer_remaining' = wr_xfer_remaining /\ beats_left' = beats_left
        BY <1>4, <3>1 DEF Write
      <4>4. dst_write_cntr' = dst_write_cntr
        BY <1>4, <3>1 DEF Write, WriteTypes
      <4> QED BY <4>2, <4>3, <4>4
    <3>3. wr_state' # "WRITE" => wr_state # "WRITE"
      BY <1>4, <2>3, <3>1 DEF wr_state_nxt, EndOfBurst, WriteTypes
    <3>4. CASE latch[7]
      <4>1. wr_state = "WAIT_DATA" /\ dst_write_cntr = 0 /\ beats_left = 0
        BY <3>4 DEF WriteInv, SetupInv, Settled, BeatInv, BeatsInv
      <4>2. wr_xfer_remaining = WriteWords(cmdq_dout)
        BY <1>4, <4>1 DEF WriteInv, CountInv, WriteTypes
      <4>3. dst_avmm_burstcount' =
              IF build.to_host /\ first_dst_write_is_partial THEN 1
              ELSE NextBurst(wr_xfer_remaining)
        BY <2>3, <3>4, <4>2 DEF dst_avmm_burstcount_nxt, latch_this_cmd_post2
      <4>4. build.to_host /\ last_dst_write_is_partial /\ dst_avmm_burstcount' >= 2
              => dst_avmm_burstcount' < wr_xfer_remaining
        BY <2>3, <4>3, NextBurstLeaves DEF WriteTypes
      <4> QED BY <1>4, <2>1, <2>2, <3>2, <4>1, <4>4 DEF BeatInv, BeatsInv, FirstInv
    <3>5. CASE ~latch[7]
      <4>1. dst_avmm_burstcount' = dst_avmm_burstcount
        BY <1>4, <2>3, <3>1, <3>5 DEF dst_avmm_burstcount_nxt, latch_this_cmd_post2, Sending
      <4>2. Settled' => Settled
        BY <1>1, <3>5 DEF Settled
      <4> QED BY <1>4, <2>1, <2>2, <3>2, <3>3, <4>1, <4>2 DEF BeatInv, BeatsInv, FirstInv
    <3> QED BY <3>4, <3>5
  <2>5. CASE wr_state = "WRITE" /\ ready
    <3>1. /\ successful_dst_int_write(ready) /\ databuffer_rdack(ready) /\ ready = TRUE
          /\ Settled /\ ~latch_this_cmd_post2
      BY <2>5 DEF successful_dst_int_write, databuffer_rdack, Settled, latch_this_cmd_post2
    <3>2. /\ wr_xfer_remaining' = wr_xfer_remaining - 1
          /\ dst_write_cntr' = dst_write_cntr + 1
          /\ beats_left' = (IF beats_left = 0 THEN burstcount(ready) ELSE beats_left) - 1
          /\ dst_avmm_burstcount' =
               IF dst_avmm_burstcount = 1 THEN NextBurst(wr_xfer_remaining - 1)
               ELSE dst_avmm_burstcount - 1
      BY <1>4, <2>3, <2>5, <3>1 DEF Write, dst_avmm_burstcount_nxt
    <3>3. this_is_first_burst_word' =>
            this_is_first_burst_word /\ build.to_host /\ ~EndOfBurst(ready)
      BY <1>4, <2>5, <3>1 DEF Write
    <3>4. dst_write_cntr' > 0
      BY <3>2 DEF WriteTypes
    <3>5. CASE EndOfBurst(ready)
      <4>1. beats_left' = 0
        <5>1. CASE beats_left = 0
          <6>1. burstcount(ready) = 1
            BY <3>5 DEF EndOfBurst
          <6> QED BY <3>2, <5>1, <6>1
        <5>2. CASE beats_left # 0
          <6>1. beats_left = 1
            BY <2>5, <3>1, <3>5, <5>2, BurstEnds
          <6> QED BY <3>2, <6>1
        <5> QED BY <5>1, <5>2
      <4>2. ASSUME build.to_host, last_dst_write_is_partial, Sending',
                   dst_avmm_burstcount' >= 2
            PROVE  dst_avmm_burstcount' < wr_xfer_remaining'
        <5>1. wr_xfer_remaining > 1
          BY <2>3, <2>5, <3>1, <3>5, <4>2 DEF wr_state_nxt, Sending, WriteTypes
        <5>2. CASE dst_avmm_burstcount = 1
          <6>1. wr_xfer_remaining - 1 \in Nat /\ wr_xfer_remaining - 1 > 0
            BY <5>1 DEF WriteTypes
          <6>2. NextBurst(wr_xfer_remaining - 1) < wr_xfer_remaining - 1
            BY <4>2, <6>1, NextBurstLeaves
          <6> QED BY <3>2, <5>2, <6>2
        <5>3. CASE dst_avmm_burstcount # 1
          <6>1. dst_avmm_burstcount' = dst_avmm_burstcount - 1
            BY <3>2, <5>3
          <6>2. dst_avmm_burstcount >= 2
            BY <4>2, <6>1 DEF WriteTypes
          <6>3. dst_avmm_burstcount < wr_xfer_remaining
            BY <1>4, <3>1, <4>2, <6>2 DEF BeatInv, FirstInv
          <6> QED BY <3>2, <6>1, <6>3 DEF WriteTypes
        <5> QED BY <5>2, <5>3
      <4>3. BeatsInv'
        BY <4>1 DEF BeatsInv
      <4>4. dst_write_cntr' # 0 /\ ~this_is_first_burst_word'
        BY <3>3, <3>4, <3>5
      <4>5. FirstInv'
        BY <2>1, <2>2, <4>1, <4>2, <4>4 DEF FirstInv
      <4> QED BY <4>3, <4>5 DEF BeatInv
    <3>6. CASE ~EndOfBurst(ready)
      <4>1. dst_avmm_burstcount >= 2 /\ wr_xfer_remaining >= 2
        BY <2>5, <3>1, <3>6, BurstGoesOn
      <4>2. dst_avmm_byteenable(ready) = Bytes /\ burstcount(ready) = dst_avmm_burstcount
        BY <3>1, <3>6 DEF EndOfBurst, burstcount
      <4>3. /\ dst_avmm_burstcount' = dst_avmm_burstcount - 1
            /\ dst_avmm_burstcount' >= 1
        BY <3>2, <4>1 DEF WriteTypes
      <4>4. beats_left' = dst_avmm_burstcount' /\ beats_left' \in Nat
        <5>1. beats_left # 0 => beats_left = dst_avmm_burstcount
          BY DEF BeatInv, BeatsInv
        <5>2. beats_left' = dst_avmm_burstcount - 1
          BY <3>2, <4>2, <5>1
        <5> QED BY <4>1, <4>3, <5>2 DEF WriteTypes
      <4>5. this_is_first_burst_word' => build.to_host /\ ~first_dst_write_is_partial
        BY <1>4, <2>5, <3>3, <4>2, BeatEnables DEF first_dst_write_is_partial
      <4>6. build.to_host /\ last_dst_write_is_partial
              => dst_avmm_burstcount' < wr_xfer_remaining'
        <5>1. build.to_host /\ last_dst_write_is_partial
                => dst_avmm_burstcount < wr_xfer_remaining
          BY <1>4, <3>1, <4>1 DEF BeatInv, FirstInv
        <5> QED BY <3>2, <4>3, <5>1 DEF WriteTypes
      <4>7. wr_state' = "WRITE"
        BY <2>3, <2>5, <3>1, <3>6 DEF wr_state_nxt
      <4> QED BY <2>1, <2>2, <3>4, <4>3, <4>4, <4>5, <4>6, <4>7 DEF BeatInv, BeatsInv, FirstInv
    <3> QED BY <3>5, <3>6
  <2> QED BY <2>4, <2>5
<1> QED BY <1>2, <1>3, <1>4

\* A beat that the destination takes.
LEMMA BeatFacts ==
  ASSUME WriteTypes, WriteInv, BeatInv, wr_state = "WRITE", Settled
  PROVE  /\ burstcount(TRUE) \in 1 .. DST_WR_BURSTCOUNT_MAX
         /\ build.to_host /\ dst_avmm_byteenable(TRUE) # Bytes
              => beats_left = 0 /\ burstcount(TRUE) = 1
<1>1. Sending
  BY DEF Sending
<1> DEFINE enable == IF this_is_first_burst_word THEN FirstByteEnable(cmdq_dout)
                     ELSE IF wr_xfer_remaining = 1 THEN LastByteEnable(cmdq_dout) ELSE Bytes
<1>2. dst_avmm_byteenable(TRUE) = enable
  BY <1>1, BeatEnables
<1>3. burstcount(TRUE) = IF enable # Bytes THEN 1 ELSE dst_avmm_burstcount
  BY <1>2 DEF burstcount
<1>4. (IF enable # Bytes THEN 1 ELSE dst_avmm_burstcount) \in 1 .. DST_WR_BURSTCOUNT_MAX
  <2>1. CASE dst_avmm_burstcount >= 1
    BY <1>1, <2>1, TransferAssumption DEF WriteInv, BurstInv, WriteTypes
  <2>2. CASE ~(dst_avmm_burstcount >= 1)
    <3>1. wr_xfer_remaining = 1 /\ ~this_is_first_burst_word /\ last_dst_write_is_partial
      BY <1>1, <2>2 DEF WriteInv, BurstInv
    <3> QED BY <3>1, TransferAssumption DEF last_dst_write_is_partial
  <2> QED BY <2>1, <2>2
<1>5. build.to_host /\ enable # Bytes => beats_left = 0
  <2>1. SUFFICES ASSUME build.to_host, enable # Bytes, beats_left # 0 PROVE FALSE
    OBVIOUS
  <2>2. dst_write_cntr > 0 /\ dst_avmm_burstcount >= 1
    BY <1>1, <2>1 DEF BeatInv, BeatsInv, FirstInv
  <2>3. CASE this_is_first_burst_word
    BY <1>1, <2>1, <2>2, <2>3 DEF BeatInv, FirstInv, first_dst_write_is_partial
  <2>4. CASE ~this_is_first_burst_word
    <3>1. wr_xfer_remaining = 1 /\ last_dst_write_is_partial
      BY <2>1, <2>4 DEF last_dst_write_is_partial
    <3>2. dst_avmm_burstcount < wr_xfer_remaining
      BY <1>1, <2>1, <3>1 DEF BeatInv, FirstInv
    <3> QED BY <2>2, <3>1, <3>2 DEF WriteTypes
  <2> QED BY <2>3, <2>4
<1>6. burstcount(TRUE) \in 1 .. DST_WR_BURSTCOUNT_MAX
  BY <1>3, <1>4, Zenon
<1>7. enable # Bytes => burstcount(TRUE) = 1
  BY <1>3, Zenon
<1> HIDE DEF enable
<1> QED BY <1>2, <1>5, <1>6, <1>7, Zenon

\* IInv and BeatInv together.
LEMMA BeatInvHolds == Spec => []BeatInv
<1>1. Init => BeatInv
  BY DEF Init, BeatInv, BeatsInv, FirstInv, Sending
<1>2. IInv /\ BeatInv /\ [Next]_vars => BeatInv'
  <2> SUFFICES ASSUME IInv, BeatInv, [Next]_vars PROVE BeatInv'
    OBVIOUS
  <2>1. ASSUME NEW accepts \in BOOLEAN, NEW answers \in BOOLEAN,
               NEW ready \in BOOLEAN, NEW complete \in BOOLEAN,
               Clock(accepts, answers, ready, complete)
        PROVE  BeatInv'
    <3>1. LatchRests /\ (wr_state = "WRITE" => databuf # <<>> /\ Len(databuf) > 0 /\ Settled)
      BY PhaseLatch, WriteHasData DEF IInv, Types
    <3>2. /\ CommandQueue /\ Buffer(ready) /\ Write(ready) /\ build' = build
          /\ Sending => cmdq_dout' = cmdq_dout
      BY <2>1 DEF Clock, hostVars, Sending, CommandQueue, Pop, controller_busy
    <3> QED BY <3>1, <3>2, BeatInvStep DEF IInv, Types
  <2>2. ASSUME UNCHANGED <<build, cmdq_dout, latch, wrVars>>
        PROVE  BeatInv'
    <3>1. Sending' = Sending /\ Settled' = Settled
      BY <2>2 DEF Sending, Settled, wrVars
    <3>2. /\ last_dst_write_is_partial' = last_dst_write_is_partial
          /\ first_dst_write_is_partial' = first_dst_write_is_partial
      BY <2>2 DEF last_dst_write_is_partial, first_dst_write_is_partial,
                  LastByteEnable, FirstByteEnable, Off, Bytes
    <3> QED BY <2>2, <3>1, <3>2 DEF BeatInv, BeatsInv, FirstInv, wrVars
  <2>3. ASSUME NEW c \in Commands, Offer(c) PROVE BeatInv'
    BY <2>2, <2>3 DEF Offer
  <2>4. CASE Answer
    BY <2>2, <2>4 DEF Answer, cmdVars
  <2>5. CASE UNCHANGED vars
    BY <2>2, <2>5 DEF vars, hostVars, cmdVars
  <2> QED BY <2>1, <2>3, <2>4, <2>5 DEF Next, Clocks
<1> QED BY <1>1, <1>2, TransferInvariance, PTL DEF Spec

\* dma_data_transfer.sv:844, 895-899: for every size of words and bursts and
\* every command, the destination gets whole bursts within the bound, and
\* towards the host a partial word is a burst of its own.
THEOREM BurstsAlwaysWellFormed == Spec => BurstsWellFormed
<1> DEFINE A == wr_state = "WRITE" =>
                  /\ dst_write_cntr' > dst_write_cntr =>
                       /\ beats_left = 0 => burstcount(TRUE) \in 1 .. DST_WR_BURSTCOUNT_MAX
                       /\ (build.to_host /\ dst_avmm_byteenable(TRUE) # Bytes) =>
                            beats_left = 0 /\ beats_left' = 0
                  /\ wr_state' # "WRITE" => beats_left' = 0
<1>1. IInv /\ BeatInv /\ BeatInv' /\ [Next]_vars => [A]_vars
  <2> SUFFICES ASSUME IInv, BeatInv, BeatInv', [Next]_vars, wr_state = "WRITE",
                      ~UNCHANGED vars
               PROVE  A
    OBVIOUS
  <2>1. wr_state' # "WRITE" => beats_left' = 0
    BY DEF BeatInv, BeatsInv
  <2>2. Settled
    BY WriteHasData DEF IInv, Types
  <2>3. burstcount(TRUE) \in 1 .. DST_WR_BURSTCOUNT_MAX
    BY <2>2, BeatFacts DEF IInv, Types
  <2>4. ASSUME dst_write_cntr' > dst_write_cntr,
               build.to_host, dst_avmm_byteenable(TRUE) # Bytes
        PROVE  beats_left = 0 /\ beats_left' = 0
    <3>1. beats_left = 0 /\ burstcount(TRUE) = 1
      BY <2>2, <2>4, BeatFacts DEF IInv, Types
    <3>2. dst_write_cntr \in Nat
      BY DEF IInv, Types, WriteTypes
    <3>3. PICK ready \in BOOLEAN : Write(ready)
      <4>1. dst_write_cntr' # dst_write_cntr
        BY <2>4, <3>2
      <4>2. ~Answer /\ \A c \in Commands : ~Offer(c)
        BY <4>1 DEF Answer, Offer, wrVars
      <4> QED BY <4>2 DEF Next, Clocks, Clock
    <3>4. ready = TRUE
      <4>1. ~ready => dst_write_cntr' \in {0, dst_write_cntr}
        BY <3>2, <3>3 DEF Write, successful_dst_int_write
      <4> QED BY <2>4, <3>2, <4>1
    <3>5. databuffer_rdack(ready) /\ burstcount(ready) = 1
      BY <3>1, <3>4 DEF databuffer_rdack, successful_dst_int_write
    <3>6. beats_left' = burstcount(ready) - 1
      BY <3>1, <3>3, <3>5 DEF Write
    <3> QED BY <3>1, <3>5, <3>6
  <2> QED BY <2>1, <2>3, <2>4
<1> QED BY <1>1, TransferInvariance, BeatInvHolds, PTL DEF BurstsWellFormed, Spec

-----------------------------------------------------------------------------
(***************************************************************************)
(* The bytes of the command, wherever they are on their way.  Byte number  *)
(* k of command c is read at c.src + k; a word that is p bytes into the    *)
(* command has at i its byte p + i, and what it has before the first byte  *)
(* and after the last does not matter.                                     *)
(***************************************************************************)
Carries(c, x, p) ==
  \A i \in Bytes : p + i \in 0 .. c.len - 1 => x[i] = c.src + p + i

\* Words of the source asked for, and clocks in which the pipeline has moved;
\* the position of what entered the pipeline some of them ago.
Asked == ReadWords(cmdq_dout) - rd_xfer_remaining - src_burst_cnt
Steps == ReadWords(cmdq_dout) - readdatavalid_cntr + pipeline_flush_count
At(back) == (Steps - back) * BytesPerWord

\* The source owes the words that follow those it has returned.
AskInv ==
  rd_state \notin {"IDLE", "FLUSH"} =>
    /\ src_addr_cntr = cmdq_dout.src + Asked * BytesPerWord
    /\ \A k \in 1 .. Len(pending) :
         pending[k] = cmdq_dout.src + (Asked - Len(pending) + k - 1) * BytesPerWord

\* Every stage of the pipeline has the bytes it should: aligned to the source
\* up to double_width_readdata, to the command from zero_aligned to
\* dbl_writedata, and then to the destination.
PipeInv ==
  rd_state # "IDLE" =>
    /\ pipeline_shifter = AtMost(Steps, 6)
    /\ readdatavalid => Carries(cmdq_dout, readdata, At(0) - Off(cmdq_dout.src))
    /\ Carries(cmdq_dout, stage0, At(1) - Off(cmdq_dout.src))
    /\ Carries(cmdq_dout, double_width_readdata[2], At(2) - Off(cmdq_dout.src))
    /\ Carries(cmdq_dout, double_width_readdata[1], At(3) - Off(cmdq_dout.src))
    /\ Carries(cmdq_dout, zero_aligned, At(4))
    /\ Carries(cmdq_dout, dbl_writedata[2], At(5))
    /\ Carries(cmdq_dout, dbl_writedata[1], At(6))
    /\ Carries(cmdq_dout, shifted, At(6) - Off(cmdq_dout.dst))

\* The words pushed are those that have come through.
PushInv ==
  rd_state # "IDLE" /\ databuf_writes_cntr > 0 =>
    WriteWords(cmdq_dout) - databuf_writes_cntr = IF Steps >= 6 THEN Steps - 6 ELSE 0

\* What has been moved when the words before offset n of the destination are
\* written.
Prefix(c, n) ==
  {<<c.src + k, c.dst + k>> : k \in {j \in 0 .. c.len - 1 : Off(c.dst) + j < n}}

\* The buffer has the words to be written next, and the words before them are
\* in their place.
BufInv ==
  Sending =>
    /\ dst_avmm_address = cmdq_dout.dst + dst_write_cntr * BytesPerWord
    /\ \A j \in 1 .. Len(databuf) :
         Carries(cmdq_dout, databuf[j],
                 (dst_write_cntr + j - 1) * BytesPerWord - Off(cmdq_dout.dst))
    /\ moved = Prefix(cmdq_dout, dst_write_cntr * BytesPerWord)

\* The command in use is the descriptor; nothing of it is moved before it is
\* latched, and all of it when nothing is left to send.
CurrentInv ==
  /\ cmdq # <<>> => cmdq[1] = descriptor /\ moved = {}
  /\ (\E i \in 1 .. 4 : latch[i]) => cmdq_dout = descriptor /\ moved = {}
  /\ controller_busy \/ controller_busy_d \/ irq =>
       /\ cmdq_dout = descriptor
       /\ ~Sending => moved = D!Bytes(descriptor)

DataInv == AskInv /\ PipeInv /\ PushInv /\ BufInv /\ CurrentInv

-----------------------------------------------------------------------------
(***************************************************************************)
(* Words on their way.                                                     *)
(***************************************************************************)
LEMMA OffsetBounds ==
  ASSUME NEW c \in Command
  PROVE  /\ Off(c.src) \in 0 .. BytesPerWord - 1
         /\ Off(c.dst) \in 0 .. BytesPerWord - 1
         /\ c.src \in Nat /\ c.dst \in Nat /\ c.len \in Nat
<1>1. c.src \in Nat /\ c.dst \in Nat /\ c.len \in Nat
  BY DEF Command
<1> QED BY <1>1, OffType DEF Bytes

\* A word before the command or after it carries nothing.
LEMMA Outside ==
  ASSUME NEW c \in Command, NEW x, NEW p \in Int,
         p + BytesPerWord <= 0 \/ p >= c.len
  PROVE  Carries(c, x, p)
<1>1. SUFFICES ASSUME NEW i \in Bytes PROVE ~(p + i \in 0 .. c.len - 1)
  BY DEF Carries
<1> QED BY <1>1, OffsetBounds, TransferAssumption DEF Bytes

LEMMA Early ==
  ASSUME NEW c \in Command, NEW x, NEW k \in Int, k <= 0 - 1, NEW o \in Nat
  PROVE  Carries(c, x, k * BytesPerWord - o)
<1>1. k * BytesPerWord \in Int /\ k * BytesPerWord <= (0 - 1) * BytesPerWord
  BY Times
<1>2. (0 - 1) * BytesPerWord = 0 - BytesPerWord
  BY TransferAssumption
<1> DEFINE p == k * BytesPerWord - o
<1>3. p \in Int /\ p + BytesPerWord <= 0
  BY <1>1, <1>2, TransferAssumption
<1> HIDE DEF p
<1>4. Carries(c, x, p)
  BY <1>3, Outside
<1> QED BY <1>4 DEF p

\* A word of the source.
LEMMA WordCarries ==
  ASSUME NEW c \in Command, NEW m \in Nat
  PROVE  Carries(c, WordAt(c.src + m * BytesPerWord),
                 m * BytesPerWord - Off(c.src))
<1>1. Off(c.src + m * BytesPerWord) = Off(c.src)
  BY OffsetBounds, OffShift
<1>2. m * BytesPerWord \in Int
  BY Times
<1> QED BY <1>1, <1>2, OffsetBounds, TransferAssumption DEF Carries, WordAt, Bytes

\* Shifting keeps the bytes in their order.
LEMMA SliceCarries ==
  ASSUME NEW c \in Command, NEW dbl \in Word \X Word, NEW p \in Int,
         NEW n \in 0 .. BytesPerWord,
         Carries(c, dbl[1], p), Carries(c, dbl[2], p + BytesPerWord)
  PROVE  Carries(c, Slice(dbl, n), p + n)
<1> SUFFICES ASSUME NEW i \in Bytes, p + n + i \in 0 .. c.len - 1
             PROVE  Slice(dbl, n)[i] = c.src + (p + n) + i
  BY DEF Carries
<1>1. c.src \in Nat
  BY OffsetBounds
<1>2. CASE n + i < BytesPerWord
  <2>1. n + i \in Bytes /\ p + (n + i) \in 0 .. c.len - 1
    BY <1>2, TransferAssumption DEF Bytes
  <2>2. dbl[1][n + i] = c.src + p + (n + i)
    BY <2>1 DEF Carries
  <2>3. Slice(dbl, n)[i] = dbl[1][n + i]
    BY <1>2 DEF Slice
  <2> QED BY <1>1, <2>2, <2>3, TransferAssumption DEF Bytes
<1>3. CASE ~(n + i < BytesPerWord)
  <2> DEFINE k == n + i - BytesPerWord
  <2>1. k \in Bytes /\ (p + BytesPerWord) + k \in 0 .. c.len - 1
    BY <1>3, TransferAssumption DEF Bytes
  <2>2. dbl[2][k] = c.src + (p + BytesPerWord) + k
    BY <2>1 DEF Carries
  <2>3. Slice(dbl, n)[i] = dbl[2][k]
    BY <1>3 DEF Slice
  <2> QED BY <1>1, <2>2, <2>3, TransferAssumption DEF Bytes
<1> QED BY <1>2, <1>3

\* The command in use does not change under the reader.
LEMMA SameCommand ==
  ASSUME Phase, CommandQueue,
         controller_busy \/ latch_this_cmd
  PROVE  cmdq_dout' = cmdq_dout
<1>1. ~Pop
  BY DEF Phase, Pop, latch_this_cmd
<1> QED BY <1>1 DEF CommandQueue

\* What a clock does to the words owed, one by one.
LEMMA PendingWords ==
  ASSUME ReadTypes, NEW accepts \in BOOLEAN, NEW answers \in BOOLEAN,
         answers => pending # <<>>, ReadAnswers(accepts, answers),
         NEW k \in 1 .. Len(pending')
  PROVE  LET gone == IF answers THEN 1 ELSE 0
             left == Len(pending) - gone
         IN  /\ k <= left => k + gone \in 1 .. Len(pending) /\ pending'[k] = pending[k + gone]
             /\ k > left => /\ Requests(accepts)
                            /\ pending'[k] = src_addr_cntr + (k - left - 1) * BytesPerWord
<1> DEFINE r == [j \in 1 .. src_burst_cnt |->
                   src_addr_cntr + (j - 1) * BytesPerWord]
           rest == IF answers THEN Tail(pending) ELSE pending
           more == IF Requests(accepts) THEN r ELSE <<>>
           gone == IF answers THEN 1 ELSE 0
           left == Len(pending) - gone
<1>1. r \in Seq(Nat) /\ Len(r) = src_burst_cnt
  BY RequestWords
<1>2. pending \in Seq(Nat) /\ Len(pending) \in Nat /\ src_burst_cnt \in Nat
  BY LenProperties, TransferAssumption DEF ReadTypes
<1>3. /\ rest \in Seq(Nat) /\ Len(rest) = left
      /\ \A j \in 1 .. left : j + gone \in 1 .. Len(pending) /\ rest[j] = pending[j + gone]
  BY <1>2, HeadTailProperties
<1>4. /\ more \in Seq(Nat)
      /\ Len(more) = IF Requests(accepts) THEN src_burst_cnt ELSE 0
  BY <1>1, EmptySeq
<1>5. pending' = rest \o more
  BY DEF ReadAnswers
<1>6. left \in Nat
  BY <1>2, EmptySeq DEF ReadTypes
<1> HIDE DEF rest, more, left
<1>7. /\ Len(pending') = left + Len(more)
      /\ pending'[k] = IF k <= left THEN rest[k] ELSE more[k - left]
  <2>1. rest \in Seq(Nat) /\ more \in Seq(Nat) /\ Len(rest) = left
    BY <1>3, <1>4
  <2>2. /\ Len(rest \o more) = left + Len(more)
        /\ \A j \in 1 .. left + Len(more) :
             (rest \o more)[j] = IF j <= left THEN rest[j] ELSE more[j - left]
    BY <2>1, ConcatProperties
  <2> QED BY <1>5, <2>2
<1>8. k \in Nat /\ k >= 1
  OBVIOUS
<1>9. ASSUME k <= left
      PROVE  k + gone \in 1 .. Len(pending) /\ pending'[k] = pending[k + gone]
  BY <1>3, <1>6, <1>7, <1>8, <1>9
<1>10. ASSUME k > left
       PROVE  /\ Requests(accepts)
              /\ pending'[k] = src_addr_cntr + (k - left - 1) * BytesPerWord
  <2>1. Requests(accepts) /\ k - left \in 1 .. src_burst_cnt
    <3>1. k \in Nat /\ k <= left + Len(more) /\ Len(more) \in Nat
      BY <1>4, <1>7, <1>8, LenProperties
    <3>2. Len(more) > 0
      BY <1>6, <1>10, <3>1
    <3>3. Requests(accepts) /\ Len(more) = src_burst_cnt
      BY <1>4, <3>2
    <3> QED BY <1>2, <1>6, <1>10, <3>1, <3>3
  <2>2. pending'[k] = r[k - left]
    BY <1>6, <1>7, <1>8, <1>10, <2>1 DEF more
  <2> QED BY <2>1, <2>2
<1> QED BY <1>9, <1>10 DEF left

LEMMA AskInvStep ==
  ASSUME CommandTypes, ReadTypes, Phase, LatchRests, ReadInv, AskInv,
         NEW accepts \in BOOLEAN, NEW answers \in BOOLEAN,
         answers => pending # <<>>,
         CommandQueue, ReadRequests(accepts), ReadAnswers(accepts, answers)
  PROVE  AskInv'
<1> SUFFICES ASSUME rd_state' \notin {"IDLE", "FLUSH"} PROVE AskInv'
  BY DEF AskInv
<1> DEFINE c == cmdq_dout
<1>1. c \in Command /\ ReadWords(c) \in Nat /\ c.src \in Nat
  BY CommandWords, OffsetBounds DEF CommandTypes
<1>2. /\ Len(pending) \in Nat
      /\ Len(pending') = Len(pending) - (IF answers THEN 1 ELSE 0)
                         + (IF Requests(accepts) THEN src_burst_cnt ELSE 0)
  BY PendingType, LenProperties DEF ReadTypes
<1>3. /\ BurstOf(ReadWords(c)) \in Nat
      /\ BurstOf(rd_xfer_remaining) \in Nat
      /\ src_burst_cnt \in Nat /\ rd_xfer_remaining \in Nat
  <2>1. rd_xfer_remaining \in Nat /\ src_burst_cnt \in Nat
    BY TransferAssumption DEF ReadTypes
  <2> HIDE DEF c
  <2> QED BY <1>1, <2>1, BurstOfType
<1>4. CASE latch_this_cmd
  <2>1. rd_state = "IDLE" /\ pending = <<>> /\ ~answers /\ ~Requests(accepts)
    BY <1>4 DEF LatchRests, ReadInv, Requests
  <2>2. c' = c
    BY <1>4, SameCommand
  <2>3. Asked' = 0
    BY <1>1, <1>3, <1>4, <2>2 DEF Asked, ReadRequests
  <2>4. src_addr_cntr' = c'.src
    BY <1>4, <2>2 DEF ReadRequests
  <2>5. Len(pending') = 0
    BY <1>2, <2>1, EmptySeq
  <2>6. 0 * BytesPerWord = 0
    BY TransferAssumption
  <2> QED BY <1>1, <2>2, <2>3, <2>4, <2>5, <2>6 DEF AskInv
<1>5. CASE ~latch_this_cmd
  <2>1. rd_state \notin {"IDLE", "FLUSH"}
    BY <1>5 DEF ReadRequests, rd_state_nxt, ReadTypes
  <2>2. c' = c
    BY <2>1, SameCommand DEF controller_busy
  <2> DEFINE asks == IF Requests(accepts) THEN src_burst_cnt ELSE 0
             gone == IF answers THEN 1 ELSE 0
             left == Len(pending) - gone
  <2>3. Asked' = Asked + asks
    BY <1>1, <1>3, <1>5, <2>2 DEF Asked, ReadRequests
  <2>4. Asked \in Int /\ asks \in Nat /\ gone \in {0, 1}
    BY <1>1, <1>3 DEF Asked
  <2>5. /\ src_addr_cntr = c.src + Asked * BytesPerWord
        /\ \A k \in 1 .. Len(pending) :
             pending[k] = c.src + (Asked - Len(pending) + k - 1) * BytesPerWord
    BY <2>1 DEF AskInv
  <2>6. src_addr_cntr' = c.src + Asked' * BytesPerWord
    <3>1. CASE Requests(accepts)
      <4>1. src_addr_cntr' = src_addr_cntr + src_burst_cnt * BytesPerWord
        BY <1>5, <3>1 DEF ReadRequests
      <4>2. /\ (Asked + src_burst_cnt) * BytesPerWord
                 = Asked * BytesPerWord + src_burst_cnt * BytesPerWord
            /\ Asked * BytesPerWord \in Int /\ src_burst_cnt * BytesPerWord \in Int
        <5>1. Asked \in Int /\ src_burst_cnt \in Int
          BY <1>3, <2>4
        <5> QED BY <5>1, Times
      <4>3. Asked' = Asked + src_burst_cnt
        BY <2>3, <3>1
      <4> QED BY <1>1, <2>5, <4>1, <4>2, <4>3
    <3>2. CASE ~Requests(accepts)
      BY <1>5, <2>3, <2>4, <2>5, <3>2 DEF ReadRequests
    <3> QED BY <3>1, <3>2
  <2>7. ASSUME NEW k \in 1 .. Len(pending')
        PROVE  pending'[k] = c.src + (Asked' - Len(pending') + k - 1) * BytesPerWord
    <3>1. /\ k <= left => k + gone \in 1 .. Len(pending) /\ pending'[k] = pending[k + gone]
          /\ k > left => /\ Requests(accepts)
                         /\ pending'[k] = src_addr_cntr + (k - left - 1) * BytesPerWord
      BY PendingWords
    <3>2. Len(pending') = left + asks /\ left \in Int /\ k \in Nat
      BY <1>2
    <3>3. Asked' - Len(pending') + k - 1 = Asked - left + k - 1
      <4> HIDE DEF asks, left
      <4> QED BY <2>3, <2>4, <3>2
    <3>4. CASE k <= left
      <4>1. Asked - Len(pending) + (k + gone) - 1 = Asked - left + k - 1
        BY <1>2, <2>4
      <4> HIDE DEF gone, left
      <4> QED BY <2>5, <3>1, <3>3, <3>4, <4>1
    <3>5. CASE k > left
      <4> HIDE DEF left
      <4>1. Asked + (k - left - 1) = Asked - left + k - 1 /\ k - left - 1 \in Int
        BY <2>4, <3>2
      <4>2. /\ (Asked + (k - left - 1)) * BytesPerWord
                 = Asked * BytesPerWord + (k - left - 1) * BytesPerWord
            /\ Asked * BytesPerWord \in Int /\ (k - left - 1) * BytesPerWord \in Int
        BY <2>4, <4>1, Times
      <4> QED BY <1>1, <2>5, <3>1, <3>3, <3>5, <4>1, <4>2
    <3> QED BY <1>2, <2>4, <3>4, <3>5, <3>2
  <2> QED BY <2>2, <2>6, <2>7 DEF AskInv
<1> QED BY <1>4, <1>5

-----------------------------------------------------------------------------
(***************************************************************************)
(* The pipeline.                                                           *)
(***************************************************************************)
\* The pipeline moves when a word arrives and while it is flushed; then every
\* word in it is one step older.
LEMMA StepsStep ==
  ASSUME CommandTypes, ReadTypes, ReadInv, PipeTypes, PipeInv,
         NEW accepts \in BOOLEAN, NEW answers \in BOOLEAN,
         ReadAnswers(accepts, answers),
         ~latch_this_cmd, rd_state # "IDLE", cmdq_dout' = cmdq_dout
  PROVE  /\ Steps \in Nat
         /\ Steps' = Steps + IF do_pipe_step THEN 1 ELSE 0
         /\ rd_state = "FLUSH" => Steps >= ReadWords(cmdq_dout)
<1>1. ReadWords(cmdq_dout) \in Nat
  BY CommandWords DEF CommandTypes
<1>2. Steps \in Int
  BY <1>1 DEF Steps, ReadTypes
<1>3. Steps \in Nat
  BY <1>2 DEF PipeInv, PipeTypes, AtMost
<1>4. rd_state = "FLUSH" => readdatavalid_cntr = 0 /\ ~readdatavalid
  BY EmptySeq DEF ReadInv, Received
<1>5. Steps' = Steps + IF do_pipe_step THEN 1 ELSE 0
  <2>1. /\ readdatavalid_cntr' = readdatavalid_cntr - IF readdatavalid THEN 1 ELSE 0
        /\ pipeline_flush_count' = pipeline_flush_count + IF rd_state = "FLUSH" THEN 1 ELSE 0
    BY DEF ReadAnswers
  <2>2. ReadWords(cmdq_dout)' = ReadWords(cmdq_dout)
    BY DEF ReadWords, Words, Off
  <2> QED BY <1>1, <1>4, <2>1, <2>2 DEF Steps, do_pipe_step, ReadTypes
<1>6. rd_state = "FLUSH" => Steps >= ReadWords(cmdq_dout)
  BY <1>1, <1>4 DEF Steps, ReadTypes
<1> QED BY <1>3, <1>5, <1>6

\* The source words hold the command.
LEMMA AllRead ==
  ASSUME NEW c \in Command, NEW t \in Int, t >= ReadWords(c)
  PROVE  t * BytesPerWord - Off(c.src) >= c.len
<1>1. /\ Off(c.src) \in Nat /\ c.len \in Nat /\ c.len + Off(c.src) \in Nat
      /\ ReadWords(c) \in Nat
  BY OffsetBounds, CommandWords
<1>2. c.len + Off(c.src) <= ReadWords(c) * BytesPerWord
  BY <1>1, WordsCover DEF ReadWords
<1>3. /\ ReadWords(c) * BytesPerWord <= t * BytesPerWord
      /\ t * BytesPerWord \in Int /\ ReadWords(c) * BytesPerWord \in Int
  BY <1>1, Times
<1> QED BY <1>1, <1>2, <1>3

\* What the memory returns is the next word.
LEMMA NextWord ==
  ASSUME CommandTypes, ReadTypes, ReadInv, PipeTypes, PipeInv, AskInv,
         NEW accepts \in BOOLEAN, NEW answers \in BOOLEAN,
         answers => pending # <<>>, ReadAnswers(accepts, answers),
         ~latch_this_cmd, rd_state # "IDLE", cmdq_dout' = cmdq_dout
  PROVE  readdatavalid' => Carries(cmdq_dout', readdata', At(0)' - Off(cmdq_dout'.src))
<1> DEFINE c == cmdq_dout
<1> SUFFICES ASSUME readdatavalid'
             PROVE  Carries(c', readdata', At(0)' - Off(c'.src))
  OBVIOUS
<1>1. c' = c /\ c \in Command /\ ReadWords(c) \in Nat
  BY CommandWords DEF CommandTypes
<1>2. answers /\ pending # <<>> /\ readdata' = WordAt(Head(pending))
  BY DEF ReadAnswers
<1>3. rd_state \notin {"IDLE", "FLUSH"} /\ Len(pending) \in Nat /\ Len(pending) >= 1
  BY <1>2, EmptySeq, LenProperties DEF ReadInv, ReadTypes
<1>4. Steps' \in Nat /\ Steps' = Asked - Len(pending)
  <2>1. /\ Steps \in Nat
        /\ Steps' = Steps + IF do_pipe_step THEN 1 ELSE 0
    BY StepsStep
  <2>2. do_pipe_step <=> readdatavalid
    BY <1>3 DEF do_pipe_step
  <2>3. /\ pipeline_flush_count = 0
        /\ readdatavalid_cntr = Len(pending) + Received + rd_xfer_remaining + src_burst_cnt
    BY <1>3 DEF ReadInv
  <2>4. src_burst_cnt \in Nat /\ rd_xfer_remaining \in Nat
    BY TransferAssumption DEF ReadTypes
  <2> QED BY <1>1, <1>3, <2>1, <2>2, <2>3, <2>4 DEF Steps, Asked, Received
<1>5. Head(pending) = c.src + Steps' * BytesPerWord
  <2>1. Head(pending) = pending[1]
    BY <1>2 DEF ReadTypes
  <2>2. pending[1] = c.src + (Asked - Len(pending) + 1 - 1) * BytesPerWord
    BY <1>3 DEF AskInv
  <2>3. Asked - Len(pending) + 1 - 1 = Steps'
    BY <1>1, <1>3, <1>4
  <2> QED BY <2>1, <2>2, <2>3
<1>6. At(0)' = Steps' * BytesPerWord
  BY <1>4 DEF At
<1> HIDE DEF c
<1>7. Carries(c, WordAt(c.src + Steps' * BytesPerWord), Steps' * BytesPerWord - Off(c.src))
  BY <1>1, <1>4, WordCarries
<1> QED BY <1>1, <1>2, <1>5, <1>6, <1>7

\* The positions of the stages, a word apart, and those not yet reached.
LEMMA Positions ==
  ASSUME Steps \in Int, NEW k \in Int
  PROVE  /\ At(k) \in Int
         /\ At(k) = At(k + 1) + BytesPerWord
<1>1. Steps - k \in Int /\ Steps - (k + 1) = Steps - k - 1
  OBVIOUS
<1>2. At(k) \in Int
  BY <1>1, Times DEF At
<1>3. At(k) = At(k + 1) + BytesPerWord
  <2>1. (Steps - k - 1) * BytesPerWord = (Steps - k) * BytesPerWord - 1 * BytesPerWord
    BY <1>1, Times
  <2>2. 1 * BytesPerWord = BytesPerWord
    BY TransferAssumption
  <2> QED BY <1>1, <1>2, <2>1, <2>2, TransferAssumption DEF At
<1> QED BY <1>2, <1>3

LEMMA NotReached ==
  ASSUME Steps \in Int, NEW k \in Int, Steps < k,
         NEW c \in Command, NEW x, NEW o \in Nat
  PROVE  Carries(c, x, At(k)) /\ Carries(c, x, At(k) - o)
<1>1. Steps - k \in Int /\ Steps - k <= 0 - 1
  OBVIOUS
<1>2. /\ Carries(c, x, (Steps - k) * BytesPerWord - o)
      /\ Carries(c, x, (Steps - k) * BytesPerWord - 0)
  BY <1>1, Early
<1>3. At(k) - 0 = At(k)
  BY Positions
<1> QED BY <1>2, <1>3 DEF At

\* When the pipeline moves, each stage takes what the one before it had.
LEMMA PipeMoves ==
  ASSUME CommandTypes, PipeTypes, PipeInv, Steps \in Nat,
         Shift, do_pipe_step, ~latch_this_cmd, ~flush_done, rd_state # "IDLE",
         Carries(cmdq_dout, readdata, At(0) - Off(cmdq_dout.src))
  PROVE  /\ pipeline_shifter' = AtMost(Steps + 1, 6)
         /\ Carries(cmdq_dout, stage0', At(0) - Off(cmdq_dout.src))
         /\ Carries(cmdq_dout, double_width_readdata'[2], At(1) - Off(cmdq_dout.src))
         /\ Carries(cmdq_dout, double_width_readdata'[1], At(2) - Off(cmdq_dout.src))
         /\ Carries(cmdq_dout, zero_aligned', At(3))
         /\ Carries(cmdq_dout, dbl_writedata'[2], At(4))
         /\ Carries(cmdq_dout, dbl_writedata'[1], At(5))
         /\ Carries(cmdq_dout, shifted', At(5) - Off(cmdq_dout.dst))
<1> DEFINE c == cmdq_dout
           os == Off(cmdq_dout.src)
           od == Off(cmdq_dout.dst)
<1>1. /\ c \in Command /\ os \in Nat /\ od \in Nat
      /\ os \in 0 .. BytesPerWord /\ BytesPerWord - od \in 0 .. BytesPerWord
  BY OffsetBounds, CommandOffsets, TransferAssumption DEF CommandTypes
<1>2. /\ pipeline_shifter = AtMost(Steps, 6)
      /\ Carries(c, stage0, At(1) - os)
      /\ Carries(c, double_width_readdata[2], At(2) - os)
      /\ Carries(c, double_width_readdata[1], At(3) - os)
      /\ Carries(c, zero_aligned, At(4))
      /\ Carries(c, dbl_writedata[2], At(5))
      /\ Carries(c, dbl_writedata[1], At(6))
  BY DEF PipeInv
<1>3. \A bit \in 0 .. 5 : StepAt(bit) <=> Steps > bit
  BY <1>2 DEF StepAt, AtMost
<1>4. pipeline_shifter' = AtMost(Steps + 1, 6)
  BY <1>2 DEF Shift, AtMost
<1>5. stage0' = readdata
  BY DEF Shift
<1>6. /\ Carries(c, double_width_readdata'[2], At(1) - os)
      /\ Carries(c, double_width_readdata'[1], At(2) - os)
  <2>1. CASE Steps > 0
    <3>1. double_width_readdata' = <<double_width_readdata[2], stage0>>
      BY <1>3, <2>1 DEF Shift
    <3> QED BY <1>2, <3>1
  <2>2. CASE ~(Steps > 0)
    <3>1. Steps \in Int /\ Steps < 1 /\ Steps < 2
      BY <2>2
    <3> HIDE DEF c, os, od
    <3> QED BY <1>1, <3>1, NotReached
  <2> QED BY <2>1, <2>2
<1>7. Carries(c, zero_aligned', At(3))
  <2>1. CASE Steps > 2
    <3>1. zero_aligned' = Slice(double_width_readdata, os)
      BY <1>3, <2>1 DEF Shift
    <3>2. /\ At(3) \in Int /\ At(2) = At(3) + BytesPerWord
          /\ At(3) - os \in Int
          /\ At(2) - os = (At(3) - os) + BytesPerWord
          /\ (At(3) - os) + os = At(3)
      <4>1. At(3) \in Int /\ At(2) = At(2 + 1) + BytesPerWord
        BY Positions
      <4>2. At(2 + 1) = At(3)
        OBVIOUS
      <4> HIDE DEF os
      <4> QED BY <1>1, <4>1, <4>2, TransferAssumption
    <3> DEFINE p == At(3) - os
    <3>3. Carries(c, double_width_readdata[1], p) /\ Carries(c, double_width_readdata[2], p + BytesPerWord)
      BY <1>2, <3>2
    <3>4. p \in Int /\ p + os = At(3)
      BY <3>2
    <3> HIDE DEF p, os, c
    <3>5. Carries(c, Slice(double_width_readdata, os), p + os)
      BY <1>1, <3>3, <3>4, SliceCarries DEF PipeTypes
    <3> QED BY <3>1, <3>4, <3>5
  <2>2. CASE ~(Steps > 2)
    <3>1. Steps \in Int /\ Steps < 3
      BY <2>2
    <3> HIDE DEF c, os, od
    <3> QED BY <1>1, <3>1, NotReached
  <2> QED BY <2>1, <2>2
<1>8. /\ Carries(c, dbl_writedata'[2], At(4))
      /\ Carries(c, dbl_writedata'[1], At(5))
  <2>1. CASE Steps > 3
    <3>1. dbl_writedata' = <<dbl_writedata[2], zero_aligned>>
      BY <1>3, <2>1 DEF Shift
    <3> QED BY <1>2, <3>1
  <2>2. CASE ~(Steps > 3)
    <3>1. Steps \in Int /\ Steps < 4 /\ Steps < 5
      BY <2>2
    <3> HIDE DEF c, os, od
    <3> QED BY <1>1, <3>1, NotReached
  <2> QED BY <2>1, <2>2
<1>9. Carries(c, shifted', At(5) - od)
  <2>1. CASE Steps > 4
    <3> DEFINE n == BytesPerWord - od
    <3>1. shifted' = Slice(dbl_writedata, n)
      BY <1>3, <2>1 DEF Shift
    <3>2. At(6) \in Int /\ At(5) = At(6) + BytesPerWord
      <4>1. At(6) \in Int /\ At(5) = At(5 + 1) + BytesPerWord
        BY Positions
      <4>2. At(5 + 1) = At(6)
        OBVIOUS
      <4> QED BY <4>1, <4>2
    <3>3. At(6) + n = At(5) - od
      <4> HIDE DEF od
      <4> QED BY <1>1, <3>2, TransferAssumption
    <3>4. n \in 0 .. BytesPerWord
      BY <1>1
    <3> HIDE DEF n, od, c
    <3>5. Carries(c, Slice(dbl_writedata, n), At(6) + n)
      BY <1>1, <1>2, <3>2, <3>4, SliceCarries DEF PipeTypes
    <3> QED BY <3>1, <3>3, <3>5
  <2>2. CASE ~(Steps > 4)
    <3>1. Steps \in Int /\ Steps < 5
      BY <2>2
    <3> HIDE DEF c, os, od
    <3> QED BY <1>1, <3>1, NotReached
  <2> QED BY <2>1, <2>2
<1> QED BY <1>4, <1>5, <1>6, <1>7, <1>8, <1>9

LEMMA PipeInvStep ==
  ASSUME CommandTypes, ReadTypes, PipeTypes, Phase, LatchRests, ReadInv, AskInv, PipeInv,
         NEW accepts \in BOOLEAN, NEW answers \in BOOLEAN,
         answers => pending # <<>>,
         CommandQueue, ReadRequests(accepts), ReadAnswers(accepts, answers), Shift
  PROVE  PipeInv'
<1> SUFFICES ASSUME rd_state' # "IDLE" PROVE PipeInv'
  BY DEF PipeInv
<1> DEFINE c == cmdq_dout
           os == Off(cmdq_dout.src)
           od == Off(cmdq_dout.dst)
<1>1. c \in Command /\ os \in Nat /\ od \in Nat /\ ReadWords(c) \in Nat
  BY OffsetBounds, CommandWords DEF CommandTypes
<1>2. CASE latch_this_cmd
  <2>1. c' = c /\ Steps' = 0
    <3>1. c' = c
      BY <1>2, SameCommand
    <3>2. ReadWords(c)' = ReadWords(c)
      BY <3>1 DEF ReadWords, Words, Off
    <3>3. readdatavalid_cntr' = ReadWords(c) /\ pipeline_flush_count' = 0
      BY <1>2 DEF ReadAnswers
    <3> QED BY <1>1, <3>1, <3>2, <3>3 DEF Steps
  <2>2. ~readdatavalid' /\ pipeline_shifter' = 0
    BY <1>2 DEF LatchRests, ReadInv, ReadAnswers, Shift
  <2>3. \A k \in 1 .. 6, o \in Nat : \A x :
          Carries(c, x, At(k)') /\ Carries(c, x, At(k)' - o)
    <3> SUFFICES ASSUME NEW k \in 1 .. 6, NEW x, NEW o \in Nat
                 PROVE  Carries(c, x, At(k)') /\ Carries(c, x, At(k)' - o)
      OBVIOUS
    <3>1. 0 - k \in Int /\ 0 - k <= 0 - 1
      OBVIOUS
    <3>2. /\ Carries(c, x, (0 - k) * BytesPerWord - o)
          /\ Carries(c, x, (0 - k) * BytesPerWord - 0)
      BY <1>1, <3>1, Early
    <3>3. (0 - k) * BytesPerWord - 0 = (0 - k) * BytesPerWord
      BY <3>1, Times
    <3> QED BY <2>1, <3>2, <3>3 DEF At
  <2>4. os' = os /\ od' = od
    BY <2>1 DEF Off
  <2>5. AtMost(Steps', 6) = 0
    BY <2>1 DEF AtMost
  <2> QED BY <1>1, <2>1, <2>2, <2>3, <2>4, <2>5 DEF PipeInv
<1>3. CASE ~latch_this_cmd
  <2>1. rd_state # "IDLE" /\ ~flush_done
    BY <1>3 DEF ReadRequests, rd_state_nxt, ReadTypes, ReadInv, flush_done
  <2>2. c' = c /\ os' = os /\ od' = od
    <3>1. c' = c
      BY <2>1, SameCommand DEF controller_busy
    <3> QED BY <3>1 DEF Off
  <2>3. /\ Steps \in Nat
        /\ Steps' = Steps + IF do_pipe_step THEN 1 ELSE 0
        /\ rd_state = "FLUSH" => Steps >= ReadWords(c)
    BY <1>3, <2>1, <2>2, StepsStep
  <2>4. readdatavalid' => Carries(c', readdata', At(0)' - os')
    BY <1>3, <2>1, <2>2, NextWord
  <2>5. CASE do_pipe_step
    <3>1. Carries(c, readdata, At(0) - os)
      <4>1. CASE readdatavalid
        BY <2>1, <4>1 DEF PipeInv
      <4>2. CASE ~readdatavalid
        <5>1. Steps * BytesPerWord - os >= c.len
          BY <1>1, <2>3, <2>5, <4>2, AllRead DEF do_pipe_step
        <5>2. At(0) = Steps * BytesPerWord /\ At(0) \in Int
          BY <2>3, Positions DEF At
        <5>3. At(0) - os \in Int /\ At(0) - os >= c.len
          BY <1>1, <5>1, <5>2
        <5> HIDE DEF c, os
        <5> QED BY <1>1, <5>3, Outside
      <4> QED BY <4>1, <4>2
    <3>2. \A k \in 0 .. 5 : At(k + 1)' = At(k)
      <4> SUFFICES ASSUME NEW k \in 0 .. 5 PROVE At(k + 1)' = At(k)
        OBVIOUS
      <4>1. Steps' - (k + 1) = Steps - k
        BY <2>3, <2>5
      <4> QED BY <4>1 DEF At
    <3>3. /\ At(1)' = At(0) /\ At(2)' = At(1) /\ At(3)' = At(2)
          /\ At(4)' = At(3) /\ At(5)' = At(4) /\ At(6)' = At(5)
      <4>1. /\ At(0 + 1)' = At(0) /\ At(1 + 1)' = At(1) /\ At(2 + 1)' = At(2)
            /\ At(3 + 1)' = At(3) /\ At(4 + 1)' = At(4) /\ At(5 + 1)' = At(5)
        BY <3>2
      <4> QED BY <4>1
    <3>4. /\ pipeline_shifter' = AtMost(Steps + 1, 6)
          /\ Carries(c, stage0', At(0) - os)
          /\ Carries(c, double_width_readdata'[2], At(1) - os)
          /\ Carries(c, double_width_readdata'[1], At(2) - os)
          /\ Carries(c, zero_aligned', At(3))
          /\ Carries(c, dbl_writedata'[2], At(4))
          /\ Carries(c, dbl_writedata'[1], At(5))
          /\ Carries(c, shifted', At(5) - od)
      BY <1>3, <2>1, <2>3, <2>5, <3>1, PipeMoves
    <3>5. Steps' = Steps + 1
      BY <2>3, <2>5
    <3> QED BY <2>2, <2>4, <3>3, <3>4, <3>5 DEF PipeInv
  <2>6. CASE ~do_pipe_step
    <3>1. /\ UNCHANGED <<pipeline_shifter, stage0, double_width_readdata,
                         zero_aligned, dbl_writedata, shifted>>
      BY <1>3, <2>1, <2>6 DEF Shift, StepAt
    <3>2. Steps' = Steps
      BY <2>3, <2>6
    <3>3. \A k \in 1 .. 6 : At(k)' = At(k)
      BY <3>2 DEF At
    <3>4. /\ At(1)' = At(1) /\ At(2)' = At(2) /\ At(3)' = At(3)
          /\ At(4)' = At(4) /\ At(5)' = At(5) /\ At(6)' = At(6)
      BY <3>3
    <3> QED BY <2>1, <2>2, <2>4, <3>1, <3>2, <3>4 DEF PipeInv
  <2> QED BY <2>5, <2>6
<1> QED BY <1>2, <1>3

-----------------------------------------------------------------------------
(***************************************************************************)
(* The buffer.                                                             *)
(***************************************************************************)
LEMMA PushInvStep ==
  ASSUME CommandTypes, ReadTypes, PipeTypes, WriteTypes, Phase, LatchRests,
         ReadInv, PipeInv, PushInv,
         NEW accepts \in BOOLEAN, NEW answers \in BOOLEAN, NEW ready \in BOOLEAN,
         CommandQueue, ReadRequests(accepts), ReadAnswers(accepts, answers), Buffer(ready)
  PROVE  PushInv'
<1> SUFFICES ASSUME rd_state' # "IDLE", databuf_writes_cntr' > 0 PROVE PushInv'
  BY DEF PushInv
<1>1. ReadWords(cmdq_dout) \in Nat /\ WriteWords(cmdq_dout) \in Nat
  BY CommandWords DEF CommandTypes
<1>2. CASE latch_this_cmd
  <2>1. cmdq_dout' = cmdq_dout
    BY <1>2, SameCommand
  <2>2. WriteWords(cmdq_dout)' = WriteWords(cmdq_dout) /\ ReadWords(cmdq_dout)' = ReadWords(cmdq_dout)
    BY <2>1 DEF ReadWords, WriteWords, Words, Off
  <2>3. /\ readdatavalid_cntr' = ReadWords(cmdq_dout) /\ pipeline_flush_count' = 0
        /\ databuf_writes_cntr' = WriteWords(cmdq_dout)
    BY <1>2 DEF ReadAnswers, Buffer
  <2>4. Steps' = 0
    BY <1>1, <2>2, <2>3 DEF Steps
  <2> QED BY <1>1, <2>2, <2>3, <2>4 DEF PushInv
<1>3. CASE ~latch_this_cmd
  <2>1. rd_state # "IDLE"
    BY <1>3 DEF ReadRequests, rd_state_nxt, ReadTypes
  <2>2. cmdq_dout' = cmdq_dout
    BY <2>1, SameCommand DEF controller_busy
  <2>3. /\ Steps \in Nat
        /\ Steps' = Steps + IF do_pipe_step THEN 1 ELSE 0
    BY <1>3, <2>1, <2>2, StepsStep
  <2>4. databuf_writes_cntr' = databuf_writes_cntr - IF databuffer_wr_req THEN 1 ELSE 0
    BY <1>3 DEF Buffer
  <2>5. databuffer_wr_req <=> do_pipe_step /\ Steps >= 6 /\ databuf_writes_cntr > 0
    <3>1. pipeline_shifter = AtMost(Steps, 6)
      BY <2>1 DEF PipeInv
    <3> QED BY <2>3, <3>1 DEF databuffer_wr_req, StepAt, AtMost
  <2>6. databuf_writes_cntr \in Nat /\ databuf_writes_cntr > 0
    BY <2>4 DEF WriteTypes
  <2>7. WriteWords(cmdq_dout) - databuf_writes_cntr = IF Steps >= 6 THEN Steps - 6 ELSE 0
    BY <2>1, <2>6 DEF PushInv
  <2>8. WriteWords(cmdq_dout)' = WriteWords(cmdq_dout)
    BY <2>2 DEF WriteWords, Words, Off
  <2>9. WriteWords(cmdq_dout) - databuf_writes_cntr' = IF Steps' >= 6 THEN Steps' - 6 ELSE 0
    BY <1>1, <2>3, <2>4, <2>5, <2>6, <2>7
  <2> QED BY <2>8, <2>9 DEF PushInv
<1> QED BY <1>2, <1>3

\* A word that is pushed is the one that follows those in the buffer.
LEMMA PushedWord ==
  ASSUME CommandTypes, ReadTypes, PipeTypes, WriteTypes, WriteInv, ReadInv, PipeInv, PushInv,
         databuffer_wr_req
  PROVE  /\ Sending
         /\ Carries(cmdq_dout, shifted,
                    (dst_write_cntr + Len(databuf)) * BytesPerWord - Off(cmdq_dout.dst))
<1>1. do_pipe_step /\ pipeline_shifter = 6 /\ databuf_writes_cntr > 0
  BY DEF databuffer_wr_req, StepAt, PipeTypes
<1>2. rd_state # "IDLE"
  BY <1>1 DEF do_pipe_step, ReadInv
<1>3. WriteWords(cmdq_dout) \in Nat /\ ReadWords(cmdq_dout) \in Nat /\ Len(databuf) \in Nat
  BY CommandWords, LenProperties DEF CommandTypes, WriteTypes
<1>4. Sending
  BY <1>1, <1>3 DEF WriteInv, CountInv, WriteTypes
<1>5. Steps \in Int /\ Steps >= 6
  <2>1. Steps \in Int
    BY <1>3 DEF Steps, ReadTypes
  <2> QED BY <1>1, <1>2, <2>1 DEF PipeInv, AtMost
<1>6. Steps - 6 = dst_write_cntr + Len(databuf)
  <2>1. WriteWords(cmdq_dout) - databuf_writes_cntr = Steps - 6
    BY <1>1, <1>2, <1>5 DEF PushInv
  <2>2. /\ databuf_writes_cntr + Len(databuf) = wr_xfer_remaining
        /\ wr_xfer_remaining + dst_write_cntr = WriteWords(cmdq_dout)
    BY <1>4 DEF WriteInv, CountInv
  <2> QED BY <1>3, <1>5, <2>1, <2>2 DEF WriteTypes
<1>7. Carries(cmdq_dout, shifted, At(6) - Off(cmdq_dout.dst))
  BY <1>2 DEF PipeInv
<1> QED BY <1>4, <1>6, <1>7 DEF At

\* What a clock does to the words in the buffer, one by one.
LEMMA BufferWords ==
  ASSUME PipeTypes, WriteTypes, NEW ready \in BOOLEAN,
         wr_state = "WRITE" => databuf # <<>>,
         Buffer(ready), ~latch_this_cmd, NEW j \in 1 .. Len(databuf')
  PROVE  LET gone == IF databuffer_rdack(ready) THEN 1 ELSE 0
             left == Len(databuf) - gone
         IN  /\ j <= left => j + gone \in 1 .. Len(databuf) /\ databuf'[j] = databuf[j + gone]
             /\ j > left => databuffer_wr_req /\ j = left + 1 /\ databuf'[j] = shifted
<1> DEFINE rest == IF databuffer_rdack(ready) THEN Tail(databuf) ELSE databuf
           more == IF databuffer_wr_req THEN <<shifted>> ELSE <<>>
           gone == IF databuffer_rdack(ready) THEN 1 ELSE 0
           left == Len(databuf) - gone
<1>1. databuf \in Seq(Word) /\ Len(databuf) \in Nat
  BY LenProperties DEF WriteTypes
<1>2. databuffer_rdack(ready) => databuf # <<>>
  BY DEF databuffer_rdack, successful_dst_int_write, WriteTypes
<1>3. /\ rest \in Seq(Word) /\ Len(rest) = left /\ left \in Nat
      /\ \A k \in 1 .. left : k + gone \in 1 .. Len(databuf) /\ rest[k] = databuf[k + gone]
  BY <1>1, <1>2, HeadTailProperties, EmptySeq
<1>4. /\ more \in Seq(Word) /\ Len(more) = IF databuffer_wr_req THEN 1 ELSE 0
      /\ databuffer_wr_req => more[1] = shifted
  BY DEF PipeTypes
<1>5. databuf' = rest \o more
  BY DEF Buffer
<1> HIDE DEF rest, more, left
<1>6. /\ Len(databuf') = left + Len(more)
      /\ databuf'[j] = IF j <= left THEN rest[j] ELSE more[j - left]
  <2>1. rest \in Seq(Word) /\ more \in Seq(Word) /\ Len(rest) = left
    BY <1>3, <1>4
  <2>2. /\ Len(rest \o more) = left + Len(more)
        /\ \A k \in 1 .. left + Len(more) :
             (rest \o more)[k] = IF k <= left THEN rest[k] ELSE more[k - left]
    BY <2>1, ConcatProperties
  <2> QED BY <1>5, <2>2
<1>7. j \in Nat /\ j >= 1 /\ j <= left + Len(more) /\ Len(more) \in Nat
  BY <1>3, <1>4, <1>6
<1>8. ASSUME j <= left
      PROVE  j + gone \in 1 .. Len(databuf) /\ databuf'[j] = databuf[j + gone]
  BY <1>3, <1>6, <1>7, <1>8
<1>9. ASSUME j > left
      PROVE  databuffer_wr_req /\ j = left + 1 /\ databuf'[j] = shifted
  <2>1. databuffer_wr_req /\ j = left + 1
    BY <1>3, <1>4, <1>7, <1>9
  <2>2. databuf'[j] = more[1]
    BY <1>3, <1>6, <1>9, <2>1
  <2> QED BY <1>4, <2>1, <2>2
<1> QED BY <1>8, <1>9 DEF left

\* The words in the buffer follow those that are written.
LEMMA BufferStep ==
  ASSUME CommandTypes, ReadTypes, PipeTypes, WriteTypes, WriteInv, ReadInv, PipeInv,
         PushInv, BufInv,
         NEW ready \in BOOLEAN, wr_state = "WRITE" => databuf # <<>>,
         Buffer(ready), Write(ready), ~latch_this_cmd, Sending,
         NEW j \in 1 .. Len(databuf')
  PROVE  Carries(cmdq_dout, databuf'[j],
                 (dst_write_cntr' + j - 1) * BytesPerWord - Off(cmdq_dout.dst))
<1> DEFINE gone == IF databuffer_rdack(ready) THEN 1 ELSE 0
           left == Len(databuf) - gone
<1>1. /\ j <= left => j + gone \in 1 .. Len(databuf) /\ databuf'[j] = databuf[j + gone]
      /\ j > left => databuffer_wr_req /\ j = left + 1 /\ databuf'[j] = shifted
  BY BufferWords
<1>2. dst_write_cntr' = dst_write_cntr + gone
  BY DEF Write, databuffer_rdack, successful_dst_int_write, Sending
<1>3. Len(databuf) \in Nat /\ gone \in {0, 1} /\ dst_write_cntr \in Nat
  BY LenProperties DEF WriteTypes
<1> HIDE DEF gone
<1>4. CASE j <= left
  <2>1. dst_write_cntr' + j - 1 = dst_write_cntr + (j + gone) - 1
    BY <1>2, <1>3
  <2>2. Carries(cmdq_dout, databuf[j + gone],
                (dst_write_cntr + (j + gone) - 1) * BytesPerWord - Off(cmdq_dout.dst))
    BY <1>1, <1>4 DEF BufInv
  <2> QED BY <1>1, <1>4, <2>1, <2>2
<1>5. CASE j > left
  <2>1. dst_write_cntr' + j - 1 = dst_write_cntr + Len(databuf)
    BY <1>1, <1>2, <1>3, <1>5
  <2> QED BY <1>1, <1>5, <2>1, PushedWord
<1> QED BY <1>3, <1>4, <1>5

-----------------------------------------------------------------------------
(***************************************************************************)
(* Byte enables.                                                           *)
(***************************************************************************)
\* The bytes of the command in word m of the destination.
Wanted(c, m) == {i \in Bytes : m * BytesPerWord - Off(c.dst) + i \in 0 .. c.len - 1}

LEMMA LastWord ==
  ASSUME NEW n \in Nat, n > 0
  PROVE  n = (Words(n) - 1) * BytesPerWord
               + IF Off(n) = 0 THEN BytesPerWord ELSE Off(n)
<1> DEFINE q == Words(n) - 1
           e == n - q * BytesPerWord
<1>1. q \in Int /\ q * BytesPerWord \in Int
  <2>1. q \in Int
    BY WordsType
  <2> HIDE DEF q
  <2> QED BY <2>1, Times
<1>2. Words(n) * BytesPerWord = q * BytesPerWord + BytesPerWord
  <2>1. Words(n) \in Int /\ q + 1 = Words(n) /\ 1 * BytesPerWord = BytesPerWord
    BY WordsType, TransferAssumption
  <2> HIDE DEF q
  <2>2. (q + 1) * BytesPerWord = q * BytesPerWord + 1 * BytesPerWord
    BY <1>1, Times
  <2> QED BY <2>1, <2>2
<1>3. e \in 1 .. BytesPerWord /\ n = q * BytesPerWord + e
  <2>1. n <= Words(n) * BytesPerWord /\ q * BytesPerWord < n
    BY WordsCover
  <2> HIDE DEF q
  <2> QED BY <1>1, <1>2, <2>1, TransferAssumption
<1>4. /\ n = (n \div BytesPerWord) * BytesPerWord + Off(n) /\ n \div BytesPerWord \in Int
      /\ Off(n) \in 0 .. BytesPerWord - 1
  BY DivMod, OffType DEF Bytes
<1> HIDE DEF e
<1>5. CASE e = BytesPerWord
  <2>1. n = Words(n) * BytesPerWord + 0
    <3> HIDE DEF q
    <3> QED BY <1>1, <1>2, <1>3, <1>5
  <2>2. Words(n) \in Int /\ 0 \in 0 .. BytesPerWord - 1
    BY WordsType, TransferAssumption
  <2>3. Off(n) = 0
    BY <1>4, <2>1, <2>2, SameOff
  <2> QED BY <1>3, <1>5, <2>3
<1>6. CASE e # BytesPerWord
  <2>1. e \in 0 .. BytesPerWord - 1 /\ e # 0
    BY <1>3, <1>6, TransferAssumption
  <2>2. Off(n) = e
    BY <1>1, <1>3, <1>4, <2>1, SameOff
  <2> QED BY <1>3, <2>1, <2>2
<1> QED BY <1>5, <1>6

LEMMA FirstWanted ==
  ASSUME NEW c \in Command
  PROVE  Wanted(c, 0) = FirstByteEnable(c)
<1>1. 0 * BytesPerWord = 0
  BY TransferAssumption
<1> QED BY <1>1, OffsetBounds, TransferAssumption DEF Wanted, FirstByteEnable, Bytes

\* The words of the destination hold the command, and the last is needed.
LEMMA Written ==
  ASSUME NEW c \in Command, c.len > 0
  PROVE  /\ c.len + Off(c.dst) =
              (WriteWords(c) - 1) * BytesPerWord
                + IF Off(c.len + Off(c.dst)) = 0 THEN BytesPerWord
                  ELSE Off(c.len + Off(c.dst))
         /\ c.len + Off(c.dst) <= WriteWords(c) * BytesPerWord
         /\ Off(c.len + Off(c.dst)) \in 0 .. BytesPerWord - 1
<1>1. c.len + Off(c.dst) \in Nat /\ c.len + Off(c.dst) > 0
  BY OffsetBounds
<1> QED BY <1>1, LastWord, WordsCover, OffType DEF WriteWords, Bytes

LEMMA LaterWanted ==
  ASSUME NEW c \in Command, c.len > 0, NEW m \in Nat, m > 0, m < WriteWords(c)
  PROVE  /\ m < WriteWords(c) - 1 => Wanted(c, m) = Bytes
         /\ m = WriteWords(c) - 1 => Wanted(c, m) = LastByteEnable(c)
<1> DEFINE w == WriteWords(c)
           od == Off(c.dst)
           r == Off(c.len + Off(c.dst))
           e == IF r = 0 THEN BytesPerWord ELSE r
<1>1. /\ c.len \in Nat /\ w \in Nat
      /\ od \in Nat /\ od < BytesPerWord
  BY OffsetBounds, CommandWords, TransferAssumption
<1>2. /\ c.len + od = (w - 1) * BytesPerWord + e
      /\ e \in 1 .. BytesPerWord
  BY Written, TransferAssumption
<1>3. m * BytesPerWord \in Int /\ m * BytesPerWord >= BytesPerWord
  <2>1. m \in Int /\ 1 <= m /\ 1 * BytesPerWord = BytesPerWord
    BY TransferAssumption
  <2> QED BY <2>1, Times
<1>4. (w - 1) * BytesPerWord \in Int
  BY <1>1, Times
<1>5. ASSUME m < w - 1
      PROVE  Wanted(c, m) = Bytes
  <2>1. (m + 1) * BytesPerWord <= (w - 1) * BytesPerWord
    <3>1. m + 1 \in Int /\ w - 1 \in Int /\ m + 1 <= w - 1
      BY <1>1, <1>5
    <3> HIDE DEF w
    <3> QED BY <3>1, Times
  <2>2. (m + 1) * BytesPerWord = m * BytesPerWord + BytesPerWord
    <3>1. (m + 1) * BytesPerWord = m * BytesPerWord + 1 * BytesPerWord
      BY Times
    <3> QED BY <3>1, TransferAssumption
  <2>3. ASSUME NEW i \in Bytes
        PROVE  m * BytesPerWord - od + i \in 0 .. c.len - 1
    <3> HIDE DEF od, w, e
    <3> QED BY <1>1, <1>2, <1>3, <1>4, <2>1, <2>2, TransferAssumption DEF Bytes
  <2> QED BY <2>3 DEF Wanted
<1>6. ASSUME m = w - 1
      PROVE  Wanted(c, m) = LastByteEnable(c)
  <2>1. LastByteEnable(c) = {i \in Bytes : i < e}
    BY DEF LastByteEnable
  <2>2. ASSUME NEW i \in Bytes
        PROVE  m * BytesPerWord - od + i \in 0 .. c.len - 1 <=> i < e
    <3>1. m * BytesPerWord = (w - 1) * BytesPerWord
      BY <1>6
    <3>2. i \in Nat
      BY TransferAssumption DEF Bytes
    <3> HIDE DEF od, w, e
    <3> QED BY <1>1, <1>2, <1>3, <1>4, <3>1, <3>2, TransferAssumption
  <2> HIDE DEF e
  <2> QED BY <2>1, <2>2 DEF Wanted
<1> QED BY <1>5, <1>6

\* dst_avmm_byteenable: the destination is given the bytes of the command and
\* no others.
LEMMA EnablesWanted ==
  ASSUME CommandTypes, WriteTypes, WriteInv, BeatInv, Phase, wr_state = "WRITE", Settled
  PROVE  /\ dst_avmm_byteenable(TRUE) = Wanted(cmdq_dout, dst_write_cntr)
         /\ cmdq_dout \in Command /\ cmdq_dout.len > 0
<1> DEFINE c == cmdq_dout
<1>1. Sending
  BY DEF Sending
<1>2. c \in Command /\ c.len > 0
  BY CommandsAreCommands DEF Phase, controller_busy, CommandTypes
<1>3. /\ wr_xfer_remaining + dst_write_cntr = WriteWords(c) /\ wr_xfer_remaining > 0
      /\ WriteWords(c) \in Nat
  BY <1>1, <1>2, CommandWords DEF WriteInv, CountInv
<1>4. dst_avmm_byteenable(TRUE) =
        IF this_is_first_burst_word THEN FirstByteEnable(c)
        ELSE IF wr_xfer_remaining = 1 THEN LastByteEnable(c) ELSE Bytes
  BY <1>1, BeatEnables
<1>5. CASE dst_write_cntr = 0
  <2>1. this_is_first_burst_word
    BY <1>1, <1>5 DEF BeatInv, FirstInv
  <2> QED BY <1>2, <1>4, <1>5, <2>1, FirstWanted
<1>6. CASE dst_write_cntr > 0
  <2>1. /\ wr_xfer_remaining = 1 => Wanted(c, dst_write_cntr) = LastByteEnable(c)
        /\ wr_xfer_remaining # 1 => Wanted(c, dst_write_cntr) = Bytes
    <3>1. /\ dst_write_cntr \in Nat /\ dst_write_cntr < WriteWords(c)
          /\ wr_xfer_remaining = 1 <=> dst_write_cntr = WriteWords(c) - 1
          /\ wr_xfer_remaining # 1 <=> dst_write_cntr < WriteWords(c) - 1
      BY <1>3 DEF WriteTypes
    <3> HIDE DEF c
    <3> QED BY <1>2, <1>6, <3>1, LaterWanted
  <2>2. CASE this_is_first_burst_word
    <3>1. build.to_host /\ FirstByteEnable(c) = Bytes
      BY <1>1, <1>6, <2>2 DEF BeatInv, FirstInv, first_dst_write_is_partial
    <3>2. wr_xfer_remaining = 1 => LastByteEnable(c) = Bytes
      <4>1. SUFFICES ASSUME wr_xfer_remaining = 1, last_dst_write_is_partial
                     PROVE  FALSE
        BY DEF last_dst_write_is_partial
      <4>2. dst_avmm_burstcount >= 1 /\ dst_avmm_burstcount < 1
        BY <1>1, <1>6, <2>2, <3>1, <4>1 DEF BeatInv, FirstInv
      <4> QED BY <4>2 DEF WriteTypes
    <3> QED BY <1>2, <1>4, <2>1, <2>2, <3>1, <3>2
  <2>3. CASE ~this_is_first_burst_word
    BY <1>2, <1>4, <2>1, <2>3
  <2> QED BY <2>2, <2>3
<1>7. dst_write_cntr = 0 \/ dst_write_cntr > 0
  BY DEF WriteTypes
<1> QED BY <1>2, <1>5, <1>6, <1>7, Zenon

-----------------------------------------------------------------------------
(***************************************************************************)
(* What is moved.                                                          *)
(***************************************************************************)
LEMMA PrefixIsPart ==
  ASSUME NEW c \in Command, c.len > 0
  PROVE  /\ \A n \in Int : Prefix(c, n) \subseteq D!Bytes(c)
         /\ Prefix(c, 0) = {}
         /\ Prefix(c, WriteWords(c) * BytesPerWord) = D!Bytes(c)
<1>1. /\ c.len \in Nat /\ Off(c.dst) \in Nat
      /\ WriteWords(c) * BytesPerWord \in Int
  BY OffsetBounds, CommandWords, Times
<1>2. c.len + Off(c.dst) <= WriteWords(c) * BytesPerWord
  BY Written
<1>3. Prefix(c, 0) = {}
  BY <1>1 DEF Prefix
<1>4. Prefix(c, WriteWords(c) * BytesPerWord) = D!Bytes(c)
  <2>1. \A j \in 0 .. c.len - 1 : Off(c.dst) + j < WriteWords(c) * BytesPerWord
    BY <1>1, <1>2
  <2> QED BY <2>1 DEF Prefix, D!Bytes
<1> QED BY <1>3, <1>4 DEF Prefix, D!Bytes

\* Word m adds its bytes to those before it.
LEMMA PrefixGrows ==
  ASSUME NEW c \in Command, NEW m \in Nat
  PROVE  Prefix(c, (m + 1) * BytesPerWord) =
           Prefix(c, m * BytesPerWord)
             \cup {<<c.src + (m * BytesPerWord - Off(c.dst) + i),
                     c.dst + (m * BytesPerWord - Off(c.dst) + i)>> : i \in Wanted(c, m)}
<1> DEFINE n == m * BytesPerWord
           od == Off(c.dst)
           p == n - od
           Pair(k) == <<c.src + k, c.dst + k>>
           Of(S) == {Pair(k) : k \in S}
<1>1. /\ n \in Int /\ (m + 1) * BytesPerWord = n + BytesPerWord
      /\ od \in Nat /\ c.len \in Nat
  <2>1. (m + 1) * BytesPerWord = n + 1 * BytesPerWord /\ n \in Int
    BY Times
  <2> QED BY <2>1, OffsetBounds, TransferAssumption
<1> HIDE DEF n, od
<1>2. {j \in 0 .. c.len - 1 : od + j < n + BytesPerWord}
        = {j \in 0 .. c.len - 1 : od + j < n}
            \cup {j \in 0 .. c.len - 1 : n <= od + j /\ od + j < n + BytesPerWord}
  BY <1>1, TransferAssumption
<1>3. {j \in 0 .. c.len - 1 : n <= od + j /\ od + j < n + BytesPerWord}
        = {p + i : i \in {i \in Bytes : p + i \in 0 .. c.len - 1}}
  <2>1. ASSUME NEW j \in 0 .. c.len - 1, n <= od + j, od + j < n + BytesPerWord
        PROVE  \E i \in Bytes : p + i = j
    <3>1. j - p \in Bytes /\ p + (j - p) = j
      BY <1>1, <2>1, TransferAssumption DEF Bytes
    <3> QED BY <3>1
  <2>2. ASSUME NEW i \in Bytes, p + i \in 0 .. c.len - 1
        PROVE  n <= od + (p + i) /\ od + (p + i) < n + BytesPerWord
    BY <1>1, TransferAssumption DEF Bytes
  <2> HIDE DEF p
  <2> QED BY <2>1, <2>2
<1>4. Wanted(c, m) = {i \in Bytes : p + i \in 0 .. c.len - 1}
  BY DEF Wanted, n, od
<1>5. /\ Prefix(c, (m + 1) * BytesPerWord)
           = Of({j \in 0 .. c.len - 1 : od + j < n + BytesPerWord})
      /\ Prefix(c, m * BytesPerWord) = Of({j \in 0 .. c.len - 1 : od + j < n})
  BY <1>1 DEF Prefix, n, od
<1>6. {<<c.src + (p + i), c.dst + (p + i)>> : i \in Wanted(c, m)}
        = Of({p + i : i \in Wanted(c, m)})
  OBVIOUS
<1>7. \A S, T : Of(S \cup T) = Of(S) \cup Of(T)
  OBVIOUS
<1> HIDE DEF p, Of
<1>8. Prefix(c, (m + 1) * BytesPerWord) =
        Prefix(c, m * BytesPerWord) \cup Of({p + i : i \in Wanted(c, m)})
  BY <1>2, <1>3, <1>4, <1>5, <1>7
<1> QED BY <1>6, <1>8 DEF p, n, od

\* A beat moves the bytes of its word.
LEMMA BeatMoves ==
  ASSUME CommandTypes, WriteTypes, WriteInv, BeatInv, BufInv, Phase,
         NEW ready \in BOOLEAN, Write(ready), databuffer_rdack(ready)
  PROVE  moved' = Prefix(cmdq_dout, (dst_write_cntr + 1) * BytesPerWord)
<1> DEFINE c == cmdq_dout
           m == dst_write_cntr
           p == m * BytesPerWord - Off(c.dst)
<1>1. wr_state = "WRITE" /\ ready = TRUE /\ Sending
  BY DEF databuffer_rdack, successful_dst_int_write, Sending
<1>2. databuf # <<>> /\ Len(databuf) > 0 /\ Settled
  BY <1>1, WriteHasData
<1>3. /\ dst_avmm_byteenable(ready) = Wanted(c, m)
      /\ c \in Command /\ c.len > 0
  BY <1>1, <1>2, EnablesWanted
<1>4. m \in Nat /\ c.dst \in Nat /\ Off(c.dst) \in Nat /\ m * BytesPerWord \in Int
  BY <1>3, OffsetBounds, Times DEF WriteTypes
<1>5. /\ dst_avmm_address = c.dst + m * BytesPerWord
      /\ moved = Prefix(c, m * BytesPerWord)
  BY <1>1 DEF BufInv
<1>6. Off(dst_avmm_address) = Off(c.dst)
  <2> HIDE DEF c, m
  <2> QED BY <1>4, <1>5, OffShift
<1>7. Carries(c, Head(databuf), p)
  <2>1. Head(databuf) = databuf[1] /\ 1 \in 1 .. Len(databuf)
    BY <1>2, LenProperties DEF WriteTypes
  <2>2. Carries(c, databuf[1], (m + 1 - 1) * BytesPerWord - Off(c.dst))
    BY <1>1, <2>1 DEF BufInv
  <2>3. m + 1 - 1 = m
    BY <1>4
  <2> QED BY <2>1, <2>2, <2>3
<1>8. \A i \in Wanted(c, m) :
        <<Head(databuf)[i], dst_avmm_address - Off(dst_avmm_address) + i>>
          = <<c.src + (p + i), c.dst + (p + i)>>
  <2> SUFFICES ASSUME NEW i \in Wanted(c, m)
               PROVE  /\ Head(databuf)[i] = c.src + (p + i)
                      /\ dst_avmm_address - Off(dst_avmm_address) + i = c.dst + (p + i)
    OBVIOUS
  <2>1. i \in Bytes /\ p + i \in 0 .. c.len - 1
    BY DEF Wanted
  <2>2. i \in Int /\ c.src \in Nat
    BY <1>3, <2>1, OffsetBounds DEF Bytes
  <2>3. Head(databuf)[i] = c.src + p + i
    BY <1>7, <2>1 DEF Carries
  <2>4. p \in Int
    BY <1>4
  <2>5. dst_avmm_address - Off(dst_avmm_address) + i = c.dst + (p + i)
    BY <1>4, <1>5, <1>6, <2>2
  <2> HIDE DEF p
  <2> QED BY <2>2, <2>3, <2>4, <2>5
<1>9. moved' = moved \cup {<<Head(databuf)[i],
                 dst_avmm_address - Off(dst_avmm_address) + i>> :
                   i \in dst_avmm_byteenable(ready)}
  BY DEF Write
<1>10. moved' = moved \cup {<<c.src + (p + i), c.dst + (p + i)>> : i \in Wanted(c, m)}
  <2> HIDE DEF c, m, p
  <2> QED BY <1>3, <1>8, <1>9
<1> QED BY <1>3, <1>4, <1>5, <1>10, PrefixGrows

LEMMA BufInvStep ==
  ASSUME CommandTypes, ReadTypes, PipeTypes, WriteTypes, Phase, LatchRests, WriteInv,
         ReadInv, BeatInv, PipeInv, PushInv, BufInv, CurrentInv,
         NEW ready \in BOOLEAN,
         CommandQueue, Buffer(ready), Write(ready)
  PROVE  BufInv'
<1> SUFFICES ASSUME Sending' PROVE BufInv'
  BY DEF BufInv
<1> DEFINE c == cmdq_dout
<1>1. c \in Command
  BY DEF CommandTypes
<1>2. CASE latch_this_cmd
  <2>1. c' = c
    BY <1>2, SameCommand
  <2>2. ~databuffer_rdack(ready) /\ moved = {} /\ c.len > 0
    <3>1. latch[4]
      BY <1>2 DEF latch_this_cmd
    <3>2. c \in Commands /\ moved = {}
      BY <3>1 DEF Phase, CurrentInv
    <3> QED BY <1>2, <3>2, CommandsAreCommands
            DEF LatchRests, databuffer_rdack, successful_dst_int_write
  <2>3. dst_avmm_address' = c.dst /\ databuf' = <<>> /\ dst_write_cntr' = 0 /\ moved' = {}
    BY <1>2, <2>2 DEF Write, Buffer
  <2>4. 0 * BytesPerWord = 0 /\ Len(databuf') = 0 /\ c.dst \in Nat
    BY <1>1, <2>3, OffsetBounds, EmptySeq, TransferAssumption
  <2>5. Prefix(c, 0) = {}
    BY <1>1, <2>2, PrefixIsPart
  <2> QED BY <2>1, <2>3, <2>4, <2>5 DEF BufInv
<1>3. CASE ~latch_this_cmd
  <2>1. Sending
    BY <1>3 DEF Write, wr_state_nxt, Sending, WriteTypes
  <2>2. c' = c
    BY <2>1, SameCommand DEF controller_busy, Sending
  <2>3. wr_state = "WRITE" => databuf # <<>>
    BY WriteHasData
  <2>4. \A j \in 1 .. Len(databuf') :
          Carries(c, databuf'[j], (dst_write_cntr' + j - 1) * BytesPerWord - Off(c.dst))
    BY <1>3, <2>1, <2>3, BufferStep
  <2>5. /\ dst_avmm_address' = c.dst + dst_write_cntr' * BytesPerWord
        /\ moved' = Prefix(c, dst_write_cntr' * BytesPerWord)
    <3>1. /\ dst_avmm_address = c.dst + dst_write_cntr * BytesPerWord
          /\ moved = Prefix(c, dst_write_cntr * BytesPerWord)
      BY <2>1 DEF BufInv
    <3>2. CASE databuffer_rdack(ready)
      <4>1. moved' = Prefix(c, (dst_write_cntr + 1) * BytesPerWord)
        BY <3>2, BeatMoves
      <4>2. dst_write_cntr' = dst_write_cntr + 1 /\ dst_avmm_address' = dst_avmm_address + BytesPerWord
        BY <1>3, <3>2 DEF Write, databuffer_rdack
      <4>3. /\ (dst_write_cntr + 1) * BytesPerWord = dst_write_cntr * BytesPerWord + BytesPerWord
            /\ dst_write_cntr * BytesPerWord \in Int
        <5>1. /\ (dst_write_cntr + 1) * BytesPerWord = dst_write_cntr * BytesPerWord + 1 * BytesPerWord
              /\ dst_write_cntr * BytesPerWord \in Int
          <6>1. dst_write_cntr \in Int /\ 1 \in Int
            BY DEF WriteTypes
          <6> QED BY <6>1, Times
        <5> QED BY <5>1, TransferAssumption
      <4>4. c.dst \in Nat
        BY <1>1, OffsetBounds
      <4>5. dst_avmm_address' = c.dst + (dst_write_cntr + 1) * BytesPerWord
        BY <3>1, <4>2, <4>3, <4>4, TransferAssumption
      <4> QED BY <4>1, <4>2, <4>5
    <3>3. CASE ~databuffer_rdack(ready)
      <4>1. ~successful_dst_int_write(ready)
        BY <2>1, <3>3 DEF databuffer_rdack, Sending
      <4>2. dst_write_cntr' = dst_write_cntr
        BY <1>3, <4>1 DEF Write, WriteTypes
      <4>3. dst_avmm_address' = dst_avmm_address /\ moved' = moved
        BY <1>3, <3>3 DEF Write
      <4> QED BY <3>1, <4>2, <4>3
    <3> QED BY <3>2, <3>3
  <2> QED BY <2>2, <2>4, <2>5 DEF BufInv
<1> QED BY <1>2, <1>3

LEMMA CurrentInvStep ==
  ASSUME CommandTypes, ReadTypes, WriteTypes, Phase, LatchRests, WriteInv,
         BeatInv, BufInv, CurrentInv,
         NEW accepts \in BOOLEAN, NEW ready \in BOOLEAN, NEW complete \in BOOLEAN,
         CommandQueue, ReadRequests(accepts), Write(ready), Completion(complete),
         UNCHANGED hostVars
  PROVE  CurrentInv'
<1>1. descriptor' = descriptor
  BY DEF hostVars
<1>2. latch'[1] = Pop /\ \A i \in 2 .. 7 : latch'[i] = latch[i - 1]
  BY LatchStep
<1>3. ~databuffer_rdack(ready) => moved' = moved
  BY DEF Write
<1>4. databuffer_rdack(ready) => wr_state = "WRITE" /\ controller_busy
  BY DEF databuffer_rdack, successful_dst_int_write, controller_busy, WriteTypes
<1>5. rd_state' = rd_state_nxt(accepts) /\ wr_state' = wr_state_nxt(ready)
  BY DEF ReadRequests, Write
<1>6. ASSUME cmdq' # <<>>
      PROVE  cmdq'[1] = descriptor' /\ moved' = {}
  <2>1. CASE Pop
    <3>1. cmdq # <<>> /\ Len(cmdq) = 1 /\ cmdq' = Tail(cmdq)
      BY <2>1 DEF Pop, Phase, CommandQueue
    <3>2. Len(cmdq') = 0 /\ cmdq' \in Seq(Commands)
      BY <3>1, HeadTailProperties DEF CommandTypes
    <3> QED BY <1>6, <3>2, EmptySeq
  <2>2. CASE ~Pop
    <3>1. cmdq' = cmdq
      BY <2>2 DEF CommandQueue
    <3>2. ~controller_busy
      BY <1>6, <3>1 DEF Phase, Resting
    <3> QED BY <1>1, <1>3, <1>4, <1>6, <3>1, <3>2 DEF CurrentInv
  <2> QED BY <2>1, <2>2
<1>7. ASSUME NEW i \in 1 .. 4, latch'[i]
      PROVE  cmdq_dout' = descriptor' /\ moved' = {}
  <2>1. CASE i = 1
    <3>1. Pop
      BY <1>2, <1>7, <2>1
    <3>2. cmdq # <<>> /\ ~controller_busy /\ cmdq_dout' = Head(cmdq)
      BY <3>1 DEF Pop, CommandQueue
    <3>3. cmdq_dout' = cmdq[1]
      BY <3>2 DEF CommandTypes
    <3> QED BY <1>1, <1>3, <1>4, <3>2, <3>3 DEF CurrentInv
  <2>2. CASE i # 1
    <3>1. i - 1 \in 1 .. 4 /\ latch[i - 1]
      BY <1>2, <1>7, <2>2
    <3>2. ~controller_busy /\ cmdq = <<>> /\ cmdq_dout = descriptor /\ moved = {}
      BY <3>1 DEF Phase, Resting, CurrentInv
    <3>3. cmdq_dout' = cmdq_dout
      BY <3>2 DEF CommandQueue, Pop
    <3> QED BY <1>1, <1>3, <1>4, <3>2, <3>3
  <2> QED BY <2>1, <2>2
<1>8. ASSUME controller_busy' \/ controller_busy_d' \/ irq'
      PROVE  /\ cmdq_dout' = descriptor'
             /\ ~Sending' => moved' = D!Bytes(descriptor')
  <2>1. controller_busy \/ controller_busy_d \/ irq \/ latch_this_cmd
    BY <1>5, <1>8, BusyStep DEF Completion, CommandTypes
  <2>2. CASE latch_this_cmd
    <3>1. cmdq_dout' = cmdq_dout /\ cmdq_dout = descriptor
      BY <2>2, SameCommand DEF CurrentInv, latch_this_cmd
    <3>2. Sending'
      BY <1>5, <2>2 DEF LatchRests, wr_state_nxt, Sending
    <3> QED BY <1>1, <3>1, <3>2
  <2>3. CASE ~latch_this_cmd
    <3>1. cmdq_dout = descriptor /\ (~Sending => moved = D!Bytes(descriptor))
      BY <2>1, <2>3 DEF CurrentInv
    <3>2. ~Pop
      BY <2>1, <2>3 DEF Pop, Phase, Resting
    <3>3. cmdq_dout' = cmdq_dout
      BY <3>2 DEF CommandQueue
    <3>4. ASSUME ~Sending'
          PROVE  moved' = D!Bytes(descriptor)
      <4>1. CASE ~Sending
        <5>1. ~databuffer_rdack(ready)
          BY <4>1, <1>4 DEF Sending
        <5> QED BY <1>3, <3>1, <4>1, <5>1
      <4>2. CASE Sending
        <5>1. wr_state = "WRITE" /\ EndOfBurst(ready) /\ wr_xfer_remaining = 1
          BY <1>5, <2>3, <3>4, <4>2 DEF wr_state_nxt, Sending
        <5>2. databuffer_rdack(ready)
          BY <5>1 DEF EndOfBurst, databuffer_rdack
        <5>3. moved' = Prefix(cmdq_dout, (dst_write_cntr + 1) * BytesPerWord)
          BY <5>2, BeatMoves
        <5>4. cmdq_dout \in Command /\ cmdq_dout.len > 0
          BY <4>2, CommandsAreCommands DEF Sending, Phase, controller_busy
        <5>5. dst_write_cntr + 1 = WriteWords(cmdq_dout)
          <6>1. wr_xfer_remaining + dst_write_cntr = WriteWords(cmdq_dout)
            BY <4>2 DEF WriteInv, CountInv
          <6> QED BY <5>1, <6>1 DEF WriteTypes
        <5> QED BY <3>1, <5>3, <5>4, <5>5, PrefixIsPart
      <4> QED BY <4>1, <4>2
    <3> QED BY <1>1, <3>1, <3>3, <3>4
  <2> QED BY <2>2, <2>3
<1> QED BY <1>6, <1>7, <1>8 DEF CurrentInv

-----------------------------------------------------------------------------
(***************************************************************************)
(* DmaTransfer implements DmaDescriptor.                                   *)
(***************************************************************************)
LEMMA InitDataInv == Init => DataInv
<1> SUFFICES ASSUME Init PROVE DataInv
  OBVIOUS
<1>1. AskInv /\ PipeInv /\ PushInv
  BY DEF Init, AskInv, PipeInv, PushInv
<1>2. BufInv
  BY DEF Init, BufInv, Sending
<1>3. CurrentInv
  BY DEF Init, CurrentInv, controller_busy
<1> QED BY <1>1, <1>2, <1>3 DEF DataInv

LEMMA ClockDataInv ==
  ASSUME IInv, BeatInv, DataInv,
         NEW accepts \in BOOLEAN, NEW answers \in BOOLEAN,
         NEW ready \in BOOLEAN, NEW complete \in BOOLEAN,
         Clock(accepts, answers, ready, complete)
  PROVE  DataInv'
<1> USE DEF IInv, Types, Clock, DataInv
<1>1. LatchRests
  BY PhaseLatch
<1>2. AskInv'
  BY <1>1, AskInvStep
<1>3. PipeInv'
  BY <1>1, PipeInvStep
<1>4. PushInv'
  BY <1>1, PushInvStep
<1>5. BufInv'
  BY <1>1, BufInvStep
<1>6. CurrentInv'
  BY <1>1, CurrentInvStep
<1> QED BY <1>2, <1>3, <1>4, <1>5, <1>6

LEMMA OtherDataInv ==
  ASSUME IInv, DataInv,
         \/ \E c \in Commands : Offer(c)
         \/ Answer
         \/ UNCHANGED vars
  PROVE  DataInv'
<1> USE DEF IInv, Types, DataInv
<1>1. UNCHANGED <<build, cmdq_dout, latch, rdVars, pipeVars, bufVars, wrVars,
                  controller_busy_d>>
  BY DEF Offer, Answer, vars, hostVars, cmdVars, endVars
<1>2. Asked' = Asked /\ Steps' = Steps /\ Sending' = Sending /\ controller_busy' = controller_busy
  BY <1>1 DEF Asked, Steps, Sending, controller_busy, rdVars, wrVars, ReadWords, Words, Off
<1>3. AskInv'
  BY <1>1, <1>2 DEF AskInv, rdVars
<1>4. PushInv'
  BY <1>1, <1>2 DEF PushInv, rdVars, bufVars, WriteWords, Words, Off
<1>5. PipeInv'
  <2>1. \A k : At(k)' = At(k)
    BY <1>2 DEF At
  <2>2. /\ At(0)' = At(0) /\ At(1)' = At(1) /\ At(2)' = At(2) /\ At(3)' = At(3)
        /\ At(4)' = At(4) /\ At(5)' = At(5) /\ At(6)' = At(6)
    BY <2>1
  <2>3. AtMost(Steps, 6)' = AtMost(Steps, 6)
    BY <1>2 DEF AtMost
  <2> QED BY <1>1, <2>2, <2>3 DEF PipeInv, rdVars, pipeVars, Off
<1>6. BufInv' /\ CurrentInv'
  <2>1. CASE \E c \in Commands : Offer(c)
    <3>1. PICK c \in Commands : Offer(c)
      BY <2>1
    <3>2. /\ descriptor = NULL /\ descriptor' = c /\ moved' = {}
          /\ cmdq' = Append(cmdq, c) /\ irq' = irq
      BY <3>1 DEF Offer, endVars
    <3>3. /\ cmdq = <<>> /\ ~controller_busy /\ ~controller_busy_d /\ ~irq
          /\ \A i \in 1 .. 4 : ~latch[i]
      BY <3>2 DEF Phase
    <3>4. cmdq'[1] = c
      BY <3>2, <3>3
    <3>5. ~Sending
      BY <3>3 DEF Sending, controller_busy
    <3> QED BY <1>1, <1>2, <3>2, <3>3, <3>4, <3>5 DEF BufInv, CurrentInv
  <2>2. CASE Answer
    <3>1. irq /\ ~irq' /\ moved' = moved /\ cmdq' = cmdq
      BY <2>2 DEF Answer, cmdVars
    <3>2. /\ cmdq = <<>> /\ ~controller_busy /\ ~controller_busy_d
          /\ \A i \in 1 .. 4 : ~latch[i]
      BY <3>1 DEF Phase, Resting
    <3>3. ~Sending
      BY <3>2 DEF Sending, controller_busy
    <3> QED BY <1>1, <1>2, <3>1, <3>2, <3>3 DEF BufInv, CurrentInv
  <2>3. CASE UNCHANGED vars
    <3>1. UNCHANGED <<descriptor, cmdq, irq, moved>>
      BY <2>3 DEF vars, hostVars, cmdVars, endVars
    <3>2. BufInv'
      BY <1>1, <1>2, <3>1 DEF BufInv, bufVars, wrVars, Prefix, Off
    <3>3. CurrentInv'
      BY <1>1, <1>2, <3>1 DEF CurrentInv, D!Bytes
    <3> QED BY <3>2, <3>3
  <2> QED BY <2>1, <2>2, <2>3
<1> QED BY <1>3, <1>4, <1>5, <1>6

\* The bytes of a command, followed through the source, the pipeline and the
\* buffer to the destination.
THEOREM DataInvariance == Spec => []DataInv
<1>1. IInv /\ BeatInv /\ DataInv /\ [Next]_vars => DataInv'
  <2> SUFFICES ASSUME IInv, BeatInv, DataInv, [Next]_vars PROVE DataInv'
    OBVIOUS
  <2>1. CASE Clocks
    BY <2>1, ClockDataInv DEF Clocks
  <2>2. CASE ~Clocks
    BY <2>2, OtherDataInv DEF Next
  <2> QED BY <2>1, <2>2
<1> QED BY <1>1, InitDataInv, TransferInvariance, BeatInvHolds, PTL DEF Spec

\* dma_data_transfer.sv:8-17: for every size of words and bursts, every depth
\* of the buffer the assumption allows and every command, whatever its offsets
\* and its length, a channel moves each byte to its place and no other, and
\* says that it is done only when the last one is there.
THEOREM TransferImplements == Spec => ImplementsDescriptor
<1>1. Init => D!Init
  BY DEF Init, D!Init
<1>2. IInv /\ BeatInv /\ DataInv /\ [Next]_vars => [D!Next]_(D!vars)
  <2> SUFFICES ASSUME IInv, BeatInv, DataInv, [Next]_vars PROVE [D!Next]_(D!vars)
    OBVIOUS
  <2> USE DEF IInv, Types
  <2>1. ASSUME NEW accepts \in BOOLEAN, NEW answers \in BOOLEAN,
               NEW ready \in BOOLEAN, NEW complete \in BOOLEAN,
               Clock(accepts, answers, ready, complete)
        PROVE  [D!Next]_(D!vars)
    <3>1. descriptor' = descriptor /\ Write(ready)
      BY <2>1 DEF Clock, hostVars
    <3>2. CASE databuffer_rdack(ready)
      <4>1. Sending /\ controller_busy
        BY <3>2 DEF databuffer_rdack, successful_dst_int_write, Sending, controller_busy
      <4>2. /\ descriptor # NULL /\ cmdq_dout = descriptor
            /\ cmdq_dout \in Command /\ cmdq_dout.len > 0
        BY <4>1, CommandsAreCommands DEF Phase, DataInv, CurrentInv
      <4>3. moved' = Prefix(cmdq_dout, (dst_write_cntr + 1) * BytesPerWord)
        BY <3>1, <3>2, BeatMoves DEF DataInv
      <4>4. moved' \subseteq D!Bytes(descriptor)
        <5>1. (dst_write_cntr + 1) * BytesPerWord \in Int
          BY TransferAssumption DEF WriteTypes
        <5> QED BY <4>2, <4>3, <5>1, PrefixIsPart
      <4>5. moved \subseteq moved'
        BY <3>1, <3>2 DEF Write
      <4> QED BY <3>1, <4>2, <4>4, <4>5 DEF D!Next, D!Execute, D!Move
    <3>3. CASE ~databuffer_rdack(ready)
      BY <3>1, <3>3 DEF Write, D!vars
    <3> QED BY <3>2, <3>3
  <2>2. CASE \E c \in Commands : Offer(c)
    BY <2>2 DEF Offer, D!Next, D!Execute, D!Accept
  <2>3. CASE Answer
    <3>1. /\ irq /\ ~controller_busy /\ descriptor # NULL
          /\ moved' = moved /\ descriptor' = NULL
      BY <2>3 DEF Answer, Phase
    <3>2. moved = D!Bytes(descriptor)
      BY <3>1 DEF DataInv, CurrentInv, Sending, controller_busy
    <3> QED BY <3>1, <3>2 DEF D!Next, D!Execute, D!Complete
  <2>4. CASE UNCHANGED vars
    BY <2>4 DEF vars, hostVars, D!vars
  <2> QED BY <2>1, <2>2, <2>3, <2>4 DEF Next, Clocks
<1> QED BY <1>1, <1>2, TransferInvariance, BeatInvHolds, DataInvariance, PTL
        DEF Spec, ImplementsDescriptor, D!Spec

-----------------------------------------------------------------------------
(***************************************************************************)
(* A channel waits for others only: when a clock in which no memory does   *)
(* anything changes nothing, there is a memory or the dispatcher to wait   *)
(* for.  Reader and writer never wait for each other.                      *)
(***************************************************************************)
\* No command is popped or in the setup, nothing is in the stages that move by
\* themselves, what is a clock late has caught up, and both machines stay.
Still ==
  /\ ~Pop /\ \A i \in 1 .. 7 : ~latch[i]
  /\ rd_state # "FLUSH" /\ rd_state_nxt(FALSE) = rd_state
  /\ wr_state_nxt(FALSE) = wr_state
  /\ ~readdatavalid
  /\ \A i \in 1 .. 4 : ~databuffer_wr_req_d[i]
  /\ free_space_in_databuf = RDDATA_BUFFER_DEPTH - Len(databuf)
  /\ there_is_space_in_databuf = Space
  /\ controller_busy_d = controller_busy

\* The channel has no command or has ended it; or the source has a request to
\* take or owes a word; or the destination has a beat to take; or the
\* dispatcher has the completion of the other channels to give.
NeverStuck ==
  Still => \/ descriptor = NULL \/ irq
           \/ rd_state = "READ" \/ pending # <<>>
           \/ wr_state \in {"WRITE", "WAIT_MAGIC", "MAGIC"}

\* A command is in the FIFO, in the setup, in the state machines or at its end.
HeldInv ==
  descriptor # NULL =>
    \/ cmdq # <<>> \/ \E i \in 1 .. 4 : latch[i]
    \/ controller_busy \/ controller_busy_d \/ irq

\* When the reader rests, the writer has all the words it waits for.
DrainInv == rd_state = "IDLE" /\ Sending => databuf_writes_cntr = 0

\* A destination takes at most one word more than a source.
LEMMA OneWordMore ==
  ASSUME NEW c \in Command, c.len > 0
  PROVE  WriteWords(c) <= ReadWords(c) + 1
<1>1. /\ Off(c.src) \in Nat /\ Off(c.dst) \in 0 .. BytesPerWord - 1
      /\ c.len \in Nat
      /\ c.len + Off(c.src) \in Nat
      /\ c.len + Off(c.dst) \in Nat /\ c.len + Off(c.dst) > 0
  BY OffsetBounds
<1>2. ReadWords(c) \in Nat /\ WriteWords(c) \in Nat
  BY CommandWords
<1>3. c.len + Off(c.src) <= ReadWords(c) * BytesPerWord
  BY <1>1, WordsCover DEF ReadWords
<1>4. SUFFICES ASSUME WriteWords(c) > ReadWords(c) + 1 PROVE FALSE
  BY <1>2
<1>5. (WriteWords(c) - 1) * BytesPerWord < c.len + Off(c.dst)
  BY <1>1, <1>2, <1>4, WordsCover DEF WriteWords
<1>6. /\ (ReadWords(c) + 1) * BytesPerWord <= (WriteWords(c) - 1) * BytesPerWord
      /\ (ReadWords(c) + 1) * BytesPerWord = ReadWords(c) * BytesPerWord + 1 * BytesPerWord
      /\ (WriteWords(c) - 1) * BytesPerWord \in Int
      /\ ReadWords(c) * BytesPerWord \in Int
  <2>1. ReadWords(c) + 1 \in Int /\ WriteWords(c) - 1 \in Int /\ 1 \in Int
        /\ ReadWords(c) + 1 <= WriteWords(c) - 1
    BY <1>2, <1>4
  <2> QED BY <1>2, <2>1, Times
<1>7. 1 * BytesPerWord = BytesPerWord /\ BytesPerWord \in Nat
  BY TransferAssumption
<1> QED BY <1>1, <1>3, <1>5, <1>6, <1>7

LEMMA DrainInvStep ==
  ASSUME IInv, PipeInv, PushInv, DrainInv,
         NEW accepts \in BOOLEAN, NEW answers \in BOOLEAN,
         NEW ready \in BOOLEAN, NEW complete \in BOOLEAN,
         Clock(accepts, answers, ready, complete)
  PROVE  DrainInv'
<1> USE DEF IInv, Types
<1> SUFFICES ASSUME rd_state' = "IDLE", Sending' PROVE databuf_writes_cntr' = 0
  BY DEF DrainInv
<1>1. /\ rd_state' = rd_state_nxt(accepts) /\ wr_state' = wr_state_nxt(ready)
      /\ Buffer(ready)
  BY DEF Clock, ReadRequests, Write
<1>2. ~latch_this_cmd
  <2>1. latch_this_cmd => rd_state = "IDLE"
    BY PhaseLatch DEF LatchRests
  <2> QED BY <1>1, <2>1 DEF rd_state_nxt
<1>3. Sending
  BY <1>1, <1>2 DEF Sending, wr_state_nxt, WriteTypes
<1>4. databuf_writes_cntr' = databuf_writes_cntr - IF databuffer_wr_req THEN 1 ELSE 0
  BY <1>1, <1>2 DEF Buffer
<1>5. databuffer_wr_req => databuf_writes_cntr > 0
  BY DEF databuffer_wr_req
<1>6. CASE rd_state = "IDLE"
  BY <1>3, <1>4, <1>5, <1>6 DEF DrainInv
<1>7. CASE rd_state # "IDLE"
  <2>1. rd_state = "FLUSH" /\ pipeline_flush_count = 6
    BY <1>1, <1>7 DEF rd_state_nxt, ReadTypes, flush_done
  <2>2. cmdq_dout \in Command /\ cmdq_dout.len > 0
    BY <1>3, CommandsAreCommands DEF Phase, controller_busy, Sending
  <2>3. /\ ReadWords(cmdq_dout) \in Nat /\ WriteWords(cmdq_dout) \in Nat
        /\ WriteWords(cmdq_dout) <= ReadWords(cmdq_dout) + 1
    BY <2>2, CommandWords, OneWordMore
  <2>4. readdatavalid_cntr = 0
    BY <2>1, EmptySeq DEF ReadInv, Received
  <2>5. Steps = ReadWords(cmdq_dout) + 6
    BY <2>1, <2>3, <2>4 DEF Steps
  <2>6. databuf_writes_cntr \in Nat
    BY DEF WriteTypes
  <2>7. CASE databuf_writes_cntr > 0
    <3>1. WriteWords(cmdq_dout) - databuf_writes_cntr = ReadWords(cmdq_dout)
      BY <2>1, <2>3, <2>5, <2>7 DEF PushInv
    <3>2. databuf_writes_cntr = 1
      BY <2>3, <2>6, <2>7, <3>1
    <3>3. pipeline_shifter = 6
      BY <2>1, <2>3, <2>5 DEF PipeInv, AtMost
    <3>4. databuffer_wr_req
      BY <2>1, <2>7, <3>3 DEF databuffer_wr_req, StepAt, do_pipe_step
    <3> QED BY <1>4, <3>2, <3>4
  <2>8. CASE ~(databuf_writes_cntr > 0)
    BY <1>4, <1>5, <2>6, <2>8
  <2> QED BY <2>7, <2>8
<1> QED BY <1>6, <1>7

LEMMA HeldInvStep ==
  ASSUME IInv, HeldInv,
         NEW accepts \in BOOLEAN, NEW answers \in BOOLEAN,
         NEW ready \in BOOLEAN, NEW complete \in BOOLEAN,
         Clock(accepts, answers, ready, complete)
  PROVE  HeldInv'
<1> USE DEF IInv, Types
<1> SUFFICES ASSUME descriptor # NULL PROVE HeldInv'
  BY DEF HeldInv, Clock, hostVars
<1>1. /\ CommandQueue /\ Completion(complete)
      /\ rd_state' = rd_state_nxt(accepts) /\ wr_state' = wr_state_nxt(ready)
  BY DEF Clock, ReadRequests, Write
<1>2. /\ latch'[1] = Pop /\ latch'[2] = latch[1] /\ latch'[3] = latch[2]
      /\ latch'[4] = latch[3]
  BY <1>1, LatchStep
<1>3. CASE cmdq # <<>>
  <2>1. Pop
    BY <1>3 DEF Phase, Pop, Resting
  <2>2. latch'[1] /\ 1 \in 1 .. 4
    BY <1>2, <2>1
  <2> QED BY <2>2, Zenon DEF HeldInv
<1>4. CASE latch[1] \/ latch[2] \/ latch[3]
  <2>1. latch'[2] \/ latch'[3] \/ latch'[4]
    BY <1>2, <1>4
  <2> QED BY <2>1 DEF HeldInv
<1>5. CASE latch[4]
  <2>1. rd_state = "IDLE" /\ latch_this_cmd
    BY <1>5, PhaseLatch DEF latch_this_cmd, LatchRests
  <2>2. rd_state' = "READ"
    BY <1>1, <2>1 DEF rd_state_nxt
  <2> QED BY <2>2 DEF HeldInv, controller_busy
<1>6. CASE controller_busy
  <2>1. controller_busy_d'
    BY <1>1, <1>6 DEF Completion
  <2> QED BY <2>1 DEF HeldInv
<1>7. CASE ~latch[4] /\ ~controller_busy /\ (controller_busy_d \/ irq)
  <2>1. irq'
    BY <1>1, <1>7 DEF Completion, latch_this_cmd
  <2> QED BY <2>1 DEF HeldInv
<1>8. (\E i \in 1 .. 4 : latch[i]) => latch[1] \/ latch[2] \/ latch[3] \/ latch[4]
  OBVIOUS
<1> QED BY <1>3, <1>4, <1>5, <1>6, <1>7, <1>8 DEF HeldInv

LEMMA OtherHeldInv ==
  ASSUME IInv, HeldInv, DrainInv,
         \/ \E c \in Commands : Offer(c)
         \/ Answer
         \/ UNCHANGED vars
  PROVE  HeldInv' /\ DrainInv'
<1>1. UNCHANGED <<latch, rdVars, bufVars, wrVars, controller_busy_d>>
  BY DEF Offer, Answer, vars, cmdVars, endVars
<1>2. controller_busy' = controller_busy /\ Sending' = Sending
  BY <1>1 DEF controller_busy, Sending, rdVars, wrVars
<1>3. DrainInv'
  BY <1>1, <1>2 DEF DrainInv, rdVars, bufVars
<1>4. CASE \E c \in Commands : Offer(c)
  <2>1. PICK c \in Commands : cmdq' = Append(cmdq, c) /\ cmdq \in Seq(Commands)
    BY <1>4 DEF Offer, IInv, Types, CommandTypes
  <2>2. cmdq' # <<>>
    BY <2>1, AppendProperties, EmptySeq
  <2> QED BY <1>3, <2>2 DEF HeldInv
<1>5. CASE Answer
  BY <1>3, <1>5 DEF Answer, HeldInv
<1>6. CASE UNCHANGED vars
  <2>1. UNCHANGED <<descriptor, cmdq, irq>>
    BY <1>6 DEF vars, hostVars, cmdVars, endVars
  <2> QED BY <1>1, <1>2, <1>3, <2>1 DEF HeldInv
<1> QED BY <1>4, <1>5, <1>6

\* What Still says is all that a clock without the memories could change.
LEMMA NothingMoves ==
  ASSUME IInv, NEW none \in BOOLEAN, ~none,
         Clock(none, none, none, none), vars' = vars
  PROVE  Still
<1> USE DEF IInv, Types
<1>1. /\ UNCHANGED <<latch, rd_state, wr_state, readdatavalid, pipeline_flush_count,
                     databuffer_wr_req_d, free_space_in_databuf,
                     there_is_space_in_databuf, controller_busy_d>>
  BY DEF vars, cmdVars, rdVars, bufVars, wrVars, endVars
<1>2. none = FALSE
  OBVIOUS
<1>3. (\A i \in 1 .. 7 : ~latch[i]) /\ ~Pop
  <2>1. /\ latch[1] = Pop /\ latch[2] = latch[1] /\ latch[3] = latch[2]
        /\ latch[4] = latch[3] /\ latch[5] = latch[4] /\ latch[6] = latch[5]
        /\ latch[7] = latch[6]
    BY <1>1, LatchStep DEF Clock
  <2>2. latch[1] => ~latch[2]
    BY DEF Phase
  <2> QED BY <2>1, <2>2
<1>4. rd_state # "FLUSH" /\ ~readdatavalid
  BY <1>1, <1>3 DEF Clock, ReadAnswers, latch_this_cmd, ReadTypes
<1>5. rd_state_nxt(FALSE) = rd_state /\ wr_state_nxt(FALSE) = wr_state
  BY <1>1, <1>2 DEF Clock, ReadRequests, Write
<1>6. \A i \in 1 .. 4 : ~databuffer_wr_req_d[i]
  <2>1. ~databuffer_wr_req
    BY <1>4 DEF databuffer_wr_req, StepAt, do_pipe_step
  <2>2. /\ databuffer_wr_req_d'[1] = databuffer_wr_req
        /\ \A i \in 2 .. 4 : databuffer_wr_req_d'[i] = databuffer_wr_req_d[i - 1]
    BY DEF Clock, Buffer
  <2>3. /\ ~databuffer_wr_req_d[1]
        /\ databuffer_wr_req_d[2] = databuffer_wr_req_d[1]
        /\ databuffer_wr_req_d[3] = databuffer_wr_req_d[2]
        /\ databuffer_wr_req_d[4] = databuffer_wr_req_d[3]
    BY <1>1, <2>1, <2>2
  <2> QED BY <2>3
<1>7. /\ free_space_in_databuf = RDDATA_BUFFER_DEPTH - Len(databuf)
      /\ there_is_space_in_databuf = Space
      /\ controller_busy_d = controller_busy
  <2>1. free_space_in_databuf = RDDATA_BUFFER_DEPTH - Len(databuf)
    BY <1>1 DEF Clock, ReadAnswers
  <2>2. Space \in BOOLEAN /\ ~latch_this_cmd
    BY <1>3 DEF Space, latch_this_cmd
  <2>3. there_is_space_in_databuf = Space
    BY <1>1, <2>2, Zenon DEF Clock, ReadAnswers
  <2>4. controller_busy_d = controller_busy
    BY <1>1 DEF Clock, Completion
  <2> QED BY <2>1, <2>3, <2>4
<1> QED BY <1>3, <1>4, <1>5, <1>6, <1>7 DEF Still

LEMMA StillWaits ==
  ASSUME IInv, HeldInv, DrainInv
  PROVE  NeverStuck
<1> USE DEF IInv, Types
<1> SUFFICES ASSUME Still, descriptor # NULL, ~irq,
                    rd_state # "READ", pending = <<>>,
                    wr_state \notin {"WRITE", "WAIT_MAGIC", "MAGIC"}
             PROVE  FALSE
  BY DEF NeverStuck
<1>1. controller_busy
  <2>1. cmdq # <<>> \/ controller_busy \/ controller_busy_d
    <3>1. \A i \in 1 .. 4 : ~latch[i]
      BY DEF Still
    <3> QED BY <3>1 DEF HeldInv
  <2>2. ~(cmdq # <<>> /\ ~controller_busy) /\ (controller_busy_d = controller_busy)
    BY DEF Still, Pop
  <2> QED BY <2>1, <2>2
<1>2. /\ wr_state \in {"WIDLE", "WAIT_DATA"}
      /\ rd_state \in {"IDLE", "PAUSE_READ", "WAIT_FOR_RX_DATA"}
  BY DEF Still, ReadTypes, WriteTypes
<1>3. Len(databuf) \in Nat /\ Len(pending) = 0
  BY LenProperties, EmptySeq DEF WriteTypes
<1>4. outstanding_read_reqs = 0
  BY <1>3 DEF ReadInv, Received, Still
<1>5. local_databuf_usedw = Len(databuf)
  <2>1. Uncounted = 0
    BY DEF Still, Uncounted, Flag
  <2> QED BY <1>3, <2>1 DEF WriteInv, CountInv, WriteTypes
<1>6. wr_state = "WAIT_DATA" => ~EnoughForThisBurst
  BY DEF Still, wr_state_nxt
<1>7. CASE rd_state = "WAIT_FOR_RX_DATA"
  <2>1. readdatavalid_cntr > 0
    BY <1>7 DEF Still, rd_state_nxt
  <2>2. readdatavalid_cntr = 0
    BY <1>3, <1>7 DEF ReadInv, Received, Still
  <2> QED BY <2>1, <2>2
<1>8. CASE rd_state = "PAUSE_READ"
  <2>1. ~Space
    <3>1. ~there_is_space_in_databuf
      BY <1>8 DEF Still, rd_state_nxt, rd_reqs_complete, Requests
    <3> QED BY <3>1 DEF Still
  <2>2. free_space_in_databuf = RDDATA_BUFFER_DEPTH - Len(databuf)
    BY DEF Still
  <2>3. Len(databuf) >= DST_WR_BURSTCOUNT_MAX
    BY <1>3, <1>4, <2>1, <2>2, TransferAssumption DEF Space
  <2>4. wr_xfer_remaining > 0
    BY <1>3, <2>3, TransferAssumption DEF WriteInv, CountInv, WriteTypes
  <2>5. wr_state = "WAIT_DATA"
    BY <1>2, <2>4 DEF WriteInv, CountInv, Sending
  <2> QED BY <1>5, <1>6, <2>3, <2>5 DEF EnoughForThisBurst
<1>9. CASE rd_state = "IDLE"
  <2>1. wr_state = "WAIT_DATA"
    BY <1>1, <1>2, <1>9 DEF controller_busy
  <2>2. databuf_writes_cntr = 0
    BY <1>9, <2>1 DEF DrainInv, Sending
  <2>3. local_databuf_usedw = wr_xfer_remaining
    BY <1>3, <1>5, <2>2 DEF WriteInv, CountInv
  <2> QED BY <1>6, <2>1, <2>3 DEF EnoughForThisBurst
<1> QED BY <1>2, <1>7, <1>8, <1>9

\* dma_data_transfer.sv:341-372, 722-781: reader and writer share the buffer,
\* one waits for room in it and the other for words, and neither is ever waited
\* for when it does not move: a command that is not at its end goes on as soon
\* as a memory takes or returns something, or the dispatcher completes.
THEOREM ChannelNeverStuck == Spec => []NeverStuck
<1>1. Init => HeldInv /\ DrainInv
  BY DEF Init, HeldInv, DrainInv, Sending
<1>2. IInv /\ DataInv /\ HeldInv /\ DrainInv /\ [Next]_vars => HeldInv' /\ DrainInv'
  <2> SUFFICES ASSUME IInv, DataInv, HeldInv, DrainInv, [Next]_vars
               PROVE  HeldInv' /\ DrainInv'
    OBVIOUS
  <2>1. CASE Clocks
    BY <2>1, HeldInvStep, DrainInvStep DEF Clocks, DataInv
  <2>2. CASE ~Clocks
    BY <2>2, OtherHeldInv DEF Next
  <2> QED BY <2>1, <2>2
<1>3. IInv /\ HeldInv /\ DrainInv => NeverStuck
  BY StillWaits
<1> QED BY <1>1, <1>2, <1>3, TransferInvariance, DataInvariance, PTL DEF Spec

=============================================================================
