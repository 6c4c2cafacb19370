---------------------------- MODULE DmaDispatcher ----------------------------
(***************************************************************************)
(* The DMA dispatcher (dma_dispatcher.sv), for one direction: the command  *)
(* registers the host writes, the split of a transfer over the channels    *)
(* and the combination of their completions into one.  The registers of    *)
(* the other direction are a copy of these, named wr_ and rd_.             *)
(*                                                                         *)
(* Every step but those of the host that change no register is a clock of  *)
(* the board (Clock), in which each register takes its next value; the     *)
(* registers have the names of the source.  A channel (dma_data_transfer,  *)
(* see DmaTransfer) takes its next command when it is idle, moves the      *)
(* bytes at a moment of its own and then gives a pulse of one clock.  In   *)
(* the direction to the host channel 0 gives the pulse before it writes    *)
(* the magic number, which it does when all channels have ended.           *)
(*                                                                         *)
(* The host is the driver's send_descriptors: it writes source,            *)
(* destination and a length above 0, waits for the completion, and then    *)
(* writes the next command.  In the direction to the board the wait may    *)
(* also end without one (GiveUp), and the next command is then written     *)
(* whatever the channels still do; in the other direction the driver polls *)
(* for the magic number for ever.  That all three register writes succeed  *)
(* is assumed here; MmdDma has their failures.                             *)
(***************************************************************************)
EXTENDS Integers, Sequences

CONSTANTS
  Commands,     \* the descriptors the host writes
  NULL,
  CMDQ_DEPTH,   \* what a command FIFO holds: 16 (dma_pkg.sv)
  MaxGiveUps    \* bounds the waits that are given up, for TLC

ASSUME CommandsAssumption ==
  /\ Commands \subseteq [src : Nat, dst : Nat, len : Nat \ {0}]
  /\ NULL \notin [src : Nat, dst : Nat, len : Nat]
  /\ CMDQ_DEPTH \in Nat \ {0}

VARIABLES
  NUM_DMA_CHAN, \* of the build: 1 or 2
  dir,          \* "h2f", completed by interrupt, or "f2h", by magic number
  host,         \* the host: "idle", or what it does next, or "waiting"
  command,      \* the command it writes
  cmd,          \* registers ctrl_cmd_src_start_addr, _dst_ and _xfer_length
  new_cmd,      \* ctrl_new_cmd
  new_cmd_d,    \* ctrl_new_cmd_d
  length_ch0,   \* ctrl_cmd_xfer_length_ch0
  start_ch1,    \* ctrl_cmd_src_start_addr_ch1 and _dst_
  ctrl,         \* channel -> the command and new_cmd of its interface
  only_ch0_cmd, \* ctrl_only_ch0_cmd
  rxd_irq, wait_irq,
  xfer_done,    \* host_mem_xfer_done
  queue,        \* channel -> the command FIFO of dma_data_transfer
  chan,         \* channel -> state and current command
  pulse,        \* channel -> irq_pulse, f2h_wait_for_magic_num_wr_pulse
  all_complete, \* all_transfers_complete_latched of channel 0
  answered,     \* the interrupt or the magic number has reached the host
  moved,        \* what has been moved for this command, until one was given up
  given_up      \* how many waits the host has given up

splitVars == <<cmd, new_cmd, new_cmd_d, length_ch0, start_ch1, ctrl,
               only_ch0_cmd>>
doneVars == <<rxd_irq, wait_irq, xfer_done>>
chanVars == <<queue, chan, pulse, all_complete, moved>>
vars == <<NUM_DMA_CHAN, dir, host, command, splitVars, doneVars, chanVars,
          answered, given_up>>

-----------------------------------------------------------------------------
D == INSTANCE DmaDescriptor WITH descriptor <- command, given_up <- given_up > 0

AllChannels == {0, 1}
Channels == 0 .. NUM_DMA_CHAN - 1
NoCommand == [src |-> 0, dst |-> 0, len |-> 0]

\* The length registers have no reset: they may hold anything, and
\* only_ch0_cmd follows.
Init ==
  /\ NUM_DMA_CHAN \in {1, 2}
  /\ dir \in {"h2f", "f2h"}
  /\ host = "idle"
  /\ command = NULL
  /\ cmd \in {NoCommand} \cup Commands
  /\ new_cmd = FALSE
  /\ new_cmd_d = <<FALSE, FALSE, FALSE>>
  /\ length_ch0 = 0
  /\ start_ch1 = [src |-> 0, dst |-> 0]
  /\ ctrl = [c \in AllChannels |-> [cmd |-> NoCommand, new_cmd |-> FALSE]]
  /\ only_ch0_cmd = (cmd.len < 2)
  /\ rxd_irq = [c \in AllChannels |-> FALSE]
  /\ wait_irq = [c \in AllChannels |-> FALSE]
  /\ xfer_done = FALSE
  /\ queue = [c \in AllChannels |-> <<>>]
  /\ chan = [c \in AllChannels |-> [state |-> "idle", cmd |-> NoCommand]]
  /\ pulse = [c \in AllChannels |-> FALSE]
  /\ all_complete = FALSE
  /\ answered = FALSE
  /\ moved = {}
  /\ given_up = 0

-----------------------------------------------------------------------------
(***************************************************************************)
(* The command registers.  write is what the host writes in this clock:    *)
(* "src", "dst", "len" or nothing.                                         *)
(***************************************************************************)
\* Mutant: the pulse is not taken back.
CommandRegistersLevel(write) ==
  /\ cmd' = IF write \in {"src", "dst", "len"}
            THEN [cmd EXCEPT ![write] = command[write]]
            ELSE cmd
  /\ new_cmd' = (new_cmd \/ (write = "len" /\ command.len > 0))

CommandRegisters(write) ==
  /\ cmd' = IF write \in {"src", "dst", "len"}
            THEN [cmd EXCEPT ![write] = command[write]]
            ELSE cmd
  /\ new_cmd' = (write = "len" /\ command.len > 0)

\* Mutant: the odd byte is forgotten.
HalfDown(n) == n \div 2

\* What channel 0 moves: the larger half.
HalfUp(n) == (n \div 2) + (n % 2)

\* One channel: the command goes through a register.
PassCommand ==
  /\ ctrl' = [ctrl EXCEPT ![0] = [cmd |-> cmd, new_cmd |-> new_cmd]]
  /\ UNCHANGED <<new_cmd_d, length_ch0, start_ch1, only_ch0_cmd>>

\* Two: the length of channel 0 takes a clock, the start of channel 1 another,
\* and the pulse of the new command comes when both are there.
SplitCommand ==
  /\ new_cmd_d' = <<new_cmd, new_cmd_d[1], new_cmd_d[2]>>
  /\ length_ch0' = IF new_cmd THEN HalfUp(cmd.len) ELSE length_ch0
  /\ start_ch1' = IF new_cmd_d[1]
                  THEN [src |-> cmd.src + length_ch0, dst |-> cmd.dst + length_ch0]
                  ELSE start_ch1
  /\ ctrl' = [c \in AllChannels |->
        IF c = 0
        THEN [cmd |-> [cmd EXCEPT !.len = length_ch0], new_cmd |-> new_cmd_d[3]]
        ELSE [cmd |-> [src |-> start_ch1.src, dst |-> start_ch1.dst,
                       len |-> cmd.len \div 2],
              new_cmd |-> cmd.len \div 2 # 0 /\ new_cmd_d[3]]]
  /\ only_ch0_cmd' = (cmd.len \div 2 = 0)

\* Mutant: a build with one channel splits the command.
AlwaysSplit == SplitCommand

Dispatch == IF NUM_DMA_CHAN = 1 THEN PassCommand ELSE SplitCommand

-----------------------------------------------------------------------------
(***************************************************************************)
(* Completion.                                                             *)
(***************************************************************************)
\* One channel: its pulse is the completion.
PassDone ==
  /\ xfer_done' = pulse[0]
  /\ UNCHANGED <<rxd_irq, wait_irq>>

\* Mutant: a new command does not clear what has been received.
ForgetsAfterDone == xfer_done

\* When the received pulses are forgotten.
ForgetsReceived == xfer_done \/ new_cmd

\* Mutant: a command for channel 0 only waits for channel 1.
NeverUnasked(c) == FALSE

\* Channel 1 counts as asked and ended while the command is for channel 0 only.
Unasked(c) == c = 1 /\ only_ch0_cmd

\* Two: a channel is waited for from its new command on, and the pulses are
\* latched one by one.
CombineDone ==
  /\ rxd_irq' = [c \in AllChannels |->
        ~ForgetsReceived /\ (rxd_irq[c] \/ pulse[c] \/ Unasked(c))]
  /\ wait_irq' = [c \in AllChannels |->
        ~xfer_done /\ (wait_irq[c] \/ ctrl[c].new_cmd \/ Unasked(c))]
  /\ xfer_done' = (~xfer_done /\ \A c \in AllChannels : wait_irq[c] /\ rxd_irq[c])

Combine == IF NUM_DMA_CHAN = 1 THEN PassDone ELSE CombineDone

-----------------------------------------------------------------------------
(***************************************************************************)
(* The channels.  ends is the set of channels that end in this clock what  *)
(* they do.                                                                *)
(***************************************************************************)
WritesMagic(c) == dir = "f2h" /\ c = 0

NextState(c, ends) ==
  CASE chan[c].state = "idle"  -> IF queue[c] # <<>> THEN "run" ELSE "idle"
    [] chan[c].state = "run"   -> IF c \notin ends THEN "run"
                                  ELSE IF WritesMagic(c) THEN "wait" ELSE "idle"
    [] chan[c].state = "wait"  -> IF all_complete THEN "magic" ELSE "wait"
    [] chan[c].state = "magic" -> IF c \in ends THEN "idle" ELSE "magic"

Pops(c) == chan[c].state = "idle" /\ queue[c] # <<>>
EndsRun(c, ends) == chan[c].state = "run" /\ c \in ends

\* The FIFO is built without overflow checking; a command that finds it full is
\* taken as lost here.
Pushes(c) == ctrl[c].new_cmd /\ Len(queue[c]) < CMDQ_DEPTH

\* The pulse is that of the interrupt, or of the wait for the magic number.
RunChannels(ends) ==
  /\ queue' = [c \in AllChannels |->
        (IF Pops(c) THEN Tail(queue[c]) ELSE queue[c])
          \o (IF Pushes(c) THEN <<ctrl[c].cmd>> ELSE <<>>)]
  /\ chan' = [c \in AllChannels |->
        [state |-> NextState(c, ends),
         cmd   |-> IF Pops(c) THEN Head(queue[c]) ELSE chan[c].cmd]]
  /\ pulse' = [c \in AllChannels |-> EndsRun(c, ends)]
  /\ all_complete' = (chan[0].state # "idle" /\ (all_complete \/ xfer_done))
  /\ moved' = IF given_up > 0 THEN {}
              ELSE moved \cup UNION {D!Bytes(chan[c].cmd) :
                                       c \in {x \in AllChannels : EndsRun(x, ends)}}

\* The interrupt is xfer_done (dma_top.sv); the magic number is written when
\* channel 0 leaves the last state.
Answer(ends) ==
  answered' = (answered \/ IF dir = "h2f" THEN xfer_done
                           ELSE chan[0].state = "magic" /\ 0 \in ends)

-----------------------------------------------------------------------------
(***************************************************************************)
(* The host decides on a command; then writes it, a register in some       *)
(* clock; then waits, and takes the answer.                                *)
(***************************************************************************)
Accept(c) ==
  /\ host = "idle"
  /\ host' = "src"
  /\ command' = c
  /\ moved' = {}
  /\ UNCHANGED <<NUM_DMA_CHAN, dir, splitVars, doneVars, queue, chan, pulse,
                 all_complete, answered, given_up>>

Clock(write, ends) ==
  /\ write \in {host, "none"}
  /\ host' = CASE write = "src" -> "dst"
               [] write = "dst" -> "len"
               [] write = "len" -> "waiting"
               [] OTHER -> host
  /\ CommandRegisters(write)
  /\ Dispatch
  /\ Combine
  /\ RunChannels(ends)
  /\ Answer(ends)
  /\ UNCHANGED <<NUM_DMA_CHAN, dir, command, given_up>>

Clocks == \E write \in {"none", "src", "dst", "len"},
             ends \in SUBSET AllChannels : Clock(write, ends)

TakeAnswer ==
  /\ host = "waiting"
  /\ answered
  /\ host' = "idle"
  /\ command' = NULL
  /\ answered' = FALSE
  /\ UNCHANGED <<NUM_DMA_CHAN, dir, splitVars, doneVars, chanVars, given_up>>

\* The poll for the interrupt times out or fails, or the read of its event
\* fails: send_descriptors returns and the board is left to itself.
GiveUp ==
  /\ host = "waiting"
  /\ dir = "h2f"
  /\ given_up < MaxGiveUps
  /\ host' = "idle"
  /\ command' = NULL
  /\ given_up' = given_up + 1
  /\ UNCHANGED <<NUM_DMA_CHAN, dir, splitVars, doneVars, chanVars, answered>>

Next ==
  \/ \E c \in Commands : Accept(c)
  \/ Clocks
  \/ TakeAnswer
  \/ GiveUp

Spec == Init /\ [][Next]_vars

\* The clock runs, a channel ends what it does (DmaTransfer), and a host that
\* has begun goes on.
FairSpec ==
  /\ Spec
  /\ WF_vars(Clocks)
  /\ \A c \in AllChannels :
       WF_vars(\E write \in {"none", "src", "dst", "len"},
                  ends \in SUBSET AllChannels :
                 /\ c \in ends /\ chan[c].state \in {"run", "magic"}
                 /\ Clock(write, ends))
  /\ WF_vars(\E ends \in SUBSET AllChannels : host \in {"src", "dst", "len"} /\ Clock(host, ends))
  /\ WF_vars(TakeAnswer)

-----------------------------------------------------------------------------
(***************************************************************************)
(* Properties.                                                             *)
(***************************************************************************)
\* The registers have their types (dma_dispatcher.sv:30-45), and no channel
\* beyond those of the build is ever used.
TypeOK ==
  /\ NUM_DMA_CHAN \in {1, 2}
  /\ dir \in {"h2f", "f2h"}
  /\ host \in {"idle", "src", "dst", "len", "waiting"}
  /\ command \in {NULL} \cup Commands
  /\ host = "idle" <=> command = NULL
  /\ cmd \in [src : Nat, dst : Nat, len : Nat]
  /\ new_cmd \in BOOLEAN
  /\ new_cmd_d \in [1 .. 3 -> BOOLEAN]
  /\ length_ch0 \in Nat
  /\ start_ch1 \in [src : Nat, dst : Nat]
  /\ ctrl \in [AllChannels -> [cmd : [src : Nat, dst : Nat, len : Nat],
                               new_cmd : BOOLEAN]]
  /\ only_ch0_cmd \in BOOLEAN
  /\ rxd_irq \in [AllChannels -> BOOLEAN]
  /\ wait_irq \in [AllChannels -> BOOLEAN]
  /\ xfer_done \in BOOLEAN
  /\ queue \in [AllChannels -> Seq([src : Nat, dst : Nat, len : Nat])]
  /\ chan \in [AllChannels -> [state : {"idle", "run", "wait", "magic"},
                               cmd : [src : Nat, dst : Nat, len : Nat]]]
  /\ pulse \in [AllChannels -> BOOLEAN]
  /\ all_complete \in BOOLEAN
  /\ answered \in BOOLEAN
  /\ moved \subseteq Nat \X Nat
  /\ given_up \in Nat
  /\ NUM_DMA_CHAN = 1 => queue[1] = <<>> /\ chan[1].state = "idle"

\* dma_dispatcher.sv:318-365: the completion is raised only when every byte
\* of the command has been moved and no channel is still moving, whatever the
\* latches hold from the command before; until the host has given up a wait.
DoneMeansMoved ==
  given_up = 0 /\ (xfer_done \/ answered) =>
    /\ command # NULL
    /\ moved = D!Bytes(command)
    /\ \A c \in AllChannels : queue[c] = <<>> /\ chan[c].state # "run"

\* dma_data_transfer.sv:181-187: the driver never asks a command FIFO whether
\* it is full.  That of channel 0 is at most one command ahead for every wait the
\* driver has given up, however early; and until it gives one up, no FIFO holds
\* more than one command and no channel gets one while it is at work.
FifoBacklog ==
  /\ Len(queue[0]) <= given_up + 1
  /\ given_up = 0 =>
       \A c \in AllChannels :
         /\ Len(queue[c]) <= 1
         /\ queue[c] # <<>> => chan[c].state = "idle" /\ ~ctrl[c].new_cmd

\* dma_data_transfer.sv:8-17 and mmd_dma.cpp:258-266: however a command is
\* split and its parts end, it is moved as one, until the host gives up a wait.
ImplementsDescriptor == D!Spec

\* mmd_dma.cpp:311-384, which waits for it: a command whose wait is not given up
\* is answered, if none was given up before it.
EveryCommandAnswered == command # NULL ~> command = NULL \/ given_up > 0

=============================================================================
