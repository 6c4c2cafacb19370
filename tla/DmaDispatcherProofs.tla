------------------------- MODULE DmaDispatcherProofs -------------------------
(***************************************************************************)
(* The dispatcher implements the descriptor interface for every command    *)
(* and both numbers of channels: the parts of a command make the whole,    *)
(* and its completion is raised once they have all been moved.  This lasts *)
(* until the host gives up a wait; what is left afterwards is a bound on   *)
(* the commands of channel 0 that are on their way (Backlog).              *)
(***************************************************************************)
EXTENDS DmaDispatcher, SequenceTheorems, TLAPS

Register == [src : Nat, dst : Nat, len : Nat]
Interface == [cmd : Register, new_cmd : BOOLEAN]
Channel == [state : {"idle", "run", "wait", "magic"}, cmd : Register]

-----------------------------------------------------------------------------
(***************************************************************************)
(* The parts of the command.                                               *)
(***************************************************************************)
Half(n) == n \div 2

Part(c) ==
  IF NUM_DMA_CHAN = 1 THEN command
  ELSE IF c = 0
       THEN [src |-> command.src, dst |-> command.dst,
             len |-> HalfUp(command.len)]
       ELSE [src |-> command.src + HalfUp(command.len),
             dst |-> command.dst + HalfUp(command.len),
             len |-> Half(command.len)]

\* The channels that get one.
AsksSecond == NUM_DMA_CHAN = 2 /\ Half(command.len) # 0
Asked == {0} \cup IF AsksSecond THEN {1} ELSE {}

LEMMA HalvesType ==
  ASSUME NEW n \in Nat
  PROVE  /\ HalfUp(n) \in Nat /\ Half(n) \in Nat
         /\ HalfUp(n) + Half(n) = n
  BY DEF HalfUp, Half

\* Adjacent ranges of bytes make one.
LEMMA Adjacent ==
  ASSUME NEW s \in Nat, NEW d \in Nat, NEW m \in Nat, NEW n \in Nat
  PROVE  D!Bytes([src |-> s, dst |-> d, len |-> m])
           \cup D!Bytes([src |-> s + m, dst |-> d + m, len |-> n])
         = D!Bytes([src |-> s, dst |-> d, len |-> m + n])
<1> DEFINE A == {<<s + k, d + k>> : k \in 0 .. m - 1}
           B == {<<(s + m) + k, (d + m) + k>> : k \in 0 .. n - 1}
           C == {<<s + k, d + k>> : k \in 0 .. (m + n) - 1}
<1>1. A \subseteq C
  <2>1. 0 .. m - 1 \subseteq 0 .. (m + n) - 1
    OBVIOUS
  <2> QED BY <2>1
<1>2. B \subseteq C
  <2> SUFFICES ASSUME NEW k \in 0 .. n - 1
               PROVE  <<(s + m) + k, (d + m) + k>> \in C
    OBVIOUS
  <2>1. /\ m + k \in 0 .. (m + n) - 1
        /\ (s + m) + k = s + (m + k) /\ (d + m) + k = d + (m + k)
    OBVIOUS
  <2> QED BY <2>1
<1>3. C \subseteq A \cup B
  <2> SUFFICES ASSUME NEW k \in 0 .. (m + n) - 1
               PROVE  <<s + k, d + k>> \in A \cup B
    OBVIOUS
  <2>1. CASE k < m
    <3>1. k \in 0 .. m - 1
      BY <2>1
    <3> QED BY <3>1
  <2>2. CASE ~(k < m)
    <3>1. /\ k - m \in 0 .. n - 1
          /\ (s + m) + (k - m) = s + k /\ (d + m) + (k - m) = d + k
      BY <2>2
    <3>2. <<(s + m) + (k - m), (d + m) + (k - m)>> \in B
      BY <3>1
    <3> QED BY <3>1, <3>2
  <2> QED BY <2>1, <2>2
<1>4. A \cup B = C
  BY <1>1, <1>2, <1>3
<1> QED BY <1>4 DEF D!Bytes

LEMMA CommandType ==
  ASSUME NEW c \in Commands
  PROVE  /\ c \in Register /\ c # NULL
         /\ c.src \in Nat /\ c.dst \in Nat /\ c.len \in Nat /\ c.len > 0
         /\ c = [src |-> c.src, dst |-> c.dst, len |-> c.len]
  BY CommandsAssumption DEF Register

\* The parts that are given to channels make the command.
LEMMA PartsMakeCommand ==
  ASSUME command \in Commands, NUM_DMA_CHAN \in {1, 2}
  PROVE  /\ Part(0) \in Register /\ Part(1) \in Register
         /\ D!Bytes(Part(0)) \subseteq D!Bytes(command)
         /\ AsksSecond => D!Bytes(Part(1)) \subseteq D!Bytes(command)
         /\ D!Bytes(Part(0)) \cup (IF AsksSecond THEN D!Bytes(Part(1)) ELSE {})
              = D!Bytes(command)
<1>1. /\ command \in Register
      /\ command.src \in Nat /\ command.dst \in Nat /\ command.len \in Nat
      /\ command = [src |-> command.src, dst |-> command.dst,
                    len |-> command.len]
  BY CommandType
<1>2. CASE NUM_DMA_CHAN = 1
  BY <1>1, <1>2 DEF Part, AsksSecond
<1>3. CASE NUM_DMA_CHAN = 2
  <2> DEFINE m == HalfUp(command.len)
             n == Half(command.len)
  <2>1. m \in Nat /\ n \in Nat /\ m + n = command.len
    BY <1>1, HalvesType
  <2> HIDE DEF m, n
  <2>2. /\ Part(0) = [src |-> command.src, dst |-> command.dst, len |-> m]
        /\ Part(1) = [src |-> command.src + m, dst |-> command.dst + m,
                      len |-> n]
    BY <1>3 DEF Part, m, n
  <2>3. D!Bytes(Part(0)) \cup D!Bytes(Part(1)) = D!Bytes(command)
    BY <1>1, <2>1, <2>2, Adjacent
  <2>4. Part(0) \in Register /\ Part(1) \in Register
    BY <1>1, <2>1, <2>2 DEF Register
  <2>5. CASE n = 0
    <3>1. Part(0) = command
      BY <1>1, <2>1, <2>2, <2>5
    <3> QED BY <2>3, <2>4, <2>5, <3>1 DEF AsksSecond, n
  <2>6. CASE n # 0
    BY <1>3, <2>3, <2>4, <2>6 DEF AsksSecond, n
  <2> QED BY <2>5, <2>6
<1> QED BY <1>2, <1>3

-----------------------------------------------------------------------------
(***************************************************************************)
(* The inductive invariant up to the first wait that is given up: where    *)
(* the command is.  It goes through the registers of the split as one      *)
(* pulse (OnWay), is then in the channels (Working), and its completion    *)
(* goes back to the host.                                                  *)
(***************************************************************************)
Whole == moved = D!Bytes(command)

\* The pulse of the new command is in the i-th register of its way, 0: in none.
OnWay(i) ==
  /\ new_cmd <=> i = 1
  /\ new_cmd_d[1] <=> i = 2
  /\ new_cmd_d[2] <=> i = 3
  /\ new_cmd_d[3] <=> i = 4
  /\ ctrl[0].new_cmd <=> i = 5
  /\ ctrl[1].new_cmd <=> (i = 5 /\ AsksSecond)

Rest(c) == queue[c] = <<>> /\ chan[c].state = "idle" /\ ~pulse[c]

Preparing ==
  /\ host # "waiting"
  /\ OnWay(0) /\ Rest(0) /\ Rest(1)
  /\ ~xfer_done /\ ~answered /\ ~rxd_irq[0]
  /\ all_complete => host \in {"idle", "src"}
  /\ host # "idle" => moved = {}
  /\ host \in {"dst", "len"} => cmd.src = command.src
  /\ host = "len" => cmd.dst = command.dst

Sent(i) ==
  /\ NUM_DMA_CHAN = 1 => i \in {1, 5}
  /\ host = "waiting"
  /\ OnWay(i) /\ Rest(0) /\ Rest(1)
  /\ ~xfer_done /\ ~answered /\ ~rxd_irq[0] /\ ~all_complete
  /\ moved = {}
  /\ i > 1 /\ AsksSecond => ~rxd_irq[1]
  /\ i = 5 => /\ ctrl[0].cmd = Part(0)
              /\ AsksSecond => ctrl[1].cmd = Part(1)

Queued(c) == /\ queue[c] = <<Part(c)>> /\ chan[c].state = "idle"
             /\ ~pulse[c] /\ ~rxd_irq[c]
Running(c) == /\ queue[c] = <<>> /\ chan[c].state = "run"
              /\ chan[c].cmd = Part(c)
              /\ ~pulse[c] /\ ~rxd_irq[c]
Ended(c) == /\ queue[c] = <<>>
            /\ chan[c].state = IF WritesMagic(c) THEN "wait" ELSE "idle"
            /\ pulse[c] <=> ~rxd_irq[c]
At(c) == Queued(c) \/ Running(c) \/ Ended(c)

Working ==
  /\ host = "waiting"
  /\ OnWay(0)
  /\ ~xfer_done /\ ~answered /\ ~all_complete
  /\ At(0)
  /\ IF AsksSecond THEN At(1) ELSE Rest(1)
  /\ moved = (IF Ended(0) THEN D!Bytes(Part(0)) ELSE {})
       \cup (IF AsksSecond /\ Ended(1) THEN D!Bytes(Part(1)) ELSE {})

Finishing ==
  /\ host = "waiting"
  /\ OnWay(0) /\ Rest(1)
  /\ xfer_done /\ ~answered /\ ~all_complete
  /\ queue[0] = <<>> /\ ~pulse[0]
  /\ chan[0].state = IF WritesMagic(0) THEN "wait" ELSE "idle"
  /\ Whole

Magic ==
  /\ host = "waiting"
  /\ OnWay(0) /\ Rest(1)
  /\ ~xfer_done /\ ~answered /\ all_complete /\ ~rxd_irq[0]
  /\ dir = "f2h"
  /\ queue[0] = <<>> /\ ~pulse[0] /\ chan[0].state \in {"wait", "magic"}
  /\ Whole

Answered ==
  /\ host = "waiting"
  /\ OnWay(0) /\ Rest(0) /\ Rest(1)
  /\ ~xfer_done /\ answered /\ ~rxd_irq[0]
  /\ Whole

\* With one channel nothing is latched and channel 1 is not there.
OneChannel ==
  NUM_DMA_CHAN = 1 => /\ ~rxd_irq[0] /\ ~rxd_irq[1]
                      /\ Rest(1)

\* The parts are computed in the clocks behind the new command.
PartsComputed ==
  host = "waiting" =>
    /\ cmd = command
    /\ NUM_DMA_CHAN = 2 /\ ~new_cmd =>
         /\ length_ch0 = HalfUp(command.len)
         /\ only_ch0_cmd <=> Half(command.len) = 0
         /\ ~new_cmd_d[1] => start_ch1 = [src |-> command.src + length_ch0,
                                          dst |-> command.dst + length_ch0]

Stage ==
  \/ Preparing
  \/ \E i \in 1 .. 5 : Sent(i)
  \/ Working
  \/ Finishing
  \/ Magic
  \/ Answered

IInv == TypeOK /\ given_up = 0 /\ OneChannel /\ PartsComputed /\ Stage

-----------------------------------------------------------------------------
(***************************************************************************)
(* What one clock does to each part.                                       *)
(***************************************************************************)
LEMMA PartsStay ==
  ASSUME UNCHANGED <<NUM_DMA_CHAN, command>>
  PROVE  /\ Part(0)' = Part(0) /\ Part(1)' = Part(1)
         /\ AsksSecond' <=> AsksSecond
  BY DEF Part, AsksSecond

\* The pulse goes on by a register in a clock.
LEMMA PulseMoves ==
  ASSUME TypeOK, UNCHANGED <<NUM_DMA_CHAN, command>>,
         NEW i \in 0 .. 5, OnWay(i), NUM_DMA_CHAN = 1 => i \in {0, 1, 5},
         i # 0 => cmd = command,
         NEW write, CommandRegisters(write), Dispatch,
         write = "len" => i = 0 /\ command \in Commands,
         NEW k \in 0 .. 5,
         k = IF write = "len" THEN 1
             ELSE IF i \in {0, 5} THEN 0
             ELSE IF NUM_DMA_CHAN = 1 THEN 5 ELSE i + 1
  PROVE  OnWay(k)'
<1>1. write = "len" => command.len > 0
  BY CommandType
<1>a. NUM_DMA_CHAN \in {1, 2}
  BY DEF TypeOK
<1>b. /\ k = 1 <=> write = "len"
      /\ NUM_DMA_CHAN = 1 => (k = 5 <=> i = 1) /\ k \in {0, 1, 5}
      /\ NUM_DMA_CHAN = 2 => /\ k = 2 <=> i = 1
                             /\ k = 3 <=> i = 2
                             /\ k = 4 <=> i = 3
                             /\ k = 5 <=> i = 4
  BY <1>a
<1>2. new_cmd' <=> k = 1
  <2>1. new_cmd' <=> write = "len" /\ command.len > 0
    BY DEF CommandRegisters
  <2> QED BY <1>1, <1>b, <2>1
<1>3. CASE NUM_DMA_CHAN = 1
  <2>1. /\ ctrl' = [ctrl EXCEPT ![0] = [cmd |-> cmd, new_cmd |-> new_cmd]]
        /\ new_cmd_d' = new_cmd_d
    BY <1>3 DEF Dispatch, PassCommand
  <2>2. ctrl'[0].new_cmd = new_cmd /\ ctrl'[1] = ctrl[1]
    BY <2>1 DEF TypeOK, AllChannels
  <2>3. ~AsksSecond /\ ~AsksSecond'
    BY <1>3, PartsStay DEF AsksSecond
  <2> QED BY <1>2, <1>3, <1>b, <2>1, <2>2, <2>3 DEF OnWay
<1>4. CASE NUM_DMA_CHAN = 2
  <2>1. SplitCommand
    BY <1>4 DEF Dispatch
  <2>2. /\ new_cmd_d'[1] = new_cmd /\ new_cmd_d'[2] = new_cmd_d[1]
        /\ new_cmd_d'[3] = new_cmd_d[2]
    BY <2>1 DEF SplitCommand
  <2>3. /\ ctrl'[0].new_cmd = new_cmd_d[3]
        /\ ctrl'[1].new_cmd = (cmd.len \div 2 # 0 /\ new_cmd_d[3])
    BY <2>1 DEF SplitCommand, AllChannels
  <2>4. ctrl'[1].new_cmd <=> (k = 5 /\ AsksSecond)
    <3>1. CASE i = 4
      <4>1. new_cmd_d[3] /\ cmd = command /\ k = 5
        BY <1>4, <1>b, <3>1 DEF OnWay
      <4> QED BY <1>4, <2>3, <4>1 DEF AsksSecond, Half
    <3>2. CASE i # 4
      <4>1. ~new_cmd_d[3] /\ k # 5
        BY <1>4, <1>b, <3>2 DEF OnWay
      <4> QED BY <2>3, <4>1
    <3> QED BY <3>1, <3>2
  <2>5. /\ new_cmd_d'[1] <=> k = 2
        /\ new_cmd_d'[2] <=> k = 3
        /\ new_cmd_d'[3] <=> k = 4
        /\ ctrl'[0].new_cmd <=> k = 5
    BY <1>4, <1>b, <2>2, <2>3 DEF OnWay
  <2> QED BY <1>2, <2>4, <2>5, PartsStay DEF OnWay
<1> QED BY <1>3, <1>4 DEF TypeOK

\* The registers of the split hold the parts when they are used.
LEMMA PartsReach ==
  ASSUME TypeOK, command \in Commands, host = "waiting", PartsComputed,
         NEW i \in 1 .. 5, OnWay(i),
         IF NUM_DMA_CHAN = 1 THEN i = 1 ELSE i = 4,
         Dispatch
  PROVE  /\ ctrl'[0].cmd = Part(0)
         /\ AsksSecond => ctrl'[1].cmd = Part(1)
<1>1. cmd = command
  BY DEF PartsComputed
<1>2. CASE NUM_DMA_CHAN = 1
  <2>1. ctrl'[0].cmd = cmd
    BY <1>2 DEF Dispatch, PassCommand, TypeOK, AllChannels
  <2> QED BY <1>1, <1>2, <2>1 DEF Part, AsksSecond
<1>3. CASE NUM_DMA_CHAN = 2
  <2>1. /\ length_ch0 = HalfUp(command.len)
        /\ start_ch1 = [src |-> command.src + length_ch0,
                        dst |-> command.dst + length_ch0]
    BY <1>3 DEF PartsComputed, OnWay
  <2>2. /\ ctrl'[0].cmd = [cmd EXCEPT !.len = length_ch0]
        /\ ctrl'[1].cmd = [src |-> start_ch1.src, dst |-> start_ch1.dst,
                           len |-> cmd.len \div 2]
    BY <1>3 DEF Dispatch, SplitCommand, AllChannels
  <2>3. command = [src |-> command.src, dst |-> command.dst,
                   len |-> command.len]
    BY CommandType
  <2>4. ctrl'[0].cmd = Part(0)
    BY <1>1, <1>3, <2>1, <2>2, <2>3 DEF Part
  <2>5. ctrl'[1].cmd = Part(1)
    BY <1>1, <1>3, <2>1, <2>2 DEF Part, Half
  <2> QED BY <2>4, <2>5
<1> QED BY <1>2, <1>3 DEF TypeOK

\* What a clock does to a command FIFO, unless it meets the end of it.
LEMMA QueueStep ==
  ASSUME NEW c \in AllChannels, NEW ends, RunChannels(ends)
  PROVE  /\ ~ctrl[c].new_cmd =>
              queue'[c] = (IF Pops(c) THEN Tail(queue[c]) ELSE queue[c]) \o <<>>
         /\ ctrl[c].new_cmd /\ queue[c] = <<>> =>
              queue'[c] = queue[c] \o <<ctrl[c].cmd>>
<1>1. queue'[c] = (IF Pops(c) THEN Tail(queue[c]) ELSE queue[c])
                    \o (IF Pushes(c) THEN <<ctrl[c].cmd>> ELSE <<>>)
  BY DEF RunChannels
<1>2. ~ctrl[c].new_cmd => ~Pushes(c)
  BY DEF Pushes
<1>3. queue[c] = <<>> => ~Pops(c)
  BY DEF Pops
<1>4. ctrl[c].new_cmd /\ queue[c] = <<>> => Pushes(c)
  BY CommandsAssumption DEF Pushes
<1> QED BY <1>1, <1>2, <1>3, <1>4

\* A channel that has nothing to do stays at rest.
LEMMA RestStays ==
  ASSUME TypeOK, NEW c \in AllChannels, Rest(c), ~ctrl[c].new_cmd,
         NEW ends, RunChannels(ends)
  PROVE  Rest(c)'
<1>1. /\ queue'[c] = queue[c] \o <<>>
      /\ chan'[c].state = "idle"
      /\ pulse'[c] = EndsRun(c, ends)
  BY QueueStep DEF RunChannels, Rest, Pops, NextState
<1>2. ~EndsRun(c, ends)
  BY DEF EndsRun, Rest
<1>3. queue'[c] = <<>>
  BY <1>1 DEF Rest
<1> QED BY <1>1, <1>2, <1>3 DEF Rest

\* A channel at rest takes the part it is given.
LEMMA PartIsQueued ==
  ASSUME TypeOK, NEW c \in AllChannels, Rest(c), ctrl[c].new_cmd,
         ctrl[c].cmd = Part(c), ~rxd_irq'[c],
         NEW ends, RunChannels(ends), UNCHANGED <<NUM_DMA_CHAN, command>>
  PROVE  Queued(c)' /\ ~EndsRun(c, ends)
<1>1. /\ queue'[c] = queue[c] \o <<ctrl[c].cmd>>
      /\ chan'[c].state = "idle"
      /\ pulse'[c] = EndsRun(c, ends)
  BY QueueStep DEF RunChannels, Rest, Pops, NextState
<1>2. ~EndsRun(c, ends)
  BY DEF EndsRun, Rest
<1>3. queue'[c] = <<Part(c)>>
  BY <1>1 DEF Rest
<1>4. Part(c)' = Part(c)
  BY DEF Part
<1> QED BY <1>1, <1>2, <1>3, <1>4 DEF Queued

\* A channel that has been asked goes on to its end.
LEMMA ChannelRuns ==
  ASSUME TypeOK, NEW c \in AllChannels, At(c), ~ctrl[c].new_cmd, ~all_complete,
         NEW ends, RunChannels(ends), UNCHANGED <<NUM_DMA_CHAN, command, dir>>,
         rxd_irq'[c] <=> rxd_irq[c] \/ pulse[c]
  PROVE  /\ At(c)'
         /\ EndsRun(c, ends) => Running(c)
         /\ Ended(c)' <=> Ended(c) \/ EndsRun(c, ends)
<1>1. /\ queue'[c] = (IF Pops(c) THEN Tail(queue[c]) ELSE queue[c]) \o <<>>
      /\ chan'[c].state = NextState(c, ends)
      /\ chan'[c].cmd = IF Pops(c) THEN Head(queue[c]) ELSE chan[c].cmd
      /\ pulse'[c] = EndsRun(c, ends)
  BY QueueStep DEF RunChannels
<1>2. Part(c)' = Part(c) /\ WritesMagic(c)' = WritesMagic(c)
  BY DEF Part, WritesMagic
<1>3. CASE Queued(c)
  <2>1. Pops(c) /\ ~EndsRun(c, ends)
    BY <1>3 DEF Queued, Pops, EndsRun
  <2>2. queue'[c] = <<>> /\ chan'[c].cmd = Part(c)
    BY <1>1, <1>3, <2>1 DEF Queued
  <2>3. chan'[c].state = "run"
    BY <1>1, <1>3 DEF Queued, NextState
  <2>4. ~pulse'[c] /\ ~rxd_irq'[c]
    BY <1>1, <1>3, <2>1 DEF Queued
  <2>5. Running(c)'
    BY <1>2, <2>2, <2>3, <2>4 DEF Running
  <2>6. ~Ended(c) /\ ~Ended(c)'
    BY <1>3, <2>3 DEF Queued, Ended
  <2> QED BY <2>1, <2>5, <2>6 DEF At
<1>4. CASE Running(c)
  <2>1. ~Pops(c) /\ (EndsRun(c, ends) <=> c \in ends)
    BY <1>4 DEF Running, Pops, EndsRun
  <2>2. queue'[c] = <<>> /\ chan'[c].cmd = Part(c)
    BY <1>1, <1>4, <2>1 DEF Running
  <2>3. ~Ended(c) /\ ~rxd_irq'[c]
    BY <1>4 DEF Running, Ended
  <2>4. CASE c \in ends
    <3>1. chan'[c].state = IF WritesMagic(c) THEN "wait" ELSE "idle"
      BY <1>1, <1>4, <2>4 DEF Running, NextState
    <3>2. Ended(c)'
      BY <1>1, <1>2, <2>1, <2>2, <2>3, <2>4, <3>1 DEF Ended
    <3> QED BY <1>4, <2>1, <2>4, <3>2 DEF At
  <2>5. CASE c \notin ends
    <3>1. chan'[c].state = "run"
      BY <1>1, <1>4, <2>5 DEF Running, NextState
    <3>2. Running(c)' /\ ~Ended(c)'
      BY <1>1, <1>2, <2>1, <2>2, <2>3, <2>5, <3>1 DEF Running, Ended
    <3> QED BY <2>1, <2>3, <2>5, <3>2 DEF At
  <2> QED BY <2>4, <2>5
<1>5. CASE Ended(c)
  <2>1. ~Pops(c) /\ ~EndsRun(c, ends)
    BY <1>5 DEF Ended, Pops, EndsRun
  <2>2. queue'[c] = <<>> /\ ~pulse'[c] /\ rxd_irq'[c]
    BY <1>1, <1>5, <2>1 DEF Ended
  <2>3. chan'[c].state = chan[c].state
    BY <1>1, <1>5 DEF Ended, NextState
  <2>4. Ended(c)'
    BY <1>2, <1>5, <2>2, <2>3 DEF Ended
  <2> QED BY <1>5, <2>1, <2>4 DEF At
<1> QED BY <1>3, <1>4, <1>5 DEF At

\* What is moved in a clock is what the channels that end have run.
LEMMA MovedStep ==
  ASSUME given_up = 0, NEW ends, RunChannels(ends)
  PROVE  moved' = (moved \cup (IF EndsRun(0, ends) THEN D!Bytes(chan[0].cmd) ELSE {}))
                   \cup (IF EndsRun(1, ends) THEN D!Bytes(chan[1].cmd) ELSE {})
<1> DEFINE E == {x \in AllChannels : EndsRun(x, ends)}
<1>1. moved' = moved \cup UNION {D!Bytes(chan[c].cmd) : c \in E}
  BY DEF RunChannels
<1>2. 0 \in E <=> EndsRun(0, ends)
  BY DEF AllChannels
<1>3. 1 \in E <=> EndsRun(1, ends)
  BY DEF AllChannels
<1>4. E \subseteq {0, 1}
  BY DEF AllChannels
<1> HIDE DEF E
<1>5. UNION {D!Bytes(chan[c].cmd) : c \in E}
        = (IF 0 \in E THEN D!Bytes(chan[0].cmd) ELSE {})
            \cup (IF 1 \in E THEN D!Bytes(chan[1].cmd) ELSE {})
  BY <1>4
<1> QED BY <1>1, <1>2, <1>3, <1>5

\* Only a running channel ends its run.
LEMMA RestMovesNothing ==
  ASSUME NEW c \in AllChannels, NEW ends, chan[c].state # "run"
  PROVE  ~EndsRun(c, ends)
  BY DEF EndsRun

LEMMA BytesType ==
  ASSUME NEW c \in Register
  PROVE  D!Bytes(c) \subseteq Nat \X Nat
  BY DEF D!Bytes, Register

-----------------------------------------------------------------------------
(***************************************************************************)
(* Types.                                                                  *)
(***************************************************************************)
LEMMA InitInv == Init => IInv
<1> SUFFICES ASSUME Init PROVE IInv
  OBVIOUS
<1>1. /\ NoCommand \in Register
      /\ cmd \in Register
  BY CommandsAssumption DEF Init, NoCommand, Register
<1>2. TypeOK
  <2>1. [c \in AllChannels |-> <<>>] \in [AllChannels -> Seq(Register)]
    OBVIOUS
  <2>2. <<FALSE, FALSE, FALSE>> \in [1 .. 3 -> BOOLEAN]
    <3>1. /\ <<FALSE, FALSE, FALSE>> \in Seq(BOOLEAN)
          /\ Len(<<FALSE, FALSE, FALSE>>) = 3
      OBVIOUS
    <3> QED BY <3>1, LenProperties
  <2>3. ctrl \in [AllChannels -> Interface] /\ chan \in [AllChannels -> Channel]
    BY <1>1 DEF Init, Interface, Channel
  <2>4. /\ rxd_irq \in [AllChannels -> BOOLEAN]
        /\ wait_irq \in [AllChannels -> BOOLEAN]
        /\ pulse \in [AllChannels -> BOOLEAN]
    BY DEF Init
  <2>5. /\ only_ch0_cmd \in BOOLEAN /\ new_cmd \in BOOLEAN
        /\ xfer_done \in BOOLEAN /\ all_complete \in BOOLEAN
        /\ answered \in BOOLEAN
    <3>1. (cmd.len < 2) \in BOOLEAN
      BY <1>1 DEF Register
    <3> QED BY <3>1, Zenon DEF Init
  <2>6. /\ queue \in [AllChannels -> Seq(Register)] /\ queue[1] = <<>>
        /\ chan[1].state = "idle"
    BY <2>1 DEF Init, AllChannels
  <2>7. /\ host = "idle" /\ command = NULL /\ length_ch0 \in Nat
        /\ start_ch1 \in [src : Nat, dst : Nat] /\ moved \subseteq Nat \X Nat
        /\ NUM_DMA_CHAN \in {1, 2} /\ dir \in {"h2f", "f2h"}
        /\ new_cmd_d = <<FALSE, FALSE, FALSE>> /\ given_up \in Nat
    BY DEF Init
  <2> QED BY <1>1, <2>2, <2>3, <2>4, <2>5, <2>6, <2>7
       DEF TypeOK, Register, Interface, Channel
<1>3. OnWay(0)
  BY DEF Init, OnWay, AllChannels
<1>4. Rest(0) /\ Rest(1) /\ ~rxd_irq[0] /\ ~rxd_irq[1]
  BY DEF Init, Rest, AllChannels
<1>5. Preparing
  BY <1>3, <1>4 DEF Init, Preparing
<1> QED BY <1>2, <1>4, <1>5
     DEF IInv, OneChannel, PartsComputed, Stage, Init

LEMMA ClockTypes ==
  ASSUME TypeOK, NUM_DMA_CHAN = 1 => ~ctrl[1].new_cmd,
         NEW write, NEW ends, Clock(write, ends)
  PROVE  TypeOK'
<1>1. /\ write \in {"src", "dst", "len"} => write = host /\ command \in Commands
      /\ UNCHANGED <<NUM_DMA_CHAN, dir, command>>
      /\ host \in {"idle", "src", "dst", "len", "waiting"}
      /\ cmd \in Register /\ command \in {NULL} \cup Commands
  BY DEF Clock, TypeOK, Register
<1>2. /\ host' \in {"idle", "src", "dst", "len", "waiting"}
      /\ host' = "idle" <=> command' = NULL
  BY <1>1 DEF Clock, TypeOK
<1>3. cmd' \in Register
  <2>1. CASE write = "src"
    BY <1>1, <2>1, CommandType DEF Clock, CommandRegisters, Register
  <2>2. CASE write = "dst"
    BY <1>1, <2>2, CommandType DEF Clock, CommandRegisters, Register
  <2>3. CASE write = "len"
    BY <1>1, <2>3, CommandType DEF Clock, CommandRegisters, Register
  <2>4. CASE write \notin {"src", "dst", "len"}
    BY <1>1, <2>4 DEF Clock, CommandRegisters
  <2> QED BY <2>1, <2>2, <2>3, <2>4
<1>4. /\ new_cmd' \in BOOLEAN
      /\ new_cmd_d' \in [1 .. 3 -> BOOLEAN]
      /\ length_ch0' \in Nat
      /\ start_ch1' \in [src : Nat, dst : Nat]
      /\ ctrl' \in [AllChannels -> Interface]
      /\ only_ch0_cmd' \in BOOLEAN
  <2>0. /\ new_cmd \in BOOLEAN /\ new_cmd_d \in [1 .. 3 -> BOOLEAN]
        /\ length_ch0 \in Nat /\ start_ch1 \in [src : Nat, dst : Nat]
        /\ ctrl \in [AllChannels -> Interface] /\ only_ch0_cmd \in BOOLEAN
        /\ cmd.src \in Nat /\ cmd.dst \in Nat /\ cmd.len \in Nat
        /\ NUM_DMA_CHAN \in {1, 2}
    BY <1>1 DEF TypeOK, Register, Interface
  <2>1. new_cmd' \in BOOLEAN
    BY DEF Clock, CommandRegisters
  <2>2. CASE NUM_DMA_CHAN = 1
    BY <1>1, <2>0, <2>1, <2>2 DEF Clock, Dispatch, PassCommand, Interface, AllChannels
  <2>3. CASE NUM_DMA_CHAN = 2
    <3>0. SplitCommand
      BY <2>3 DEF Clock, Dispatch
    <3>1. HalfUp(cmd.len) \in Nat /\ cmd.len \div 2 \in Nat
      BY <2>0 DEF HalfUp
    <3>2. new_cmd_d' \in [1 .. 3 -> BOOLEAN] /\ only_ch0_cmd' \in BOOLEAN
      BY <2>0, <3>0 DEF SplitCommand
    <3>3. length_ch0' \in Nat /\ start_ch1' \in [src : Nat, dst : Nat]
      BY <2>0, <3>0, <3>1 DEF SplitCommand
    <3>4. ctrl' \in [AllChannels -> Interface]
      <4>1. [cmd EXCEPT !.len = length_ch0] \in Register
        BY <1>1, <2>0 DEF Register
      <4>2. [src |-> start_ch1.src, dst |-> start_ch1.dst,
             len |-> cmd.len \div 2] \in Register
        BY <2>0, <3>1 DEF Register
      <4>3. new_cmd_d[3] \in BOOLEAN
        BY <2>0
      <4> QED BY <3>0, <4>1, <4>2, <4>3 DEF SplitCommand, Interface
    <3> QED BY <2>1, <3>2, <3>3, <3>4
  <2> QED BY <2>0, <2>2, <2>3
<1>5. /\ rxd_irq' \in [AllChannels -> BOOLEAN]
      /\ wait_irq' \in [AllChannels -> BOOLEAN]
      /\ xfer_done' \in BOOLEAN
  <2>1. CASE NUM_DMA_CHAN = 1
    BY <2>1 DEF Clock, Combine, PassDone, TypeOK, AllChannels
  <2>2. CASE NUM_DMA_CHAN = 2
    <3>1. CombineDone
      BY <2>2 DEF Clock, Combine
    <3>2. rxd_irq' \in [AllChannels -> BOOLEAN]
      BY <3>1 DEF CombineDone
    <3>3. wait_irq' \in [AllChannels -> BOOLEAN]
      BY <3>1 DEF CombineDone
    <3> QED BY <3>1, <3>2, <3>3 DEF CombineDone
  <2> QED BY <2>1, <2>2 DEF TypeOK
<1>6. RunChannels(ends)
  BY DEF Clock
<1>7. queue' \in [AllChannels -> Seq(Register)]
  <2> SUFFICES ASSUME NEW c \in AllChannels
               PROVE  (IF Pops(c) THEN Tail(queue[c]) ELSE queue[c])
                        \o (IF Pushes(c) THEN <<ctrl[c].cmd>> ELSE <<>>)
                        \in Seq(Register)
    BY <1>6 DEF RunChannels
  <2>1. queue[c] \in Seq(Register) /\ ctrl[c].cmd \in Register
    BY DEF TypeOK, Register
  <2>2. Pops(c) => Tail(queue[c]) \in Seq(Register)
    BY <2>1 DEF Pops
  <2> QED BY <2>1, <2>2
<1>8. chan' \in [AllChannels -> Channel]
  <2> SUFFICES ASSUME NEW c \in AllChannels
               PROVE  /\ NextState(c, ends) \in {"idle", "run", "wait", "magic"}
                      /\ (IF Pops(c) THEN Head(queue[c]) ELSE chan[c].cmd)
                           \in Register
    BY <1>6 DEF RunChannels, Channel
  <2>1. /\ queue[c] \in Seq(Register) /\ chan[c].cmd \in Register
        /\ chan[c].state \in {"idle", "run", "wait", "magic"}
    BY DEF TypeOK, Register
  <2>2. Pops(c) => Head(queue[c]) \in Register
    BY <2>1 DEF Pops
  <2>3. NextState(c, ends) \in {"idle", "run", "wait", "magic"}
    BY <2>1 DEF NextState
  <2> QED BY <2>1, <2>2, <2>3
<1>9. /\ pulse' \in [AllChannels -> BOOLEAN]
      /\ all_complete' \in BOOLEAN
  BY <1>6 DEF RunChannels, EndsRun
<1>10. answered' \in BOOLEAN
  BY DEF Clock, Answer, TypeOK
<1>11. moved' \subseteq Nat \X Nat
  <2>1. chan[0].cmd \in Register /\ chan[1].cmd \in Register
    BY DEF TypeOK, Register, AllChannels
  <2>2. D!Bytes(chan[0].cmd) \subseteq Nat \X Nat /\ D!Bytes(chan[1].cmd) \subseteq Nat \X Nat
    BY <2>1, BytesType
  <2>3. moved \subseteq Nat \X Nat
    BY DEF TypeOK
  <2>4. moved' \subseteq (moved \cup D!Bytes(chan[0].cmd)) \cup D!Bytes(chan[1].cmd)
    <3>1. CASE given_up = 0
      BY <1>6, <3>1, MovedStep
    <3>2. CASE given_up > 0
      BY <1>6, <3>2 DEF RunChannels
    <3> QED BY <3>1, <3>2 DEF TypeOK
  <2> QED BY <2>2, <2>3, <2>4
<1>12. NUM_DMA_CHAN' = 1 => queue'[1] = <<>> /\ chan'[1].state = "idle"
  <2> SUFFICES ASSUME NUM_DMA_CHAN = 1
               PROVE  queue'[1] = <<>> /\ chan'[1].state = "idle"
    BY <1>1
  <2>1. queue[1] = <<>> /\ chan[1].state = "idle" /\ ~ctrl[1].new_cmd
    BY DEF TypeOK
  <2>2. queue'[1] = queue[1] \o <<>>
    BY <1>6, <2>1, QueueStep DEF AllChannels, Pops
  <2> QED BY <1>6, <2>1, <2>2 DEF RunChannels, AllChannels, NextState
<1>13. given_up' = given_up /\ given_up \in Nat
  BY DEF Clock, TypeOK
<1> QED BY <1>13, <1>1, <1>2, <1>3, <1>4, <1>5, <1>7, <1>8, <1>9, <1>10, <1>11, <1>12
     DEF TypeOK, Register, Interface, Channel

-----------------------------------------------------------------------------
(***************************************************************************)
(* The completion registers in a clock.                                    *)
(***************************************************************************)
LEMMA CompletionStep ==
  ASSUME TypeOK, OneChannel, NEW write, NEW ends, Clock(write, ends)
  PROVE  /\ UNCHANGED <<NUM_DMA_CHAN, dir, command>>
         /\ RunChannels(ends) /\ Dispatch /\ CommandRegisters(write)
         /\ NUM_DMA_CHAN = 2 =>
              /\ rxd_irq'[0] <=> ~xfer_done /\ ~new_cmd
                                   /\ (rxd_irq[0] \/ pulse[0])
              /\ rxd_irq'[1] <=> ~xfer_done /\ ~new_cmd
                                   /\ (rxd_irq[1] \/ pulse[1] \/ only_ch0_cmd)
              /\ xfer_done' => ~xfer_done /\ rxd_irq[0] /\ rxd_irq[1]
         /\ NUM_DMA_CHAN = 1 =>
              /\ ~rxd_irq'[0] /\ ~rxd_irq'[1]
              /\ xfer_done' <=> pulse[0]
         /\ all_complete' <=> chan[0].state # "idle" /\ (all_complete \/ xfer_done)
         /\ answered' <=> answered \/ IF dir = "h2f" THEN xfer_done
                                      ELSE chan[0].state = "magic" /\ 0 \in ends
<1>1. /\ UNCHANGED <<NUM_DMA_CHAN, dir, command>>
      /\ RunChannels(ends) /\ Dispatch /\ CommandRegisters(write)
  BY DEF Clock
<1>a. all_complete' <=> chan[0].state # "idle" /\ (all_complete \/ xfer_done)
  BY <1>1 DEF RunChannels
<1>b. answered' <=> answered \/ IF dir = "h2f" THEN xfer_done
                                ELSE chan[0].state = "magic" /\ 0 \in ends
  <2>1. answered' = (answered \/ IF dir = "h2f" THEN xfer_done
                                 ELSE chan[0].state = "magic" /\ 0 \in ends)
    BY DEF Clock, Answer
  <2> QED BY <2>1
<1>2. CASE NUM_DMA_CHAN = 2
  <2>1. CombineDone
    BY <1>2 DEF Clock, Combine
  <2>2. /\ rxd_irq'[0] = (~ForgetsReceived /\ (rxd_irq[0] \/ pulse[0] \/ Unasked(0)))
        /\ rxd_irq'[1] = (~ForgetsReceived /\ (rxd_irq[1] \/ pulse[1] \/ Unasked(1)))
    BY <2>1 DEF CombineDone, AllChannels
  <2>3. xfer_done' => ~xfer_done /\ rxd_irq[0] /\ rxd_irq[1]
    BY <2>1 DEF CombineDone, AllChannels
  <2>4. ~Unasked(0) /\ (Unasked(1) <=> only_ch0_cmd)
    BY DEF Unasked
  <2>5. ForgetsReceived <=> xfer_done \/ new_cmd
    BY DEF ForgetsReceived
  <2>6. /\ rxd_irq'[0] <=> ~xfer_done /\ ~new_cmd
                             /\ (rxd_irq[0] \/ pulse[0])
        /\ rxd_irq'[1] <=> ~xfer_done /\ ~new_cmd
                             /\ (rxd_irq[1] \/ pulse[1] \/ only_ch0_cmd)
    BY <2>2, <2>4, <2>5
  <2> QED BY <1>1, <1>2, <1>a, <1>b, <2>3, <2>6
<1>3. CASE NUM_DMA_CHAN = 1
  <2>1. PassDone
    BY <1>3 DEF Clock, Combine
  <2>2. rxd_irq' = rxd_irq /\ (xfer_done' <=> pulse[0])
    BY <2>1 DEF PassDone
  <2>3. ~rxd_irq'[0] /\ ~rxd_irq'[1]
    BY <1>3, <2>2 DEF OneChannel
  <2> QED BY <1>1, <1>3, <1>a, <1>b, <2>2, <2>3
<1> QED BY <1>2, <1>3 DEF TypeOK

LEMMA OneChannelStep ==
  ASSUME TypeOK, OneChannel, NUM_DMA_CHAN = 1 => ~ctrl[1].new_cmd,
         NEW write, NEW ends, Clock(write, ends)
  PROVE  OneChannel'
<1> SUFFICES ASSUME NUM_DMA_CHAN = 1
             PROVE  ~rxd_irq'[0] /\ ~rxd_irq'[1] /\ Rest(1)'
  BY CompletionStep DEF OneChannel
<1>1. 1 \in AllChannels /\ Rest(1) /\ ~ctrl[1].new_cmd
  BY DEF AllChannels, OneChannel
<1>2. RunChannels(ends) /\ ~rxd_irq'[0] /\ ~rxd_irq'[1]
  BY CompletionStep
<1> QED BY <1>1, <1>2, RestStays

LEMMA PartsComputedStep ==
  ASSUME TypeOK, OneChannel, PartsComputed,
         host = "len" => cmd.src = command.src /\ cmd.dst = command.dst,
         NEW write, NEW ends, Clock(write, ends)
  PROVE  PartsComputed'
<1>1. /\ write \in {host, "none"}
      /\ UNCHANGED <<NUM_DMA_CHAN, command>>
      /\ CommandRegisters(write) /\ Dispatch
  BY DEF Clock
<1> SUFFICES ASSUME host' = "waiting" PROVE PartsComputed'
  BY DEF PartsComputed
<1>2. (host = "len" /\ write = "len") \/ (host = "waiting" /\ write \in {"waiting", "none"})
  BY <1>1 DEF Clock, TypeOK
<1>3. CASE host = "len" /\ write = "len"
  <2>1. command \in Commands
    BY <1>3 DEF TypeOK
  <2>2. new_cmd'
    BY <1>1, <1>3, <2>1, CommandType DEF CommandRegisters
  <2>3. cmd' = [cmd EXCEPT !["len"] = command["len"]]
    BY <1>1, <1>3 DEF CommandRegisters
  <2>4. cmd' = command
    BY <1>3, <2>1, <2>3, CommandType DEF TypeOK
  <2> QED BY <1>1, <2>2, <2>4 DEF PartsComputed
<1>4. CASE host = "waiting" /\ write \in {"waiting", "none"}
  <2>1. cmd' = cmd /\ ~new_cmd' /\ cmd = command
    BY <1>1, <1>4 DEF CommandRegisters, PartsComputed
  <2> SUFFICES ASSUME NUM_DMA_CHAN = 2
               PROVE  /\ length_ch0' = HalfUp(command.len)
                      /\ only_ch0_cmd' <=> Half(command.len) = 0
                      /\ ~new_cmd_d'[1] =>
                            start_ch1' = [src |-> command.src + length_ch0',
                                          dst |-> command.dst + length_ch0']
    BY <1>1, <2>1 DEF PartsComputed
  <2>2. SplitCommand
    BY <1>1 DEF Dispatch
  <2>3. length_ch0' = HalfUp(command.len)
    BY <1>4, <2>1, <2>2 DEF SplitCommand, PartsComputed
  <2>4. only_ch0_cmd' <=> Half(command.len) = 0
    BY <2>1, <2>2 DEF SplitCommand, Half
  <2>5. ASSUME ~new_cmd_d'[1]
        PROVE  start_ch1' = [src |-> command.src + length_ch0',
                             dst |-> command.dst + length_ch0']
    <3>1. ~new_cmd
      BY <2>2, <2>5 DEF SplitCommand
    <3>2. length_ch0' = length_ch0
      BY <2>2, <3>1 DEF SplitCommand
    <3>3. CASE new_cmd_d[1]
      BY <2>1, <2>2, <3>2, <3>3 DEF SplitCommand
    <3>4. CASE ~new_cmd_d[1]
      BY <1>4, <2>2, <3>1, <3>2, <3>4 DEF SplitCommand, PartsComputed
    <3> QED BY <3>3, <3>4
  <2> QED BY <2>3, <2>4, <2>5
<1> QED BY <1>2, <1>3, <1>4

-----------------------------------------------------------------------------
(***************************************************************************)
(* Each stage goes to itself or to the next.                               *)
(***************************************************************************)
LEMMA RestingStep ==
  ASSUME TypeOK, given_up = 0, OneChannel, Rest(0), Rest(1), ~ctrl[0].new_cmd, ~ctrl[1].new_cmd,
         NEW write, NEW ends, Clock(write, ends)
  PROVE  /\ Rest(0)' /\ Rest(1)'
         /\ moved' = moved
         /\ ~all_complete'
         /\ ~rxd_irq[0] => ~rxd_irq'[0] /\ ~xfer_done'
         /\ ~xfer_done => (answered' <=> answered)
<1>1. 0 \in AllChannels /\ 1 \in AllChannels
  BY DEF AllChannels
<1>2. RunChannels(ends)
  BY CompletionStep
<1>3. Rest(0)' /\ Rest(1)'
  BY <1>1, <1>2, RestStays
<1>4. chan[0].state = "idle" /\ chan[1].state = "idle" /\ ~pulse[0]
  BY DEF Rest
<1>5. moved' = moved
  BY <1>1, <1>2, <1>4, MovedStep, RestMovesNothing
<1>6. NUM_DMA_CHAN \in {1, 2}
  BY DEF TypeOK
<1>7. CASE NUM_DMA_CHAN = 1
  BY <1>3, <1>4, <1>5, <1>7, CompletionStep
<1>8. CASE NUM_DMA_CHAN = 2
  BY <1>3, <1>4, <1>5, <1>8, CompletionStep
<1> QED BY <1>6, <1>7, <1>8

LEMMA PreparingStep ==
  ASSUME TypeOK, given_up = 0, OneChannel, Preparing,
         NEW write, NEW ends, Clock(write, ends)
  PROVE  Preparing' \/ Sent(1)'
<1>1. /\ Rest(0)' /\ Rest(1)' /\ moved' = moved /\ ~all_complete'
      /\ ~rxd_irq'[0] /\ ~xfer_done' /\ ~answered'
  BY RestingStep DEF Preparing, OnWay
<1>2. /\ write \in {host, "none"}
      /\ UNCHANGED <<NUM_DMA_CHAN, command>>
      /\ CommandRegisters(write) /\ Dispatch
      /\ host \in {"idle", "src", "dst", "len"}
      /\ host # "idle" => command \in Commands
  BY DEF Clock, Preparing, TypeOK
<1>3. CASE write = "len"
  <2>1. OnWay(1)'
    BY <1>2, <1>3, PulseMoves DEF Preparing
  <2>2. host' = "waiting" /\ moved' = {}
    BY <1>1, <1>2, <1>3 DEF Clock, Preparing
  <2>3. Sent(1)'
    BY <1>1, <2>1, <2>2 DEF Sent
  <2> QED BY <2>3
<1>4. CASE write # "len"
  <2>1. OnWay(0)'
    BY <1>2, <1>4, PulseMoves DEF Preparing
  <2>2. host' # "waiting" /\ (host' # "idle" => host # "idle")
    BY <1>2, <1>4 DEF Clock
  <2>3. host' # "idle" => moved' = {}
    BY <1>1, <2>2 DEF Preparing
  <2>4. CASE write = "src"
    <3>1. host' = "dst" /\ cmd' = [cmd EXCEPT !["src"] = command["src"]]
      BY <1>2, <2>4 DEF Clock, CommandRegisters
    <3>2. cmd'.src = command.src
      BY <3>1 DEF TypeOK
    <3> QED BY <1>1, <1>2, <2>1, <2>2, <2>3, <3>1, <3>2 DEF Preparing
  <2>5. CASE write = "dst"
    <3>1. host' = "len" /\ host = "dst" /\ cmd' = [cmd EXCEPT !["dst"] = command["dst"]]
      BY <1>2, <2>5 DEF Clock, CommandRegisters
    <3>2. cmd'.dst = command.dst /\ cmd'.src = cmd.src
      BY <3>1 DEF TypeOK
    <3> QED BY <1>1, <1>2, <2>1, <2>2, <2>3, <3>1, <3>2 DEF Preparing
  <2>6. CASE write \notin {"src", "dst"}
    <3>1. host' = host /\ cmd' = cmd
      BY <1>2, <1>4, <2>6 DEF Clock, CommandRegisters
    <3> QED BY <1>1, <1>2, <2>1, <2>2, <2>3, <3>1 DEF Preparing
  <2> QED BY <2>4, <2>5, <2>6
<1> QED BY <1>3, <1>4

LEMMA SentStep ==
  ASSUME TypeOK, given_up = 0, OneChannel, PartsComputed, NEW i \in 1 .. 5, Sent(i),
         NEW write, NEW ends, Clock(write, ends)
  PROVE  (\E k \in 1 .. 5 : Sent(k)') \/ Working'
<1>1. /\ write \in {host, "none"} /\ host = "waiting" /\ host' = "waiting"
      /\ UNCHANGED <<NUM_DMA_CHAN, command, dir>>
      /\ CommandRegisters(write) /\ Dispatch /\ RunChannels(ends)
      /\ command \in Commands /\ cmd = command /\ write # "len"
      /\ NUM_DMA_CHAN \in {1, 2}
      /\ 0 \in AllChannels /\ 1 \in AllChannels
  BY DEF Clock, Sent, TypeOK, PartsComputed, AllChannels
<1>2. CASE i = 5
  <2>1. OnWay(0)'
    BY <1>1, <1>2, PulseMoves DEF Sent
  <2>2. /\ ctrl[0].new_cmd /\ ctrl[0].cmd = Part(0) /\ ~new_cmd
        /\ AsksSecond => ctrl[1].new_cmd /\ ctrl[1].cmd = Part(1)
        /\ ~AsksSecond => ~ctrl[1].new_cmd
    BY <1>2 DEF Sent, OnWay
  <2>3. /\ Rest(0) /\ Rest(1) /\ ~xfer_done /\ ~rxd_irq[0] /\ ~pulse[0] /\ ~pulse[1]
        /\ chan[0].state = "idle" /\ chan[1].state = "idle" /\ ~answered
        /\ AsksSecond => ~rxd_irq[1]
    BY <1>2 DEF Sent, Rest
  <2>4. AsksSecond => NUM_DMA_CHAN = 2 /\ ~only_ch0_cmd
    BY <1>1, <2>2 DEF AsksSecond, PartsComputed
  <2>5. ~rxd_irq'[0] /\ ~xfer_done' /\ (AsksSecond => ~rxd_irq'[1])
    <3>1. CASE NUM_DMA_CHAN = 1
      BY <2>3, <2>4, <3>1, CompletionStep
    <3>2. CASE NUM_DMA_CHAN = 2
      BY <2>3, <2>4, <3>2, CompletionStep
    <3> QED BY <1>1, <3>1, <3>2
  <2>6. ~all_complete' /\ ~answered'
    BY <2>3, CompletionStep
  <2>7. Queued(0)'
    BY <1>1, <2>2, <2>3, <2>5, PartIsQueued
  <2>8. IF AsksSecond THEN Queued(1)' ELSE Rest(1)'
    BY <1>1, <2>2, <2>3, <2>5, PartIsQueued, RestStays
  <2>9. moved' = {}
    BY <1>1, <1>2, <2>3, MovedStep, RestMovesNothing DEF Sent
  <2>10. ~Ended(0)' /\ (AsksSecond => ~Ended(1)')
    BY <2>7, <2>8 DEF Queued, Ended
  <2>11. AsksSecond' <=> AsksSecond
    BY <1>1, PartsStay
  <2>12. At(0)' /\ (IF AsksSecond' THEN At(1)' ELSE Rest(1)')
    BY <2>7, <2>8, <2>11 DEF At
  <2>13. moved' = (IF Ended(0)' THEN D!Bytes(Part(0))' ELSE {})
                    \cup (IF AsksSecond' /\ Ended(1)' THEN D!Bytes(Part(1))' ELSE {})
    BY <2>9, <2>10, <2>11
  <2>14. Working'
    BY <1>1, <2>1, <2>5, <2>6, <2>12, <2>13 DEF Working
  <2> QED BY <2>14
<1>3. CASE i # 5
  <2>0. PICK k \in 2 .. 5 : k = IF NUM_DMA_CHAN = 1 THEN 5 ELSE i + 1
    BY <1>1, <1>3
  <2>1. k = 5 => IF NUM_DMA_CHAN = 1 THEN i = 1 ELSE i = 4
    BY <1>1, <1>3, <2>0 DEF Sent
  <2>2. OnWay(k)'
    <3>1. /\ i \in 0 .. 5 /\ k \in 0 .. 5 /\ i \notin {0, 5}
          /\ OnWay(i) /\ (NUM_DMA_CHAN = 1 => i \in {0, 1, 5})
      BY <1>3 DEF Sent
    <3>2. k = IF write = "len" THEN 1
              ELSE IF i \in {0, 5} THEN 0
              ELSE IF NUM_DMA_CHAN = 1 THEN 5 ELSE i + 1
      BY <1>1, <2>0, <3>1
    <3> QED BY <1>1, <3>1, <3>2, PulseMoves
  <2>3. /\ Rest(0)' /\ Rest(1)' /\ moved' = {} /\ ~all_complete'
        /\ ~rxd_irq'[0] /\ ~xfer_done' /\ ~answered'
    BY <1>3, RestingStep DEF Sent, OnWay
  <2>4. AsksSecond => ~rxd_irq'[1]
    <3> SUFFICES ASSUME AsksSecond PROVE ~rxd_irq'[1]
      OBVIOUS
    <3>1. NUM_DMA_CHAN = 2 /\ Half(command.len) # 0
      BY DEF AsksSecond
    <3>2. CASE i = 1
      BY <3>1, <3>2, CompletionStep DEF Sent, OnWay
    <3>3. CASE i # 1
      <4>1. ~new_cmd /\ ~rxd_irq[1] /\ ~pulse[1]
        BY <3>3 DEF Sent, OnWay, Rest
      <4>2. ~only_ch0_cmd
        BY <1>1, <3>1, <4>1 DEF PartsComputed
      <4> QED BY <3>1, <4>1, <4>2, CompletionStep
    <3> QED BY <3>2, <3>3
  <2>5. k = 5 => /\ ctrl'[0].cmd = Part(0)
                 /\ AsksSecond => ctrl'[1].cmd = Part(1)
    BY <1>1, <2>1, PartsReach DEF Sent
  <2>6. NUM_DMA_CHAN = 1 => k \in {1, 5}
    BY <2>0
  <2>7. Sent(k)'
    BY <1>1, <2>2, <2>3, <2>4, <2>5, <2>6, PartsStay DEF Sent
  <2> QED BY <2>1, <2>7
<1> QED BY <1>2, <1>3

LEMMA WorkingStep ==
  ASSUME TypeOK, given_up = 0, OneChannel, PartsComputed, Working,
         NEW write, NEW ends, Clock(write, ends)
  PROVE  Working' \/ Finishing'
<1>1. /\ write \in {host, "none"} /\ host = "waiting" /\ host' = "waiting"
      /\ UNCHANGED <<NUM_DMA_CHAN, command, dir>>
      /\ CommandRegisters(write) /\ Dispatch /\ RunChannels(ends)
      /\ command \in Commands /\ write # "len"
      /\ NUM_DMA_CHAN \in {1, 2}
      /\ 0 \in AllChannels /\ 1 \in AllChannels
  BY DEF Clock, Working, TypeOK, AllChannels
<1>2. OnWay(0)' /\ ~ctrl[0].new_cmd /\ ~ctrl[1].new_cmd /\ ~new_cmd
  <2>1. OnWay(0)'
    BY <1>1, PulseMoves DEF Working
  <2> QED BY <2>1 DEF Working, OnWay
<1>3. ~xfer_done /\ ~all_complete' /\ ~answered'
  BY CompletionStep DEF Working, At, Queued, Running, Ended
<1>4. /\ Part(0)' = Part(0) /\ Part(1)' = Part(1)
      /\ AsksSecond' <=> AsksSecond
      /\ WritesMagic(0)' <=> WritesMagic(0)
  BY <1>1, PartsStay DEF WritesMagic
<1>5. CASE NUM_DMA_CHAN = 1 /\ pulse[0]
  <2>1. Ended(0) /\ ~AsksSecond /\ Rest(1)
    BY <1>5 DEF Working, At, Queued, Running, AsksSecond
  <2>2. /\ ~Pops(0) /\ ~EndsRun(0, ends) /\ ~EndsRun(1, ends)
        /\ NextState(0, ends) = chan[0].state
    BY <2>1 DEF Pops, EndsRun, Ended, Rest, NextState, Working
  <2>3. /\ queue'[0] = <<>> /\ ~pulse'[0]
        /\ chan'[0].state = IF WritesMagic(0) THEN "wait" ELSE "idle"
    <3>1. queue'[0] = queue[0] \o <<>>
      BY <1>1, <1>2, <2>2, QueueStep
    <3>2. pulse'[0] = EndsRun(0, ends) /\ chan'[0].state = NextState(0, ends)
      BY <1>1 DEF RunChannels
    <3> QED BY <2>1, <2>2, <3>1, <3>2 DEF Ended
  <2>4. Rest(1)' /\ xfer_done'
    BY <1>1, <1>2, <1>5, <2>1, RestStays, CompletionStep
  <2>5. moved' = D!Bytes(command)
    <3>1. moved' = moved
      BY <1>1, <2>2, MovedStep
    <3>2. moved = D!Bytes(Part(0))
      BY <2>1 DEF Working
    <3>3. Part(0) = command
      BY <1>5 DEF Part
    <3> QED BY <3>1, <3>2, <3>3
  <2>6. Finishing'
    BY <1>1, <1>2, <1>3, <1>4, <2>3, <2>4, <2>5 DEF Finishing, Whole
  <2> QED BY <2>6
<1>6. CASE ~(NUM_DMA_CHAN = 1 /\ pulse[0])
  <2>1. rxd_irq'[0] <=> rxd_irq[0] \/ pulse[0]
    <3>1. CASE NUM_DMA_CHAN = 1
      BY <1>6, <3>1, CompletionStep DEF OneChannel
    <3>2. CASE NUM_DMA_CHAN = 2
      BY <1>2, <1>3, <3>2, CompletionStep
    <3> QED BY <1>1, <3>1, <3>2
  <2>2. AsksSecond => (rxd_irq'[1] <=> rxd_irq[1] \/ pulse[1])
    <3> SUFFICES ASSUME AsksSecond PROVE rxd_irq'[1] <=> rxd_irq[1] \/ pulse[1]
      OBVIOUS
    <3>1. NUM_DMA_CHAN = 2 /\ ~only_ch0_cmd
      BY <1>1, <1>2 DEF AsksSecond, PartsComputed
    <3> QED BY <1>2, <1>3, <3>1, CompletionStep
  <2>3. /\ At(0)' /\ (Ended(0)' <=> Ended(0) \/ EndsRun(0, ends))
        /\ EndsRun(0, ends) => Running(0)
    <3>1. At(0) /\ ~all_complete
      BY DEF Working
    <3> QED BY <1>1, <1>2, <2>1, <3>1, ChannelRuns
  <2>4. AsksSecond => /\ At(1)' /\ (Ended(1)' <=> Ended(1) \/ EndsRun(1, ends))
                      /\ EndsRun(1, ends) => Running(1)
    <3>1. AsksSecond => At(1) /\ ~all_complete
      BY DEF Working
    <3> QED BY <1>1, <1>2, <2>2, <3>1, ChannelRuns
  <2>5. ~AsksSecond => Rest(1)' /\ ~EndsRun(1, ends)
    <3>1. ~AsksSecond => Rest(1)
      BY DEF Working
    <3> QED BY <1>1, <1>2, <3>1, RestStays DEF EndsRun, Rest
  <2> DEFINE B0 == D!Bytes(Part(0))
             B1 == D!Bytes(Part(1))
  <2>6. moved' = (IF Ended(0)' THEN B0 ELSE {})
                   \cup (IF AsksSecond /\ Ended(1)' THEN B1 ELSE {})
    <3>1. moved = (IF Ended(0) THEN B0 ELSE {})
                    \cup (IF AsksSecond /\ Ended(1) THEN B1 ELSE {})
      BY DEF Working
    <3>2. /\ EndsRun(0, ends) => D!Bytes(chan[0].cmd) = B0
          /\ EndsRun(1, ends) => AsksSecond /\ D!Bytes(chan[1].cmd) = B1
      BY <2>3, <2>4, <2>5 DEF Running
    <3> HIDE DEF B0, B1
    <3>3. moved' = (moved \cup (IF EndsRun(0, ends) THEN B0 ELSE {}))
                     \cup (IF EndsRun(1, ends) THEN B1 ELSE {})
      BY <1>1, <3>2, MovedStep
    <3> QED BY <2>3, <2>4, <2>5, <3>1, <3>2, <3>3
  <2>7. CASE ~xfer_done'
    <3>1. IF AsksSecond' THEN At(1)' ELSE Rest(1)'
      BY <1>4, <2>4, <2>5
    <3>2. moved' = (IF Ended(0)' THEN D!Bytes(Part(0))' ELSE {})
                     \cup (IF AsksSecond' /\ Ended(1)' THEN D!Bytes(Part(1))' ELSE {})
      BY <1>4, <2>6
    <3>3. Working'
      BY <1>1, <1>2, <1>3, <2>3, <2>7, <3>1, <3>2 DEF Working
    <3> QED BY <3>3
  <2>8. CASE xfer_done'
    <3>1. NUM_DMA_CHAN = 2 /\ rxd_irq[0] /\ rxd_irq[1]
      BY <1>1, <1>6, <2>8, CompletionStep
    <3>2. Ended(0) /\ (AsksSecond => Ended(1))
      BY <3>1 DEF Working, At, Queued, Running
    <3>3. Ended(0)' /\ ~pulse'[0]
      <4>1. Ended(0)' /\ rxd_irq'[0]
        BY <2>1, <2>3, <3>1, <3>2
      <4> QED BY <4>1 DEF Ended
    <3>4. Rest(1)'
      <4>1. CASE AsksSecond
        <5>1. Ended(1)' /\ rxd_irq'[1]
          BY <2>2, <2>4, <3>1, <3>2, <4>1
        <5> QED BY <5>1 DEF Ended, Rest, WritesMagic
      <4>2. CASE ~AsksSecond
        BY <2>5, <4>2
      <4> QED BY <4>1, <4>2
    <3>5. moved' = D!Bytes(command)
      <4>1. moved' = B0 \cup (IF AsksSecond THEN B1 ELSE {})
        BY <2>4, <2>6, <3>2, <3>3
      <4> QED BY <1>1, <4>1, PartsMakeCommand
    <3>6. Finishing'
      BY <1>1, <1>2, <1>3, <2>8, <3>3, <3>4, <3>5
         DEF Finishing, Whole, Ended
    <3> QED BY <3>6
  <2> QED BY <2>7, <2>8
<1> QED BY <1>5, <1>6

\* What the three stages behind the completion have in common.
LEMMA EndingStep ==
  ASSUME TypeOK, given_up = 0, OneChannel, host = "waiting", OnWay(0), Rest(1),
         queue[0] = <<>>, ~pulse[0], chan[0].state # "run", Whole,
         xfer_done \/ ~rxd_irq[0],
         NEW write, NEW ends, Clock(write, ends)
  PROVE  /\ host' = "waiting" /\ OnWay(0)' /\ Rest(1)' /\ Whole'
         /\ queue'[0] = <<>> /\ ~pulse'[0]
         /\ chan'[0].state = NextState(0, ends)
         /\ ~xfer_done' /\ ~rxd_irq'[0]
<1>1. /\ write \in {host, "none"} /\ host' = "waiting"
      /\ UNCHANGED <<NUM_DMA_CHAN, command, dir>>
      /\ CommandRegisters(write) /\ Dispatch /\ RunChannels(ends)
      /\ NUM_DMA_CHAN \in {1, 2} /\ write # "len"
      /\ 0 \in AllChannels /\ 1 \in AllChannels
  BY DEF Clock, TypeOK, AllChannels
<1>2. OnWay(0)' /\ ~ctrl[0].new_cmd /\ ~ctrl[1].new_cmd
  <2>1. OnWay(0)'
    BY <1>1, PulseMoves
  <2> QED BY <2>1 DEF OnWay
<1>3. Rest(1)'
  BY <1>1, <1>2, RestStays
<1>4. ~Pops(0) /\ ~EndsRun(0, ends) /\ ~EndsRun(1, ends)
  BY DEF Pops, EndsRun, Rest
<1>5. moved' = moved
  BY <1>1, <1>4, MovedStep
<1>6. /\ queue'[0] = <<>> /\ ~pulse'[0]
      /\ chan'[0].state = NextState(0, ends)
  <2>1. /\ queue'[0] = queue[0] \o <<>>
        /\ pulse'[0] = EndsRun(0, ends)
        /\ chan'[0].state = NextState(0, ends)
    BY <1>1, <1>2, <1>4, QueueStep DEF RunChannels
  <2> QED BY <1>4, <2>1
<1>7. ~xfer_done' /\ ~rxd_irq'[0]
  <2>1. CASE NUM_DMA_CHAN = 1
    BY <2>1, CompletionStep
  <2>2. CASE NUM_DMA_CHAN = 2
    BY <2>2, CompletionStep
  <2> QED BY <1>1, <2>1, <2>2
<1> QED BY <1>1, <1>2, <1>3, <1>5, <1>6, <1>7 DEF Whole

LEMMA FinishingStep ==
  ASSUME TypeOK, given_up = 0, OneChannel, Finishing, NEW write, NEW ends, Clock(write, ends)
  PROVE  Magic' \/ Answered'
<1>1. /\ host' = "waiting" /\ OnWay(0)' /\ Rest(1)' /\ Whole'
      /\ queue'[0] = <<>> /\ ~pulse'[0]
      /\ chan'[0].state = NextState(0, ends)
      /\ ~xfer_done' /\ ~rxd_irq'[0]
  BY EndingStep DEF Finishing
<1>2. dir \in {"h2f", "f2h"} /\ dir' = dir
  BY CompletionStep DEF TypeOK
<1>3. CASE dir = "h2f"
  <2>1. chan[0].state = "idle" /\ queue[0] = <<>>
    BY <1>3 DEF Finishing, WritesMagic
  <2>2. chan'[0].state = "idle"
    BY <1>1, <2>1 DEF NextState
  <2>3. answered'
    BY <1>3, CompletionStep DEF Finishing
  <2> QED BY <1>1, <2>2, <2>3 DEF Answered, Rest
<1>4. CASE dir = "f2h"
  <2>1. chan[0].state = "wait" /\ ~all_complete
    BY <1>4 DEF Finishing, WritesMagic
  <2>2. chan'[0].state = "wait"
    BY <1>1, <2>1 DEF NextState
  <2>3. all_complete' /\ ~answered'
    BY <1>4, <2>1, CompletionStep DEF Finishing
  <2> QED BY <1>1, <1>2, <1>4, <2>2, <2>3 DEF Magic
<1> QED BY <1>2, <1>3, <1>4

LEMMA MagicStep ==
  ASSUME TypeOK, given_up = 0, OneChannel, Magic, NEW write, NEW ends, Clock(write, ends)
  PROVE  Magic' \/ Answered'
<1>1. /\ host' = "waiting" /\ OnWay(0)' /\ Rest(1)' /\ Whole'
      /\ queue'[0] = <<>> /\ ~pulse'[0]
      /\ chan'[0].state = NextState(0, ends)
      /\ ~xfer_done' /\ ~rxd_irq'[0]
  BY EndingStep DEF Magic
<1>2. /\ dir' = dir /\ dir = "f2h" /\ all_complete'
      /\ answered' <=> chan[0].state = "magic" /\ 0 \in ends
  BY CompletionStep DEF Magic
<1>3. CASE answered'
  <2>1. chan'[0].state = "idle"
    BY <1>1, <1>2, <1>3 DEF NextState
  <2> QED BY <1>1, <1>3, <2>1 DEF Answered, Rest
<1>4. CASE ~answered'
  <2>1. chan'[0].state \in {"wait", "magic"}
    BY <1>1, <1>2, <1>4 DEF NextState, Magic
  <2> QED BY <1>1, <1>2, <1>4, <2>1 DEF Magic
<1> QED BY <1>3, <1>4

LEMMA AnsweredStep ==
  ASSUME TypeOK, given_up = 0, OneChannel, Answered, NEW write, NEW ends, Clock(write, ends)
  PROVE  Answered'
<1>1. /\ host' = "waiting" /\ OnWay(0)' /\ Rest(1)' /\ Whole'
      /\ queue'[0] = <<>> /\ ~pulse'[0]
      /\ chan'[0].state = NextState(0, ends)
      /\ ~xfer_done' /\ ~rxd_irq'[0]
  BY EndingStep DEF Answered, Rest
<1>2. chan'[0].state = "idle"
  BY <1>1 DEF NextState, Answered, Rest
<1>3. answered'
  BY CompletionStep DEF Answered
<1> QED BY <1>1, <1>2, <1>3 DEF Answered, Rest

-----------------------------------------------------------------------------
(***************************************************************************)
(* Invariance.                                                             *)
(***************************************************************************)
LEMMA StageFacts ==
  ASSUME IInv
  PROVE  /\ NUM_DMA_CHAN = 1 => ~ctrl[1].new_cmd
         /\ host = "len" => cmd.src = command.src /\ cmd.dst = command.dst
<1>1. host # "waiting" => Preparing
  BY DEF IInv, Stage, Sent, Working, Finishing, Magic, Answered
<1>2. \E i \in 0 .. 5 : OnWay(i)
  BY DEF IInv, Stage, Preparing, Sent, Working, Finishing, Magic, Answered
<1>3. NUM_DMA_CHAN = 1 => ~AsksSecond
  BY DEF AsksSecond
<1> QED BY <1>1, <1>2, <1>3 DEF OnWay, Preparing

LEMMA ClockInv ==
  ASSUME IInv, NEW write, NEW ends, Clock(write, ends)
  PROVE  IInv'
<1>1. TypeOK /\ given_up = 0 /\ OneChannel /\ PartsComputed /\ Stage
  BY DEF IInv
<1>0. given_up' = 0
  BY <1>1 DEF Clock
<1>2. TypeOK' /\ OneChannel' /\ PartsComputed'
  BY <1>1, StageFacts, ClockTypes, OneChannelStep, PartsComputedStep
<1>3. Stage'
  <2>1. CASE Preparing
    BY <1>1, <2>1, PreparingStep DEF Stage
  <2>2. ASSUME NEW i \in 1 .. 5, Sent(i) PROVE Stage'
    BY <1>1, <2>2, SentStep DEF Stage
  <2>3. CASE Working
    BY <1>1, <2>3, WorkingStep DEF Stage
  <2>4. CASE Finishing
    BY <1>1, <2>4, FinishingStep DEF Stage
  <2>5. CASE Magic
    BY <1>1, <2>5, MagicStep DEF Stage
  <2>6. CASE Answered
    BY <1>1, <2>6, AnsweredStep DEF Stage
  <2> QED BY <1>1, <2>1, <2>2, <2>3, <2>4, <2>5, <2>6 DEF Stage
<1> QED BY <1>0, <1>2, <1>3 DEF IInv

LEMMA AcceptInv ==
  ASSUME IInv, NEW c \in Commands, Accept(c)
  PROVE  IInv'
<1>1. /\ Preparing /\ c # NULL
      /\ host' = "src" /\ command' = c /\ moved' = {}
      /\ UNCHANGED <<NUM_DMA_CHAN, dir, splitVars, doneVars, queue, chan,
                     pulse, all_complete, answered, given_up>>
  BY CommandType
     DEF IInv, Stage, Sent, Working, Finishing, Magic, Answered, Accept
<1>2. UNCHANGED <<cmd, new_cmd, new_cmd_d, length_ch0, start_ch1, ctrl,
                  only_ch0_cmd, rxd_irq, wait_irq, xfer_done>>
  BY <1>1 DEF splitVars, doneVars
<1>3. OnWay(0)' /\ Rest(0)' /\ Rest(1)'
  BY <1>1, <1>2 DEF Preparing, OnWay, Rest
<1>4. Preparing'
  BY <1>1, <1>2, <1>3 DEF Preparing
<1>5. TypeOK' /\ OneChannel' /\ PartsComputed'
  BY <1>1, <1>2 DEF IInv, TypeOK, OneChannel, Rest, PartsComputed
<1> QED BY <1>1, <1>4, <1>5 DEF IInv, Stage

LEMMA TakeAnswerInv ==
  ASSUME IInv, TakeAnswer
  PROVE  IInv'
<1>1. /\ Answered
      /\ host' = "idle" /\ command' = NULL /\ ~answered'
      /\ UNCHANGED <<NUM_DMA_CHAN, dir, splitVars, doneVars, chanVars, given_up>>
  BY DEF IInv, Stage, Preparing, Sent, Working, Finishing, Magic, TakeAnswer
<1>2. UNCHANGED <<cmd, new_cmd, new_cmd_d, length_ch0, start_ch1, ctrl,
                  only_ch0_cmd, rxd_irq, wait_irq, xfer_done,
                  queue, chan, pulse, all_complete, moved>>
  BY <1>1 DEF splitVars, doneVars, chanVars
<1>3. OnWay(0)' /\ Rest(0)' /\ Rest(1)'
  BY <1>1, <1>2 DEF Answered, OnWay, Rest
<1>4. Preparing'
  BY <1>1, <1>2, <1>3 DEF Preparing, Answered
<1>5. answered' \in BOOLEAN
  BY DEF TakeAnswer
<1>6. TypeOK' /\ OneChannel' /\ PartsComputed'
  BY <1>1, <1>2, <1>5 DEF IInv, TypeOK, OneChannel, Rest, PartsComputed
<1> QED BY <1>1, <1>4, <1>6 DEF IInv, Stage

LEMMA StepInv ==
  ASSUME IInv, [Next]_vars, given_up' = 0
  PROVE  IInv'
<1>1. CASE \E c \in Commands : Accept(c)
  BY <1>1, AcceptInv
<1>2. CASE Clocks
  BY <1>2, ClockInv DEF Clocks
<1>3. CASE TakeAnswer
  BY <1>3, TakeAnswerInv
<1>4. CASE UNCHANGED vars
  <2>1. UNCHANGED <<NUM_DMA_CHAN, dir, host, command, cmd, new_cmd, new_cmd_d,
                    length_ch0, start_ch1, ctrl, only_ch0_cmd, rxd_irq,
                    wait_irq, xfer_done, queue, chan, pulse, all_complete,
                    moved, answered, given_up>>
    BY <1>4 DEF vars, splitVars, doneVars, chanVars
  <2>2. TypeOK' /\ OneChannel' /\ PartsComputed'
    BY <2>1 DEF IInv, TypeOK, OneChannel, Rest, PartsComputed
  <2>3. /\ Part(0)' = Part(0) /\ Part(1)' = Part(1)
        /\ AsksSecond' <=> AsksSecond
    BY <2>1, PartsStay
  <2>4. OnWay(0)' <=> OnWay(0)
    BY <2>1, <2>3 DEF OnWay
  <2>5. /\ Rest(0)' <=> Rest(0)
        /\ Rest(1)' <=> Rest(1)
        /\ WritesMagic(0)' <=> WritesMagic(0)
    BY <2>1 DEF Rest, WritesMagic
  <2>6. /\ At(0)' <=> At(0)
        /\ At(1)' <=> At(1)
        /\ Ended(0)' <=> Ended(0)
        /\ Ended(1)' <=> Ended(1)
    BY <2>1, <2>3 DEF At, Queued, Running, Ended, WritesMagic
  <2>7. ASSUME Preparing PROVE Stage'
    BY <2>1, <2>4, <2>5, <2>6, <2>7 DEF Stage, Preparing
  <2>8. ASSUME NEW i \in 1 .. 5, Sent(i) PROVE Stage'
    <3>1. OnWay(i)' <=> OnWay(i)
      BY <2>1, <2>3 DEF OnWay
    <3>2. Sent(i)'
      BY <2>1, <2>3, <2>5, <2>8, <3>1 DEF Sent
    <3> QED BY <3>2 DEF Stage
  <2>9. ASSUME Working PROVE Stage'
    BY <2>1, <2>3, <2>4, <2>5, <2>6, <2>9 DEF Stage, Working
  <2>10. ASSUME Finishing PROVE Stage'
    BY <2>1, <2>4, <2>5, <2>6, <2>10 DEF Stage, Finishing, Whole
  <2>11. ASSUME Magic PROVE Stage'
    BY <2>1, <2>4, <2>5, <2>6, <2>11 DEF Stage, Magic, Whole
  <2>12. ASSUME Answered PROVE Stage'
    BY <2>1, <2>4, <2>5, <2>6, <2>12 DEF Stage, Answered, Whole
  <2>13. Stage'
    BY <2>7, <2>8, <2>9, <2>10, <2>11, <2>12 DEF IInv, Stage
  <2> QED BY <2>1, <2>2, <2>13 DEF IInv
<1>5. ~GiveUp
  BY DEF GiveUp, IInv
<1> QED BY <1>1, <1>2, <1>3, <1>4, <1>5 DEF Next

-----------------------------------------------------------------------------
(***************************************************************************)
(* Whatever has been given up.  Towards the board every command of the     *)
(* host is once on its way to channel 0, in it, or on the way back as a    *)
(* completion, and the host has taken as many answers, or waits given up,  *)
(* as it has sent commands.  Completions may merge, or be cleared before   *)
(* they are seen, so this is a bound.                                      *)
(***************************************************************************)
Count(b) == IF b THEN 1 ELSE 0

OnTheWay ==
  (Count(new_cmd) + Count(new_cmd_d[1]) + Count(new_cmd_d[2]) + Count(new_cmd_d[3]))
    + Count(ctrl[0].new_cmd)
InChannel == Len(queue[0]) + Count(chan[0].state = "run") + Count(pulse[0])
ComingBack == Count(rxd_irq[0] \/ xfer_done) + Count(answered)

Backlog ==
  IF dir = "h2f"
  THEN OnTheWay + InChannel + ComingBack <= given_up + Count(host = "waiting")
  ELSE given_up = 0

\* With one channel these registers are not written.
NotThere == NUM_DMA_CHAN = 1 => ~ctrl[1].new_cmd /\ ~rxd_irq[0]

DInv ==
  /\ TypeOK
  /\ NotThere
  /\ Backlog
  /\ given_up = 0 => IInv

LEMMA BacklogTypes ==
  ASSUME TypeOK
  PROVE  /\ OnTheWay \in Nat /\ InChannel \in Nat /\ ComingBack \in Nat
         /\ Len(queue[0]) \in Nat /\ given_up \in Nat
<1>1. queue[0] \in Seq(Register)
  BY DEF TypeOK, AllChannels, Register
<1>2. Len(queue[0]) \in Nat
  BY <1>1
<1>3. OnTheWay \in Nat
  BY DEF OnTheWay, Count
<1>4. InChannel \in Nat
  <2>1. PICK a \in Nat : a = Count(chan[0].state = "run")
    BY DEF Count
  <2>2. PICK b \in Nat : b = Count(pulse[0])
    BY DEF Count
  <2>3. InChannel = Len(queue[0]) + a + b
    BY <2>1, <2>2 DEF InChannel
  <2> QED BY <1>2, <2>3
<1>5. ComingBack \in Nat
  BY DEF ComingBack, Count
<1> QED BY <1>2, <1>3, <1>4, <1>5 DEF TypeOK

LEMMA NextBacklogTypes ==
  TypeOK' => (OnTheWay \in Nat /\ InChannel \in Nat /\ ComingBack \in Nat)'
<1>1. TypeOK => OnTheWay \in Nat /\ InChannel \in Nat /\ ComingBack \in Nat
  BY BacklogTypes
<1> QED BY <1>1, PTL

LEMMA OnTheWayStep ==
  ASSUME TypeOK, NEW write, NEW ends, Clock(write, ends)
  PROVE  OnTheWay' + Count(ctrl[0].new_cmd) <= OnTheWay + Count(write = "len")
<1>1. new_cmd' => write = "len"
  BY DEF Clock, CommandRegisters
<1>2. CASE NUM_DMA_CHAN = 1
  <2>1. /\ ctrl' = [ctrl EXCEPT ![0] = [cmd |-> cmd, new_cmd |-> new_cmd]]
        /\ new_cmd_d' = new_cmd_d
    BY <1>2 DEF Clock, Dispatch, PassCommand
  <2>2. ctrl'[0].new_cmd <=> new_cmd
    BY <2>1 DEF TypeOK, AllChannels
  <2> QED BY <1>1, <2>1, <2>2 DEF OnTheWay, Count
<1>3. CASE NUM_DMA_CHAN = 2
  <2>1. SplitCommand
    BY <1>3 DEF Clock, Dispatch
  <2>2. /\ new_cmd_d'[1] <=> new_cmd
        /\ new_cmd_d'[2] <=> new_cmd_d[1]
        /\ new_cmd_d'[3] <=> new_cmd_d[2]
    BY <2>1 DEF SplitCommand
  <2>3. ctrl'[0].new_cmd <=> new_cmd_d[3]
    BY <2>1 DEF SplitCommand, AllChannels
  <2> QED BY <1>1, <2>2, <2>3 DEF OnTheWay, Count
<1> QED BY <1>2, <1>3 DEF TypeOK

LEMMA InChannelStep ==
  ASSUME TypeOK, dir = "h2f", NEW ends, RunChannels(ends)
  PROVE  InChannel' + Count(pulse[0]) <= InChannel + Count(ctrl[0].new_cmd)
<1> DEFINE rest == IF Pops(0) THEN Tail(queue[0]) ELSE queue[0]
           new == IF Pushes(0) THEN <<ctrl[0].cmd>> ELSE <<>>
<1>1. /\ queue[0] \in Seq(Register) /\ ctrl[0].cmd \in Register
      /\ chan[0].state \in {"idle", "run", "wait", "magic"}
  BY DEF TypeOK, AllChannels, Register
<1>2. /\ queue'[0] = rest \o new
      /\ chan'[0].state = NextState(0, ends)
      /\ pulse'[0] <=> EndsRun(0, ends)
  BY DEF RunChannels, AllChannels
<1>3. rest \in Seq(Register) /\ Len(rest) = Len(queue[0]) - Count(Pops(0))
  <2>1. CASE Pops(0)
    <3>1. queue[0] # <<>>
      BY <2>1 DEF Pops
    <3>2. Tail(queue[0]) \in Seq(Register) /\ Len(Tail(queue[0])) = Len(queue[0]) - 1
      BY <1>1, <3>1, HeadTailProperties
    <3> QED BY <2>1, <3>2 DEF Count
  <2>2. CASE ~Pops(0)
    <3>1. Len(queue[0]) \in Nat
      BY <1>1
    <3> QED BY <1>1, <2>2, <3>1 DEF Count
  <2> QED BY <2>1, <2>2
<1>4. new \in Seq(Register) /\ Len(new) <= Count(ctrl[0].new_cmd) /\ Len(new) \in Nat
  <2>1. CASE Pushes(0)
    <3>1. ctrl[0].new_cmd
      BY <2>1 DEF Pushes
    <3> QED BY <1>1, <2>1, <3>1 DEF Count
  <2>2. CASE ~Pushes(0)
    <3>1. new = <<>> /\ Len(new) = 0
      BY <2>2
    <3>2. Count(ctrl[0].new_cmd) \in 0 .. 1
      BY DEF Count
    <3> QED BY <3>1, <3>2
  <2> QED BY <2>1, <2>2
<1> HIDE DEF rest, new
<1>5. Len(queue'[0]) = Len(rest) + Len(new)
  <2>1. rest \in Seq(Register) /\ new \in Seq(Register)
    BY <1>3, <1>4
  <2>2. Len(rest \o new) = Len(rest) + Len(new)
    BY <2>1
  <2> QED BY <1>2, <2>2
<1>6. Len(queue[0]) \in Nat
  BY <1>1
<1>7. (chan'[0].state = "run") <=> Pops(0) \/ (chan[0].state = "run" /\ ~EndsRun(0, ends))
  BY <1>1, <1>2 DEF NextState, Pops, EndsRun, WritesMagic
<1>8. /\ Pops(0) => chan[0].state # "run"
      /\ EndsRun(0, ends) => chan[0].state = "run"
  BY DEF Pops, EndsRun
<1>8a. PICK r1 \in Nat, p1 \in Nat, r \in Nat, p \in Nat, o \in Nat, n \in Nat :
         /\ r1 = Count(chan'[0].state = "run") /\ p1 = Count(pulse'[0])
         /\ r = Count(chan[0].state = "run") /\ p = Count(pulse[0])
         /\ o = Count(Pops(0)) /\ n = Count(ctrl[0].new_cmd)
  BY DEF Count
<1>9. r1 + p1 = r + o
  BY <1>2, <1>7, <1>8, <1>8a DEF Count
<1>10. InChannel' = Len(queue'[0]) + r1 + p1
  BY <1>8a DEF InChannel, Count
<1>11. InChannel = Len(queue[0]) + r + p
  BY <1>8a DEF InChannel
<1>12. Len(rest) = Len(queue[0]) - o /\ Len(new) <= n
  BY <1>3, <1>4, <1>8a
<1>13. InChannel' + p <= InChannel + n
  BY <1>4, <1>5, <1>6, <1>9, <1>10, <1>11, <1>12
<1> QED BY <1>8a, <1>13

LEMMA ComingBackStep ==
  ASSUME TypeOK, NotThere, dir = "h2f", NEW write, NEW ends, Clock(write, ends)
  PROVE  ComingBack' <= ComingBack + Count(pulse[0])
<1>1. answered' <=> answered \/ xfer_done
  <2>1. answered' = (answered \/ xfer_done)
    BY DEF Clock, Answer
  <2> QED BY <2>1
<1>2. rxd_irq'[0] \/ xfer_done' => (rxd_irq[0] /\ ~xfer_done) \/ pulse[0]
  <2>1. CASE NUM_DMA_CHAN = 1
    <3>1. rxd_irq' = rxd_irq /\ (xfer_done' <=> pulse[0])
      BY <2>1 DEF Clock, Combine, PassDone
    <3> QED BY <2>1, <3>1 DEF NotThere
  <2>2. CASE NUM_DMA_CHAN = 2
    <3>1. CombineDone
      BY <2>2 DEF Clock, Combine
    <3>2. rxd_irq'[0] => ~ForgetsReceived /\ (rxd_irq[0] \/ pulse[0] \/ Unasked(0))
      BY <3>1 DEF CombineDone, AllChannels
    <3>3. xfer_done' => ~xfer_done /\ rxd_irq[0]
      BY <3>1 DEF CombineDone, AllChannels
    <3> QED BY <3>2, <3>3 DEF Unasked, ForgetsReceived
  <2> QED BY <2>1, <2>2 DEF TypeOK
<1> QED BY <1>1, <1>2 DEF ComingBack, Count

LEMMA BacklogClock ==
  ASSUME TypeOK, TypeOK', NotThere, Backlog, NEW write, NEW ends, Clock(write, ends)
  PROVE  Backlog'
<1>1. /\ dir' = dir /\ given_up' = given_up /\ RunChannels(ends)
      /\ write \in {host, "none"}
      /\ host' = CASE write = "src" -> "dst"
                   [] write = "dst" -> "len"
                   [] write = "len" -> "waiting"
                   [] OTHER -> host
  BY DEF Clock
<1>2. CASE dir # "h2f"
  BY <1>1, <1>2 DEF Backlog
<1>3. CASE dir = "h2f"
  <2>1. Count(host' = "waiting") = Count(host = "waiting") + Count(write = "len")
    BY <1>1 DEF Count
  <2>2. /\ OnTheWay' + Count(ctrl[0].new_cmd) <= OnTheWay + Count(write = "len")
        /\ InChannel' + Count(pulse[0]) <= InChannel + Count(ctrl[0].new_cmd)
        /\ ComingBack' <= ComingBack + Count(pulse[0])
    BY <1>1, <1>3, OnTheWayStep, InChannelStep, ComingBackStep
  <2>3. /\ OnTheWay \in Nat /\ InChannel \in Nat /\ ComingBack \in Nat
        /\ OnTheWay' \in Nat /\ InChannel' \in Nat /\ ComingBack' \in Nat
        /\ given_up \in Nat
    BY BacklogTypes, NextBacklogTypes
  <2>4. /\ Count(host = "waiting") \in Nat /\ Count(write = "len") \in Nat
        /\ Count(pulse[0]) \in Nat /\ Count(ctrl[0].new_cmd) \in Nat
    BY DEF Count
  <2>5. OnTheWay + InChannel + ComingBack <= given_up + Count(host = "waiting")
    BY <1>3 DEF Backlog
  <2>6. OnTheWay' + InChannel' + ComingBack' <= given_up + Count(host' = "waiting")
    <3> HIDE DEF OnTheWay, InChannel, ComingBack, Count
    <3> QED BY <2>1, <2>2, <2>3, <2>4, <2>5
  <2>7. Count(host = "waiting")' = Count(host' = "waiting")
    BY DEF Count
  <2> QED BY <1>1, <1>3, <2>6, <2>7 DEF Backlog
<1> QED BY <1>2, <1>3

\* The host's own steps keep the balance.
LEMMA BacklogHost ==
  ASSUME TypeOK, Backlog,
         \/ \E c \in Commands : Accept(c)
         \/ TakeAnswer
         \/ GiveUp
         \/ UNCHANGED vars
  PROVE  Backlog'
<1>1. UNCHANGED <<dir, new_cmd, new_cmd_d, ctrl, rxd_irq, xfer_done, queue, chan, pulse>>
  BY DEF Accept, TakeAnswer, GiveUp, vars, splitVars, doneVars, chanVars
<1>2. OnTheWay' = OnTheWay /\ InChannel' = InChannel
  BY <1>1 DEF OnTheWay, InChannel, Count
<1>3. /\ OnTheWay \in Nat /\ InChannel \in Nat /\ ComingBack \in Nat
      /\ given_up \in Nat
  BY BacklogTypes
<1>4. ComingBack = Count(rxd_irq[0] \/ xfer_done) + Count(answered)
  BY DEF ComingBack
<1>5. ComingBack' = Count(rxd_irq[0] \/ xfer_done) + Count(answered')
  BY <1>1 DEF ComingBack, Count
<1>6. Count(rxd_irq[0] \/ xfer_done) \in Nat
  BY DEF Count
<1>7. dir = "h2f" =>
        OnTheWay + InChannel + ComingBack <= given_up + Count(host = "waiting")
  BY DEF Backlog
<1> DEFINE m == OnTheWay
           n == InChannel
           r == Count(rxd_irq[0] \/ xfer_done)
<1>8. CASE dir = "h2f"
  <2>1. CASE \E c \in Commands : Accept(c)
    <3>1. host = "idle" /\ host' = "src" /\ answered' = answered /\ given_up' = given_up
      BY <2>1 DEF Accept
    <3> QED BY <1>1, <1>2, <1>4, <1>5, <1>7, <1>8, <3>1 DEF Backlog, Count
  <2>2. CASE TakeAnswer
    <3>1. /\ host = "waiting" /\ answered /\ host' = "idle" /\ ~answered'
          /\ given_up' = given_up
      BY <2>2 DEF TakeAnswer
    <3>2. /\ Count(answered) = 1 /\ Count(answered') = 0
          /\ Count(host = "waiting") = 1 /\ Count(host = "waiting")' = 0
      BY <3>1 DEF Count
    <3>3. OnTheWay' + InChannel' + ComingBack' <= given_up' + Count(host = "waiting")'
      <4>1. PICK k \in Nat : k = Count(rxd_irq[0] \/ xfer_done)
        BY <1>6
      <4>2. ComingBack = k + 1 /\ ComingBack' = k + 0
        BY <1>4, <1>5, <3>2, <4>1
      <4>3. OnTheWay + InChannel + ComingBack <= given_up + 1
        BY <1>7, <1>8, <3>2
      <4>4. OnTheWay + InChannel + ComingBack' <= given_up + 0
        BY <1>3, <4>2, <4>3
      <4> QED BY <1>2, <3>1, <3>2, <4>4
    <3> QED BY <1>1, <1>8, <3>3 DEF Backlog
  <2>3. CASE GiveUp
    <3>1. /\ host = "waiting" /\ host' = "idle" /\ answered' = answered
          /\ given_up' = given_up + 1
      BY <2>3 DEF GiveUp
    <3>2. Count(host = "waiting") = 1 /\ Count(host = "waiting")' = 0
      BY <3>1 DEF Count
    <3>3. ComingBack' = ComingBack
      BY <1>4, <1>5, <3>1
    <3>4. OnTheWay' + InChannel' + ComingBack' <= given_up' + Count(host = "waiting")'
      <4> HIDE DEF OnTheWay, InChannel, ComingBack, Count
      <4> QED BY <1>2, <1>3, <1>7, <1>8, <3>1, <3>2, <3>3
    <3> QED BY <1>1, <1>8, <3>4 DEF Backlog
  <2>4. CASE UNCHANGED vars
    <3>1. UNCHANGED <<host, answered, given_up>>
      BY <2>4 DEF vars
    <3> QED BY <1>1, <1>2, <1>4, <1>5, <1>7, <1>8, <3>1 DEF Backlog, Count
  <2> QED BY <2>1, <2>2, <2>3, <2>4
<1>9. CASE dir # "h2f"
  <2>1. given_up' = given_up
    BY <1>9 DEF Accept, TakeAnswer, GiveUp, vars
  <2> QED BY <1>1, <1>9, <2>1 DEF Backlog
<1> QED BY <1>8, <1>9

LEMMA GiveUpTypes ==
  ASSUME TypeOK, GiveUp
  PROVE  TypeOK'
<1>1. /\ host' = "idle" /\ command' = NULL /\ given_up' = given_up + 1
      /\ UNCHANGED <<NUM_DMA_CHAN, dir, splitVars, doneVars, chanVars, answered>>
  BY DEF GiveUp
<1>2. UNCHANGED <<cmd, new_cmd, new_cmd_d, length_ch0, start_ch1, ctrl,
                  only_ch0_cmd, rxd_irq, wait_irq, xfer_done,
                  queue, chan, pulse, all_complete, moved>>
  BY <1>1 DEF splitVars, doneVars, chanVars
<1> QED BY <1>1, <1>2 DEF TypeOK

LEMMA HostTypes ==
  ASSUME TypeOK,
         \/ \E c \in Commands : Accept(c)
         \/ TakeAnswer
         \/ GiveUp
         \/ UNCHANGED vars
  PROVE  TypeOK'
<1>1. ASSUME NEW c \in Commands, Accept(c) PROVE TypeOK'
  <2>1. /\ c # NULL
        /\ host' = "src" /\ command' = c /\ moved' = {}
        /\ UNCHANGED <<NUM_DMA_CHAN, dir, splitVars, doneVars, queue, chan,
                       pulse, all_complete, answered, given_up>>
    BY <1>1, CommandType DEF Accept
  <2>2. UNCHANGED <<cmd, new_cmd, new_cmd_d, length_ch0, start_ch1, ctrl,
                    only_ch0_cmd, rxd_irq, wait_irq, xfer_done>>
    BY <2>1 DEF splitVars, doneVars
  <2> QED BY <2>1, <2>2 DEF TypeOK
<1>2. CASE TakeAnswer
  <2>1. /\ host' = "idle" /\ command' = NULL /\ answered' \in BOOLEAN
        /\ UNCHANGED <<NUM_DMA_CHAN, dir, splitVars, doneVars, chanVars, given_up>>
    BY <1>2 DEF TakeAnswer
  <2>2. UNCHANGED <<cmd, new_cmd, new_cmd_d, length_ch0, start_ch1, ctrl,
                    only_ch0_cmd, rxd_irq, wait_irq, xfer_done,
                    queue, chan, pulse, all_complete, moved>>
    BY <2>1 DEF splitVars, doneVars, chanVars
  <2> QED BY <2>1, <2>2 DEF TypeOK
<1>3. CASE UNCHANGED vars
  <2>1. UNCHANGED <<NUM_DMA_CHAN, dir, host, command, cmd, new_cmd, new_cmd_d,
                    length_ch0, start_ch1, ctrl, only_ch0_cmd, rxd_irq,
                    wait_irq, xfer_done, queue, chan, pulse, all_complete,
                    moved, answered, given_up>>
    BY <1>3 DEF vars, splitVars, doneVars, chanVars
  <2> QED BY <2>1 DEF TypeOK
<1> QED BY <1>1, <1>2, <1>3, GiveUpTypes

LEMMA StepDInv ==
  ASSUME DInv, [Next]_vars
  PROVE  DInv'
<1>1. TypeOK /\ NotThere /\ Backlog /\ given_up \in Nat
  BY DEF DInv, TypeOK
<1>2. ASSUME NEW write, NEW ends, Clock(write, ends)
      PROVE  TypeOK' /\ NotThere' /\ Backlog' /\ given_up' = given_up
  <2>1. TypeOK'
    BY <1>1, <1>2, ClockTypes DEF NotThere
  <2>2. NotThere'
    <3> SUFFICES ASSUME NUM_DMA_CHAN' = 1 PROVE ~ctrl'[1].new_cmd /\ ~rxd_irq'[0]
      BY DEF NotThere
    <3>1. NUM_DMA_CHAN = 1
      BY <1>2 DEF Clock
    <3>2. /\ ctrl' = [ctrl EXCEPT ![0] = [cmd |-> cmd, new_cmd |-> new_cmd]]
          /\ rxd_irq' = rxd_irq
      BY <1>2, <3>1 DEF Clock, Dispatch, PassCommand, Combine, PassDone
    <3> QED BY <1>1, <3>1, <3>2 DEF NotThere, TypeOK, AllChannels
  <2>3. Backlog'
    BY <1>1, <1>2, <2>1, BacklogClock
  <2> QED BY <1>2, <2>1, <2>2, <2>3 DEF Clock
<1>3. ASSUME \/ \E c \in Commands : Accept(c)
             \/ TakeAnswer
             \/ GiveUp
             \/ UNCHANGED vars
      PROVE  TypeOK' /\ NotThere' /\ Backlog' /\ given_up' \in {given_up, given_up + 1}
  <2>1. UNCHANGED <<NUM_DMA_CHAN, ctrl, rxd_irq>>
    BY <1>3 DEF Accept, TakeAnswer, GiveUp, vars, splitVars, doneVars
  <2>2. given_up' \in {given_up, given_up + 1}
    BY <1>3 DEF Accept, TakeAnswer, GiveUp, vars
  <2> QED BY <1>1, <1>3, <2>1, <2>2, HostTypes, BacklogHost DEF NotThere
<1>4. TypeOK' /\ NotThere' /\ Backlog' /\ given_up' \in {given_up, given_up + 1}
  BY <1>2, <1>3 DEF Next, Clocks
<1>5. given_up' = 0 => IInv'
  <2>1. given_up' = 0 => given_up = 0
    BY <1>1, <1>4
  <2> QED BY <2>1, StepInv DEF DInv
<1> QED BY <1>4, <1>5 DEF DInv

LEMMA InitDInv == Init => DInv
<1> SUFFICES ASSUME Init PROVE DInv
  OBVIOUS
<1>1. IInv
  BY InitInv
<1>2. NotThere
  BY DEF Init, NotThere, AllChannels
<1>3. /\ OnTheWay = 0 /\ ComingBack = 0
  BY DEF Init, OnTheWay, ComingBack, Count, AllChannels
<1>4. InChannel = 0
  <2>1. queue[0] = <<>> /\ chan[0].state # "run" /\ ~pulse[0]
    BY DEF Init, AllChannels
  <2>2. Len(queue[0]) = 0
    BY <2>1
  <2> QED BY <2>1, <2>2 DEF InChannel, Count
<1>5. Backlog
  BY <1>3, <1>4 DEF Init, Backlog, Count
<1> QED BY <1>1, <1>2, <1>5 DEF DInv, IInv

\* The way of a command through the dispatcher (dma_dispatcher.sv), for any
\* commands.  However often and early the host gives up a wait, the commands
\* between it and channel 0 and their answers are bounded by that number; and
\* until it gives one up, the pulse of a command is in one register at most,
\* the parts are there when it arrives, and nothing of the command before is
\* left behind.
THEOREM DispatchInvariance == Spec => []DInv
<1>1. Init => DInv
  BY InitDInv
<1>2. DInv /\ [Next]_vars => DInv'
  BY StepDInv
<1> QED BY <1>1, <1>2, PTL DEF Spec

\* The registers of the dispatcher keep their types and a build of one channel
\* never uses the second (dma_dispatcher.sv).
THEOREM DispatcherTypes == Spec => []TypeOK
<1>1. DInv => TypeOK
  BY DEF DInv
<1> QED BY <1>1, DispatchInvariance, PTL

OneQueued ==
  \A c \in AllChannels :
    /\ Len(queue[c]) <= 1
    /\ queue[c] # <<>> => chan[c].state = "idle" /\ ~ctrl[c].new_cmd

LEMMA DoneFacts ==
  ASSUME IInv
  PROVE  DoneMeansMoved /\ OneQueued
<1> USE DEF AllChannels
<1>0. host = "waiting" => command # NULL /\ command \in Commands
  BY DEF IInv, TypeOK
<1>1. CASE Preparing
  BY <1>1 DEF Preparing, DoneMeansMoved, OneQueued, Rest
<1>2. ASSUME NEW i \in 1 .. 5, Sent(i)
      PROVE  DoneMeansMoved /\ OneQueued
  BY <1>2 DEF Sent, DoneMeansMoved, OneQueued, Rest
<1>3. CASE Working
  <2>1. ASSUME NEW c \in AllChannels
        PROVE  /\ Len(queue[c]) <= 1
               /\ queue[c] # <<>> => chan[c].state = "idle"
    <3>1. \/ queue[c] = <<>>
          \/ queue[c] = <<Part(c)>> /\ chan[c].state = "idle"
      BY <1>3 DEF Working, At, Queued, Running, Ended, Rest
    <3>2. CASE queue[c] = <<>>
      BY <3>2
    <3>3. CASE queue[c] = <<Part(c)>> /\ chan[c].state = "idle"
      <4>1. Len(queue[c]) = 1
        BY <3>3
      <4> QED BY <3>3, <4>1
    <3> QED BY <3>1, <3>2, <3>3
  <2>2. ~ctrl[0].new_cmd /\ ~ctrl[1].new_cmd
    BY <1>3 DEF Working, OnWay
  <2>3. ~xfer_done /\ ~answered
    BY <1>3 DEF Working
  <2> QED BY <2>1, <2>2, <2>3 DEF DoneMeansMoved, OneQueued
<1>4. CASE Finishing
  BY <1>0, <1>4 DEF Finishing, DoneMeansMoved, OneQueued, Rest, Whole
<1>5. CASE Magic
  BY <1>0, <1>5 DEF Magic, DoneMeansMoved, OneQueued, Rest, Whole
<1>6. CASE Answered
  BY <1>0, <1>6 DEF Answered, DoneMeansMoved, OneQueued, Rest, Whole
<1> QED BY <1>1, <1>2, <1>3, <1>4, <1>5, <1>6 DEF IInv, Stage

\* The completion is raised, and the host told, only when all channels have
\* moved what they were given (dma_dispatcher.sv:318-365), for any commands,
\* until the host gives up a wait.
THEOREM DoneMeansAllMoved == Spec => []DoneMeansMoved
<1>1. DInv => DoneMeansMoved
  <2>1. CASE given_up = 0
    BY <2>1, DoneFacts DEF DInv
  <2>2. CASE given_up # 0
    BY <2>2 DEF DoneMeansMoved
  <2> QED BY <2>1, <2>2
<1> QED BY <1>1, DispatchInvariance, PTL

\* The command FIFOs are written without a look at their full flag
\* (dma_data_transfer.sv:181-187).  That of channel 0 is at most one command
\* ahead for every wait the driver has given up (mmd_dma.cpp:316-358), whatever
\* the channels do and however many there are; and before the first one no FIFO
\* holds more than one command.
THEOREM FifoStaysBounded == Spec => []FifoBacklog
<1>1. DInv => FifoBacklog
  <2> SUFFICES ASSUME DInv PROVE FifoBacklog
    OBVIOUS
  <2>1. TypeOK /\ Backlog /\ given_up \in Nat
    BY DEF DInv, TypeOK
  <2>2. given_up = 0 => OneQueued
    BY DoneFacts DEF DInv
  <2>3. Len(queue[0]) <= given_up + 1
    <3>1. CASE given_up = 0
      BY <2>2, <3>1 DEF OneQueued, AllChannels
    <3>2. CASE given_up # 0
      <4>1. OnTheWay + InChannel + ComingBack <= given_up + Count(host = "waiting")
        BY <2>1, <3>2 DEF Backlog
      <4>2. /\ OnTheWay \in Nat /\ InChannel \in Nat /\ ComingBack \in Nat
            /\ Len(queue[0]) \in Nat
        BY <2>1, BacklogTypes
      <4>3. PICK h \in 0 .. 1, r \in Nat, p \in Nat :
              /\ h = Count(host = "waiting") /\ r = Count(chan[0].state = "run")
              /\ p = Count(pulse[0])
        BY DEF Count
      <4>4. InChannel = Len(queue[0]) + r + p
        BY <4>3 DEF InChannel
      <4>5. OnTheWay + InChannel + ComingBack <= given_up + h
        BY <4>1, <4>3
      <4> QED BY <2>1, <4>2, <4>4, <4>5
    <3> QED BY <3>1, <3>2
  <2> QED BY <2>2, <2>3 DEF FifoBacklog, OneQueued
<1> QED BY <1>1, DispatchInvariance, PTL

-----------------------------------------------------------------------------
(***************************************************************************)
(* Refinement.                                                             *)
(***************************************************************************)
\* What has been moved is of the command.
MovedOfCommand == command # NULL => moved \subseteq D!Bytes(command)

LEMMA MovedOfCommandHolds ==
  ASSUME IInv
  PROVE  MovedOfCommand
<1> USE DEF MovedOfCommand
<1>1. CASE Preparing
  BY <1>1 DEF IInv, TypeOK, Preparing
<1>2. ASSUME NEW i \in 1 .. 5, Sent(i) PROVE moved = {}
  BY <1>2 DEF Sent
<1>3. CASE Working
  <2>1. command \in Commands /\ NUM_DMA_CHAN \in {1, 2}
    BY <1>3 DEF IInv, TypeOK, Working
  <2> QED BY <1>3, <2>1, PartsMakeCommand DEF Working
<1>4. CASE Finishing \/ Magic \/ Answered
  BY <1>4 DEF Finishing, Magic, Answered, Whole
<1> QED BY <1>1, <1>2, <1>3, <1>4 DEF IInv, Stage

\* However a command is split over the channels and its parts end, it is moved
\* as one descriptor (dma_dispatcher.sv, dma_data_transfer.sv:8-17), for any
\* commands and both numbers of channels, until the host gives up a wait.
THEOREM DispatcherImplements == Spec => ImplementsDescriptor
<1>1. Init => D!Init
  BY DEF Init, D!Init
<1>2. DInv => (given_up = 0 => MovedOfCommand)
  BY MovedOfCommandHolds DEF DInv
<1>3. DInv /\ (given_up = 0 => MovedOfCommand)' /\ [Next]_vars => [D!Next]_D!vars
  <2> SUFFICES ASSUME DInv, given_up' = 0 => MovedOfCommand', [Next]_vars
               PROVE  D!Next \/ UNCHANGED D!vars
    BY DEF D!vars
  <2>0. given_up \in Nat
    BY DEF DInv, TypeOK
  <2>1. ASSUME NEW c \in Commands, Accept(c)
        PROVE  D!Next
    <3>1. /\ command = NULL /\ command' = c /\ moved' = {} /\ given_up' = given_up
      BY <2>1 DEF DInv, TypeOK, Accept
    <3>2. D!Accept(c)
      BY <3>1 DEF D!Accept
    <3>3. CASE given_up = 0
      BY <3>1, <3>2, <3>3 DEF D!Next, D!Execute
    <3>4. CASE given_up > 0
      BY <3>1, <3>4 DEF D!Next, D!Abandoned
    <3> QED BY <2>0, <3>3, <3>4
  <2>2. ASSUME NEW write, NEW ends, Clock(write, ends)
        PROVE  D!Next \/ UNCHANGED D!vars
    <3>1. command' = command /\ RunChannels(ends) /\ given_up' = given_up
      BY <2>2 DEF Clock
    <3>2. CASE given_up > 0
      BY <3>1, <3>2 DEF D!Next, D!Abandoned
    <3>3. CASE given_up = 0 /\ command = NULL
      <4>1. Preparing
        BY <3>3 DEF DInv, IInv, TypeOK, Stage, Sent, Working, Finishing, Magic, Answered
      <4>2. moved' = moved
        BY <3>1, <3>3, <4>1, MovedStep DEF Preparing, Rest, EndsRun
      <4> QED BY <3>1, <4>2 DEF D!vars
    <3>4. CASE given_up = 0 /\ command # NULL
      <4>1. moved \subseteq moved'
        BY <3>1, <3>4, MovedStep
      <4>2. moved' \subseteq D!Bytes(command)
        BY <3>1, <3>4 DEF MovedOfCommand
      <4>3. D!Move
        BY <3>1, <3>4, <4>1, <4>2 DEF D!Move
      <4> QED BY <3>1, <3>4, <4>3 DEF D!Next, D!Execute
    <3> QED BY <2>0, <3>2, <3>3, <3>4
  <2>3. CASE TakeAnswer
    <3>1. /\ command' = NULL /\ moved' = moved /\ given_up' = given_up
          /\ answered /\ host = "waiting"
      BY <2>3 DEF TakeAnswer, chanVars
    <3>2. CASE given_up = 0
      <4>1. command # NULL /\ moved = D!Bytes(command)
        BY <3>1, <3>2, DoneFacts DEF DInv, DoneMeansMoved
      <4>2. D!Complete
        BY <3>1, <4>1 DEF D!Complete
      <4> QED BY <3>1, <3>2, <4>2 DEF D!Next, D!Execute
    <3>3. CASE given_up > 0
      BY <3>1, <3>3 DEF D!Next, D!Abandoned
    <3> QED BY <2>0, <3>2, <3>3
  <2>4. CASE GiveUp
    <3>1. given_up' > 0
      BY <2>0, <2>4 DEF GiveUp
    <3> QED BY <3>1 DEF D!Next, D!Abandoned
  <2>5. CASE UNCHANGED vars
    BY <2>5 DEF vars, chanVars, D!vars
  <2> QED BY <2>1, <2>2, <2>3, <2>4, <2>5 DEF Next, Clocks
<1> QED BY <1>1, <1>2, <1>3, DispatchInvariance, PTL
     DEF Spec, ImplementsDescriptor, D!Spec

-----------------------------------------------------------------------------
(***************************************************************************)
(* What the dispatcher gives a channel.  Given(c) is the command channel c *)
(* has been given and has not ended, MovedBy(c) what it has moved of the   *)
(* last one.                                                               *)
(***************************************************************************)
ChannelCommands == [src : Nat, dst : Nat, len : Nat \ {0}]

Given(c) ==
  IF queue[c] # <<>> THEN Head(queue[c])
  ELSE IF chan[c].state # "idle" \/ pulse[c] THEN chan[c].cmd ELSE NULL

MovedBy(c) ==
  IF queue[c] # <<>> \/ chan[c].state = "run" THEN {}
  ELSE D!Bytes(chan[c].cmd)

Channel0 == INSTANCE DmaDescriptor
  WITH Commands <- ChannelCommands, descriptor <- Given(0), moved <- MovedBy(0),
       given_up <- given_up > 0
Channel1 == INSTANCE DmaDescriptor
  WITH Commands <- ChannelCommands, descriptor <- Given(1), moved <- MovedBy(1),
       given_up <- given_up > 0

\* The steps of DmaDescriptor, for a channel.
ChannelAccepts(c) ==
  /\ Given(c) = NULL /\ Given(c)' \in ChannelCommands
  /\ MovedBy(c)' = {}
ChannelMoves(c) ==
  /\ Given(c) # NULL /\ Given(c)' = Given(c)
  /\ MovedBy(c) \subseteq MovedBy(c)' /\ MovedBy(c)' \subseteq D!Bytes(Given(c))
ChannelCompletes(c) ==
  /\ Given(c) # NULL /\ Given(c)' = NULL
  /\ MovedBy(c) = D!Bytes(Given(c)) /\ MovedBy(c)' = MovedBy(c)
ChannelIdles(c) == Given(c)' = Given(c) /\ MovedBy(c)' = MovedBy(c)
ChannelSteps(c) ==
  ChannelAccepts(c) \/ ChannelMoves(c) \/ ChannelCompletes(c) \/ ChannelIdles(c)

\* What a channel has been given has a byte to move.
GivenInv ==
  \A c \in AllChannels :
    /\ queue[c] # <<>> => Head(queue[c]) \in ChannelCommands
    /\ chan[c].state # "idle" \/ pulse[c] => chan[c].cmd \in ChannelCommands

LEMMA CommandsGiven ==
  ASSUME NEW x \in ChannelCommands
  PROVE  x # NULL /\ x \in Register
  BY CommandsAssumption DEF ChannelCommands, Register

\* A new command finds its channel at rest, and so does one in its FIFO.
LEMMA ChannelFacts ==
  ASSUME IInv, NEW c \in AllChannels
  PROVE  /\ ctrl[c].new_cmd => Rest(c) /\ ctrl[c].cmd \in ChannelCommands
         /\ queue[c] # <<>> => /\ Len(queue[c]) = 1
                               /\ chan[c].state = "idle" /\ ~pulse[c]
<1> USE DEF AllChannels
<1>1. ASSUME OnWay(0) PROVE ~ctrl[c].new_cmd
  BY <1>1 DEF OnWay
<1>2. CASE Preparing
  BY <1>1, <1>2 DEF Preparing, Rest
<1>3. ASSUME NEW i \in 1 .. 5, Sent(i)
      PROVE  /\ queue[c] = <<>>
             /\ ctrl[c].new_cmd => Rest(c) /\ ctrl[c].cmd \in ChannelCommands
  <2>1. Rest(c) /\ queue[c] = <<>>
    BY <1>3 DEF Sent, Rest
  <2>2. ASSUME ctrl[c].new_cmd PROVE ctrl[c].cmd \in ChannelCommands
    <3>1. i = 5 /\ (c = 1 => AsksSecond)
      BY <1>3, <2>2 DEF Sent, OnWay
    <3>2. ctrl[c].cmd = Part(c)
      BY <1>3, <3>1 DEF Sent
    <3>3. command \in Commands /\ NUM_DMA_CHAN \in {1, 2}
      BY <1>3 DEF IInv, TypeOK, Sent
    <3>4. /\ command.src \in Nat /\ command.dst \in Nat /\ command.len \in Nat
          /\ command.len > 0 /\ command \in Register
      BY <3>3, CommandType
    <3>5. CASE NUM_DMA_CHAN = 1
      BY <3>1, <3>2, <3>4, <3>5 DEF Part, AsksSecond, ChannelCommands, Register
    <3>6. CASE NUM_DMA_CHAN = 2
      <4>1. /\ HalfUp(command.len) \in Nat /\ HalfUp(command.len) > 0
            /\ Half(command.len) \in Nat
        BY <3>4 DEF HalfUp, Half
      <4>2. c = 1 => Half(command.len) # 0
        BY <3>1 DEF AsksSecond
      <4>3. /\ command.src + HalfUp(command.len) \in Nat
            /\ command.dst + HalfUp(command.len) \in Nat
        BY <3>4, <4>1
      <4> HIDE DEF HalfUp, Half
      <4>4. CASE c = 0
        BY <3>2, <3>4, <3>6, <4>1, <4>4 DEF Part, ChannelCommands
      <4>5. CASE c = 1
        BY <3>2, <3>4, <3>6, <4>1, <4>2, <4>3, <4>5 DEF Part, ChannelCommands
      <4> QED BY <4>4, <4>5
    <3> QED BY <3>3, <3>5, <3>6
  <2> QED BY <2>1, <2>2
<1>4. CASE Working
  <2>1. \/ queue[c] = <<>>
        \/ queue[c] = <<Part(c)>> /\ chan[c].state = "idle" /\ ~pulse[c]
    BY <1>4 DEF Working, At, Queued, Running, Ended, Rest
  <2>2. queue[c] = <<Part(c)>> => Len(queue[c]) = 1
    OBVIOUS
  <2>3. OnWay(0)
    BY <1>4 DEF Working
  <2> QED BY <1>1, <2>1, <2>2, <2>3
<1>5. CASE Finishing \/ Magic \/ Answered
  BY <1>1, <1>5 DEF Finishing, Magic, Answered, Rest
<1> QED BY <1>2, <1>3, <1>4, <1>5 DEF IInv, Stage

\* A clock of a channel: it takes a command, begins, ends its run, or is done.
LEMMA ChannelClock ==
  ASSUME IInv, GivenInv, NEW c \in AllChannels, NEW ends, RunChannels(ends)
  PROVE  /\ queue'[c] # <<>> => Head(queue'[c]) \in ChannelCommands
         /\ chan'[c].state # "idle" \/ pulse'[c] => chan'[c].cmd \in ChannelCommands
         /\ ChannelSteps(c)
<1>1. /\ ~ctrl[c].new_cmd =>
           queue'[c] = (IF Pops(c) THEN Tail(queue[c]) ELSE queue[c]) \o <<>>
      /\ ctrl[c].new_cmd /\ queue[c] = <<>> =>
           queue'[c] = queue[c] \o <<ctrl[c].cmd>>
      /\ chan'[c].state = NextState(c, ends)
      /\ chan'[c].cmd = IF Pops(c) THEN Head(queue[c]) ELSE chan[c].cmd
      /\ pulse'[c] = EndsRun(c, ends)
  BY QueueStep DEF RunChannels
<1>t. /\ queue[c] \in Seq(Register)
      /\ chan[c].state \in {"idle", "run", "wait", "magic"}
      /\ ctrl[c].new_cmd \in BOOLEAN /\ pulse[c] \in BOOLEAN
  BY DEF IInv, TypeOK, Register
<1>2. CASE ctrl[c].new_cmd
  <2>1. /\ queue[c] = <<>> /\ chan[c].state = "idle" /\ ~pulse[c]
        /\ ctrl[c].cmd \in ChannelCommands
    BY <1>2, ChannelFacts DEF Rest
  <2>2. /\ queue'[c] = <<ctrl[c].cmd>> /\ chan'[c].state = "idle" /\ ~pulse'[c]
    <3>1. ~Pops(c) /\ chan'[c].state = "idle" /\ ~pulse'[c]
      BY <1>1, <2>1 DEF Pops, NextState, EndsRun
    <3>2. queue'[c] = <<>> \o <<ctrl[c].cmd>>
      BY <1>1, <1>2, <2>1, <3>1
    <3>3. <<>> \o <<ctrl[c].cmd>> = <<ctrl[c].cmd>>
      OBVIOUS
    <3> QED BY <3>1, <3>2, <3>3
  <2>3. queue'[c] # <<>> /\ Head(queue'[c]) = ctrl[c].cmd
    BY <2>2
  <2>4. /\ Given(c) = NULL /\ Given(c)' = ctrl[c].cmd /\ MovedBy(c)' = {}
    BY <2>1, <2>3 DEF Given, MovedBy
  <2>5. ChannelAccepts(c)
    BY <2>1, <2>4 DEF ChannelAccepts
  <2> QED BY <2>1, <2>2, <2>3, <2>5 DEF ChannelSteps
<1>3. CASE ~ctrl[c].new_cmd /\ queue[c] # <<>>
  <2>1. /\ Len(queue[c]) = 1 /\ chan[c].state = "idle" /\ ~pulse[c]
        /\ Head(queue[c]) \in ChannelCommands
    BY <1>3, ChannelFacts DEF GivenInv
  <2>2. Pops(c)
    BY <1>3, <2>1 DEF Pops
  <2>3. Tail(queue[c]) = <<>>
    <3>1. /\ Tail(queue[c]) \in Seq(Register)
          /\ Len(Tail(queue[c])) = 0
      BY <1>t, <1>3, <2>1, HeadTailProperties
    <3> QED BY <3>1, EmptySeq
  <2>4. /\ queue'[c] = <<>> /\ chan'[c].state = "run" /\ ~pulse'[c]
        /\ chan'[c].cmd = Head(queue[c])
    <3>1. chan'[c].state = "run" /\ ~pulse'[c]
      BY <1>1, <1>3, <2>1 DEF NextState, EndsRun
    <3>2. queue'[c] = <<>> \o <<>>
      BY <1>1, <1>3, <2>2, <2>3
    <3>3. chan'[c].cmd = Head(queue[c])
      BY <1>1, <2>2
    <3>4. <<>> \o <<>> = <<>>
      OBVIOUS
    <3> QED BY <3>1, <3>2, <3>3, <3>4
  <2>5. /\ Given(c) = Head(queue[c]) /\ Given(c)' = Head(queue[c])
        /\ MovedBy(c) = {} /\ MovedBy(c)' = {}
    BY <1>3, <2>4 DEF Given, MovedBy
  <2> QED BY <2>1, <2>4, <2>5 DEF ChannelSteps, ChannelIdles
<1>4. CASE ~ctrl[c].new_cmd /\ queue[c] = <<>>
  <2>1. /\ queue'[c] = <<>> /\ chan'[c].cmd = chan[c].cmd
    BY <1>1, <1>4 DEF Pops
  <2>2. MovedBy(c) = (IF chan[c].state = "run" THEN {} ELSE D!Bytes(chan[c].cmd))
    BY <1>4 DEF MovedBy
  <2>3. MovedBy(c)' = (IF chan'[c].state = "run" THEN {} ELSE D!Bytes(chan[c].cmd))
    BY <2>1 DEF MovedBy, D!Bytes
  <2>4. Given(c) = (IF chan[c].state # "idle" \/ pulse[c] THEN chan[c].cmd ELSE NULL)
    BY <1>4 DEF Given
  <2>5. Given(c)' = (IF chan'[c].state # "idle" \/ pulse'[c] THEN chan[c].cmd ELSE NULL)
    BY <2>1 DEF Given
  <2>6. CASE chan[c].state = "run"
    <3>1. chan[c].cmd \in ChannelCommands /\ chan[c].cmd # NULL
      BY <2>6, CommandsGiven DEF GivenInv
    <3>2. chan'[c].state # "idle" \/ pulse'[c]
      BY <1>1, <2>6 DEF NextState, EndsRun
    <3>3. Given(c) = chan[c].cmd /\ Given(c)' = chan[c].cmd
      BY <2>4, <2>5, <2>6, <3>2
    <3>4. MovedBy(c) = {} /\ MovedBy(c)' \subseteq D!Bytes(chan[c].cmd)
      BY <2>2, <2>3, <2>6
    <3>5. ChannelMoves(c)
      BY <3>1, <3>3, <3>4 DEF ChannelMoves
    <3> QED BY <2>1, <3>1, <3>5 DEF ChannelSteps
  <2>7. CASE chan[c].state = "idle"
    <3>1. chan'[c].state = "idle" /\ ~pulse'[c]
      BY <1>1, <1>4, <2>7 DEF NextState, EndsRun
    <3>2. MovedBy(c)' = MovedBy(c) /\ Given(c)' = NULL
      BY <2>2, <2>3, <2>5, <2>7, <3>1
    <3>3. CASE pulse[c]
      <4>1. Given(c) = chan[c].cmd /\ chan[c].cmd # NULL
        BY <2>4, <3>3, CommandsGiven DEF GivenInv
      <4>2. MovedBy(c) = D!Bytes(chan[c].cmd)
        BY <2>2, <2>7
      <4>3. ChannelCompletes(c)
        BY <3>2, <4>1, <4>2 DEF ChannelCompletes
      <4> QED BY <2>1, <3>1, <4>3 DEF ChannelSteps
    <3>4. CASE ~pulse[c]
      <4>1. Given(c) = NULL
        BY <2>4, <2>7, <3>4
      <4> QED BY <2>1, <3>1, <3>2, <4>1 DEF ChannelSteps, ChannelIdles
    <3> QED BY <3>3, <3>4
  <2>8. CASE chan[c].state \in {"wait", "magic"}
    <3>1. chan[c].cmd \in ChannelCommands /\ chan[c].cmd # NULL
      BY <2>8, CommandsGiven DEF GivenInv
    <3>2. chan'[c].state \in {"idle", "wait", "magic"} /\ ~pulse'[c]
      BY <1>1, <2>8 DEF NextState, EndsRun
    <3>3. /\ MovedBy(c) = D!Bytes(chan[c].cmd) /\ MovedBy(c)' = MovedBy(c)
          /\ Given(c) = chan[c].cmd
      BY <2>2, <2>3, <2>4, <2>8, <3>2
    <3>4. CASE chan'[c].state = "idle"
      <4>1. Given(c)' = NULL
        BY <2>5, <3>2, <3>4
      <4>2. ChannelCompletes(c)
        BY <3>1, <3>3, <4>1 DEF ChannelCompletes
      <4> QED BY <2>1, <3>1, <4>2 DEF ChannelSteps
    <3>5. CASE chan'[c].state # "idle"
      <4>1. Given(c)' = Given(c)
        BY <2>5, <3>3, <3>5
      <4> QED BY <2>1, <3>1, <3>3, <4>1 DEF ChannelSteps, ChannelIdles
    <3> QED BY <3>4, <3>5
  <2> QED BY <1>t, <2>6, <2>7, <2>8
<1> QED BY <1>2, <1>3, <1>4

LEMMA ChannelStep ==
  ASSUME IInv, GivenInv, [Next]_vars, given_up' = 0
  PROVE  /\ GivenInv'
         /\ \A c \in AllChannels : ChannelSteps(c)
<1>1. ASSUME NEW write, NEW ends, Clock(write, ends)
      PROVE  /\ GivenInv'
             /\ \A c \in AllChannels : ChannelSteps(c)
  <2>1. RunChannels(ends)
    BY <1>1 DEF Clock
  <2>2. \A c \in AllChannels :
          /\ queue'[c] # <<>> => Head(queue'[c]) \in ChannelCommands
          /\ chan'[c].state # "idle" \/ pulse'[c] => chan'[c].cmd \in ChannelCommands
          /\ ChannelSteps(c)
    BY <2>1, ChannelClock
  <2> QED BY <2>2 DEF GivenInv, ChannelCommands
<1>2. ASSUME UNCHANGED <<queue, chan, pulse>>
      PROVE  /\ GivenInv'
             /\ \A c \in AllChannels : ChannelSteps(c)
  <2>1. GivenInv'
    BY <1>2 DEF GivenInv, ChannelCommands
  <2>2. ASSUME NEW c \in AllChannels
        PROVE  Given(c)' = Given(c) /\ MovedBy(c)' = MovedBy(c)
    BY <1>2 DEF Given, MovedBy, D!Bytes
  <2> QED BY <2>1, <2>2 DEF ChannelSteps, ChannelIdles
<1>3. \/ UNCHANGED <<queue, chan, pulse>>
      \/ \E write, ends : Clock(write, ends)
  BY DEF Next, Clocks, Accept, TakeAnswer, GiveUp, vars, chanVars
<1> QED BY <1>1, <1>2, <1>3

\* dma_data_transfer.sv:181-187 and dma_dispatcher.sv:223-290: until the host
\* gives up a wait, each channel is given what DmaTransfer assumes, for any
\* commands of the host and both numbers of channels: one command at a time, the
\* next only when the one before has ended, and never one without a byte to move.
THEOREM ChannelsGetDescriptors == Spec => Channel0!Spec /\ Channel1!Spec
<1> DEFINE G == given_up = 0 => GivenInv
<1>1. Init => G /\ Channel0!Init /\ Channel1!Init
  <2> SUFFICES ASSUME Init PROVE GivenInv /\ Channel0!Init /\ Channel1!Init
    OBVIOUS
  <2>1. /\ \A c \in AllChannels : /\ queue[c] = <<>> /\ ~pulse[c]
                                  /\ chan[c] = [state |-> "idle", cmd |-> NoCommand]
        /\ given_up = 0
    BY DEF Init
  <2>2. D!Bytes(NoCommand) = {}
    BY DEF D!Bytes, NoCommand
  <2>3. \A c \in AllChannels : Given(c) = NULL /\ MovedBy(c) = {}
    BY <2>1, <2>2 DEF Given, MovedBy
  <2>4. GivenInv
    BY <2>1 DEF GivenInv
  <2> QED BY <2>1, <2>3, <2>4 DEF Channel0!Init, Channel1!Init, AllChannels
<1>a. DInv /\ [Next]_vars => given_up \in Nat /\ (given_up' = 0 => given_up = 0)
  <2> SUFFICES ASSUME DInv, [Next]_vars
               PROVE  given_up \in Nat /\ (given_up' = 0 => given_up = 0)
    OBVIOUS
  <2>1. given_up \in Nat
    BY DEF DInv, TypeOK
  <2>2. given_up' \in {given_up, given_up + 1}
    BY DEF Next, Clocks, Clock, Accept, TakeAnswer, GiveUp, vars
  <2> QED BY <2>1, <2>2
<1>2. DInv /\ G /\ [Next]_vars => G'
  BY <1>a, ChannelStep DEF DInv
<1>3. DInv /\ G /\ [Next]_vars =>
        [Channel0!Next]_(Channel0!vars) /\ [Channel1!Next]_(Channel1!vars)
  <2> SUFFICES ASSUME DInv, G, [Next]_vars
               PROVE  [Channel0!Next]_(Channel0!vars) /\ [Channel1!Next]_(Channel1!vars)
    OBVIOUS
  <2>1. CASE given_up' = 0
    <3>1. given_up = 0 /\ ChannelSteps(0) /\ ChannelSteps(1)
      BY <1>a, <2>1, ChannelStep DEF AllChannels, DInv
    <3>2. [Channel0!Next]_(Channel0!vars)
      BY <2>1, <3>1
         DEF ChannelSteps, ChannelAccepts, ChannelMoves, ChannelCompletes, ChannelIdles,
             Channel0!Next, Channel0!Execute, Channel0!Accept, Channel0!Move,
             Channel0!Complete, Channel0!vars, Channel0!Bytes, D!Bytes
    <3>3. [Channel1!Next]_(Channel1!vars)
      BY <2>1, <3>1
         DEF ChannelSteps, ChannelAccepts, ChannelMoves, ChannelCompletes, ChannelIdles,
             Channel1!Next, Channel1!Execute, Channel1!Accept, Channel1!Move,
             Channel1!Complete, Channel1!vars, Channel1!Bytes, D!Bytes
    <3> QED BY <3>2, <3>3
  <2>2. CASE given_up' # 0
    <3>1. given_up' > 0
      <4>1. given_up' \in Nat
        BY StepDInv DEF DInv, TypeOK
      <4> QED BY <2>2, <4>1
    <3> QED BY <3>1 DEF Channel0!Next, Channel0!Abandoned, Channel1!Next, Channel1!Abandoned
  <2> QED BY <2>1, <2>2
<1> QED BY <1>1, <1>2, <1>3, DispatchInvariance, PTL DEF Spec, Channel0!Spec, Channel1!Spec

-----------------------------------------------------------------------------
(***************************************************************************)
(* Progress.  A command has so many clocks in front of it, besides those   *)
(* in which the dispatcher waits for a channel or the host.                *)
(***************************************************************************)
\* Both latches of the request are set while the channels work, and a second
\* channel that was not asked counts as ended.
RequestsInv ==
  NUM_DMA_CHAN = 2 /\ Working =>
    /\ wait_irq[0] /\ wait_irq[1]
    /\ ~AsksSecond => rxd_irq[1]

\* What channel c has in front of it: to pop, to run, and to be latched.
ToEnd(c) ==
  IF queue[c] # <<>> THEN 3
  ELSE IF chan[c].state = "run" THEN 2
  ELSE IF pulse[c] THEN 1 ELSE 0

\* What a command has in front of it: to be written, split, moved, completed
\* and, towards the host, followed by the magic number.
ToAnswer ==
  CASE host = "idle" -> 0
    [] host = "src"  -> 20
    [] host = "dst"  -> 19
    [] host = "len"  -> 18
    [] OTHER -> IF answered THEN 1
                ELSE IF all_complete THEN IF chan[0].state = "magic" THEN 2 ELSE 3
                ELSE IF xfer_done THEN 4
                ELSE IF new_cmd THEN 17
                ELSE IF new_cmd_d[1] THEN 16
                ELSE IF new_cmd_d[2] THEN 15
                ELSE IF new_cmd_d[3] THEN 14
                ELSE IF ctrl[0].new_cmd THEN 13
                ELSE 5 + ToEnd(0) + ToEnd(1)

\* A channel that moves bytes or writes the magic number.
AtWork(c) == chan[c].state \in {"run", "magic"}

\* The dispatcher itself has the next thing to do.
OwnTurn == host = "waiting" /\ ~answered /\ \A c \in AllChannels : ~AtWork(c)

\* A register that takes another value at the next clock.
Due ==
  \/ new_cmd \/ (\E i \in 1 .. 3 : new_cmd_d[i]) \/ ctrl[0].new_cmd
  \/ \E c \in AllChannels : queue[c] # <<>> \/ pulse[c]
  \/ NUM_DMA_CHAN = 2 /\ \A c \in AllChannels : wait_irq[c] /\ rxd_irq[c]
  \/ xfer_done
  \/ chan[0].state = "wait" /\ all_complete

ClockNearer(write, ends) ==
  /\ ToAnswer' <= ToAnswer
  /\ write # "none" => ToAnswer' < ToAnswer
  /\ OwnTurn => ToAnswer' < ToAnswer
  /\ (\E c \in ends : AtWork(c)) => ToAnswer' < ToAnswer

AnswerProgress ==
  /\ \A write \in {"none", "src", "dst", "len"}, ends \in SUBSET AllChannels :
       Clock(write, ends) => ClockNearer(write, ends)
  /\ TakeAnswer => ToAnswer' < ToAnswer

\* The requests that are latched in a clock.
LEMMA RequestsLatched ==
  ASSUME NEW write, NEW ends, Clock(write, ends), NUM_DMA_CHAN = 2
  PROVE  /\ wait_irq'[0] <=> ~xfer_done /\ (wait_irq[0] \/ ctrl[0].new_cmd)
         /\ wait_irq'[1] <=> ~xfer_done /\ (wait_irq[1] \/ ctrl[1].new_cmd \/ only_ch0_cmd)
         /\ xfer_done' <=> /\ ~xfer_done
                           /\ wait_irq[0] /\ rxd_irq[0]
                           /\ wait_irq[1] /\ rxd_irq[1]
<1>1. CombineDone
  BY DEF Clock, Combine
<1>2. /\ wait_irq'[0] = (~xfer_done /\ (wait_irq[0] \/ ctrl[0].new_cmd \/ Unasked(0)))
      /\ wait_irq'[1] = (~xfer_done /\ (wait_irq[1] \/ ctrl[1].new_cmd \/ Unasked(1)))
      /\ xfer_done' = (~xfer_done /\ \A c \in AllChannels : wait_irq[c] /\ rxd_irq[c])
  BY <1>1 DEF CombineDone, AllChannels
<1>3. ~Unasked(0) /\ (Unasked(1) <=> only_ch0_cmd)
  BY DEF Unasked
<1> QED BY <1>2, <1>3 DEF AllChannels

\* The stages from one clock to the next.
LEMMA NextStage ==
  ASSUME IInv, NEW write, NEW ends, Clock(write, ends)
  PROVE  /\ Preparing => Preparing' \/ Sent(1)'
         /\ Sent(5) => Working'
         /\ \A i \in 1 .. 4, k \in 1 .. 5 :
              Sent(i) /\ k = (IF NUM_DMA_CHAN = 1 THEN 5 ELSE i + 1) => Sent(k)'
         /\ Working => Working' \/ Finishing'
         /\ Finishing => Magic' \/ Answered'
         /\ Magic => Magic' \/ Answered'
         /\ Answered => Answered'
<1>1. TypeOK /\ given_up = 0 /\ OneChannel /\ PartsComputed
  BY DEF IInv
<1>2. ASSUME NEW i \in 1 .. 5, Sent(i), NEW k \in 0 .. 5,
             k = IF i = 5 THEN 0 ELSE IF NUM_DMA_CHAN = 1 THEN 5 ELSE i + 1
      PROVE  IF k = 0 THEN Working' ELSE Sent(k)'
  <2>1. /\ host = "waiting" /\ write # "len" /\ cmd = command /\ OnWay(i)
        /\ UNCHANGED <<NUM_DMA_CHAN, command>> /\ NUM_DMA_CHAN \in {1, 2}
        /\ CommandRegisters(write) /\ Dispatch
        /\ NUM_DMA_CHAN = 1 => i \in {1, 5}
    BY <1>1, <1>2 DEF Clock, Sent, TypeOK, PartsComputed
  <2>3. OnWay(k)'
    <3>1. /\ i \in 0 .. 5 /\ i # 0
          /\ NUM_DMA_CHAN = 1 => i \in {0, 1, 5}
          /\ k = IF write = "len" THEN 1
                 ELSE IF i \in {0, 5} THEN 0
                 ELSE IF NUM_DMA_CHAN = 1 THEN 5 ELSE i + 1
      BY <1>2, <2>1
    <3> QED BY <1>1, <2>1, <3>1, PulseMoves
  <2>4. (\E m \in 1 .. 5 : Sent(m)') \/ Working'
    BY <1>1, <1>2, SentStep
  <2>5. ASSUME NEW m \in 1 .. 5, Sent(m)' PROVE m = k
    BY <2>3, <2>5 DEF Sent, OnWay
  <2>6. k # 0 => ~Working'
    BY <2>3 DEF Working, OnWay
  <2> QED BY <2>1, <2>4, <2>5, <2>6, <1>2
<1>3. Sent(5) => Working'
  BY <1>2
<1>4. ASSUME NEW i \in 1 .. 4, NEW k \in 1 .. 5, Sent(i),
             k = IF NUM_DMA_CHAN = 1 THEN 5 ELSE i + 1
      PROVE  Sent(k)'
  BY <1>2, <1>4
<1> QED BY <1>1, <1>3, <1>4, PreparingStep, WorkingStep, FinishingStep, MagicStep, AnsweredStep

LEMMA RequestsClock ==
  ASSUME IInv, RequestsInv, NEW write, NEW ends, Clock(write, ends)
  PROVE  RequestsInv'
<1>1. TypeOK /\ OneChannel /\ PartsComputed /\ Stage
  BY DEF IInv
<1>2. UNCHANGED <<NUM_DMA_CHAN, command>> /\ (AsksSecond' <=> AsksSecond)
  BY PartsStay DEF Clock
<1> SUFFICES ASSUME NUM_DMA_CHAN = 2, Working'
             PROVE  /\ wait_irq'[0] /\ wait_irq'[1]
                    /\ ~AsksSecond => rxd_irq'[1]
  BY <1>2 DEF RequestsInv
<1>3. CASE Sent(5)
  <2>1. /\ ~xfer_done /\ ctrl[0].new_cmd /\ ~new_cmd
        /\ ctrl[1].new_cmd <=> AsksSecond
        /\ host = "waiting"
    BY <1>3 DEF Sent, OnWay
  <2>2. ~AsksSecond => only_ch0_cmd
    BY <1>1, <2>1 DEF AsksSecond, PartsComputed
  <2> QED BY <1>1, <2>1, <2>2, RequestsLatched, CompletionStep
<1>4. CASE Working
  <2>1. /\ ~xfer_done /\ wait_irq[0] /\ wait_irq[1] /\ ~new_cmd
        /\ ~AsksSecond => rxd_irq[1]
    BY <1>4 DEF RequestsInv, Working, OnWay
  <2> QED BY <1>1, <2>1, RequestsLatched, CompletionStep
<1>5. ASSUME ~Sent(5), ~Working PROVE FALSE
  <2>1. \/ Preparing' \/ (\E i \in 1 .. 5 : Sent(i)')
        \/ Finishing' \/ Magic' \/ Answered'
    <3>1. ASSUME NEW i \in 1 .. 5, Sent(i)
          PROVE  \E k \in 1 .. 5 : Sent(k)'
      <4>1. i \in 1 .. 4
        BY <1>5, <3>1
      <4>2. PICK k \in 1 .. 5 : k = IF NUM_DMA_CHAN = 1 THEN 5 ELSE i + 1
        BY <4>1
      <4> QED BY <3>1, <4>1, <4>2, NextStage
    <3>2. 1 \in 1 .. 5
      OBVIOUS
    <3> QED BY <1>1, <1>5, <3>1, <3>2, NextStage DEF Stage
  <2>2. ASSUME NEW i \in 1 .. 5, Sent(i)' PROVE FALSE
    BY <2>2 DEF Sent, Working, OnWay
  <2> QED BY <2>1, <2>2 DEF Preparing, Finishing, Magic, Answered, Working
<1> QED BY <1>3, <1>4, <1>5

\* The distance in each stage.
Distances ==
  /\ Preparing =>
       ToAnswer = IF host = "idle" THEN 0 ELSE IF host = "src" THEN 20
                  ELSE IF host = "dst" THEN 19 ELSE 18
  /\ \A i \in 1 .. 5 : Sent(i) => ToAnswer = 18 - i
  /\ Working => ToAnswer = 5 + ToEnd(0) + ToEnd(1)
  /\ Finishing => ToAnswer = 4
  /\ Magic => ToAnswer = IF chan[0].state = "magic" THEN 2 ELSE 3
  /\ Answered => ToAnswer = 1

LEMMA StageDistance == TypeOK => Distances
<1> SUFFICES ASSUME TypeOK PROVE Distances
  OBVIOUS
<1>1. ASSUME NEW i \in 1 .. 5, Sent(i) PROVE ToAnswer = 18 - i
  <2>1. /\ host = "waiting" /\ ~answered /\ ~all_complete /\ ~xfer_done /\ OnWay(i)
    BY <1>1 DEF Sent
  <2> QED BY <2>1 DEF ToAnswer, OnWay
<1>2. ASSUME Preparing
      PROVE  ToAnswer = IF host = "idle" THEN 0 ELSE IF host = "src" THEN 20
                        ELSE IF host = "dst" THEN 19 ELSE 18
  BY <1>2 DEF TypeOK, Preparing, ToAnswer
<1>3. ASSUME Working PROVE ToAnswer = 5 + ToEnd(0) + ToEnd(1)
  BY <1>3 DEF Working, OnWay, ToAnswer
<1>4. ASSUME Finishing PROVE ToAnswer = 4
  BY <1>4 DEF Finishing, ToAnswer
<1>5. ASSUME Magic PROVE ToAnswer = IF chan[0].state = "magic" THEN 2 ELSE 3
  BY <1>5 DEF Magic, ToAnswer
<1>6. ASSUME Answered PROVE ToAnswer = 1
  BY <1>6 DEF Answered, ToAnswer
<1> QED BY <1>1, <1>2, <1>3, <1>4, <1>5, <1>6 DEF Distances

LEMMA NextDistance == TypeOK' => Distances'
  BY StageDistance, PTL

LEMMA ToEndType ==
  ASSUME NEW c
  PROVE  ToEnd(c) \in 0 .. 3
  BY DEF ToEnd

\* A channel that works comes nearer to its end, unless it waits for memories.
LEMMA ChannelNearer ==
  ASSUME TypeOK, NEW c \in AllChannels, At(c), ~ctrl[c].new_cmd,
         NEW ends, RunChannels(ends)
  PROVE  /\ ToEnd(c)' <= ToEnd(c)
         /\ ToEnd(c) # 0 /\ (AtWork(c) => c \in ends) => ToEnd(c)' < ToEnd(c)
         /\ AtWork(c) <=> Running(c)
         /\ ToEnd(c) = 0 => Ended(c) /\ rxd_irq[c]
<1>1. /\ queue'[c] = (IF Pops(c) THEN Tail(queue[c]) ELSE queue[c]) \o <<>>
      /\ chan'[c].state = NextState(c, ends)
      /\ pulse'[c] = EndsRun(c, ends)
  BY QueueStep DEF RunChannels
<1>2. CASE Queued(c)
  <2>1. Pops(c) /\ ~EndsRun(c, ends)
    BY <1>2 DEF Queued, Pops, EndsRun
  <2>2. queue'[c] = <<>>
    BY <1>1, <1>2, <2>1 DEF Queued
  <2>3. ToEnd(c) = 3 /\ ToEnd(c)' <= 2 /\ ToEnd(c)' \in 0 .. 3
    BY <1>2, <2>2 DEF Queued, ToEnd
  <2>4. ~AtWork(c) /\ ~Running(c)
    BY <1>2 DEF Queued, AtWork, Running
  <2> QED BY <2>3, <2>4
<1>3. CASE Running(c)
  <2>1. ~Pops(c) /\ (EndsRun(c, ends) <=> c \in ends)
    BY <1>3 DEF Running, Pops, EndsRun
  <2>2. queue'[c] = <<>>
    BY <1>1, <1>3, <2>1 DEF Running
  <2>3. chan'[c].state = "run" <=> c \notin ends
    BY <1>1, <1>3 DEF Running, NextState
  <2>4. ToEnd(c) = 2 /\ AtWork(c)
    BY <1>3 DEF Running, ToEnd, AtWork
  <2>5. ToEnd(c)' = IF c \in ends THEN 1 ELSE 2
    BY <1>1, <2>1, <2>2, <2>3 DEF ToEnd
  <2> QED BY <1>3, <2>4, <2>5
<1>4. CASE Ended(c)
  <2>1. ~Pops(c) /\ ~EndsRun(c, ends)
    BY <1>4 DEF Ended, Pops, EndsRun
  <2>2. queue'[c] = <<>> /\ ~pulse'[c]
    BY <1>1, <1>4, <2>1 DEF Ended
  <2>3. chan[c].state \in {"idle", "wait"}
    BY <1>4 DEF Ended
  <2>4. chan'[c].state # "run"
    BY <1>1, <1>4, <2>3 DEF Ended, NextState
  <2>5. ToEnd(c)' = 0 /\ ~AtWork(c) /\ ~Running(c)
    BY <2>2, <2>3, <2>4 DEF ToEnd, AtWork, Running
  <2>6. ToEnd(c) = IF pulse[c] THEN 1 ELSE 0
    BY <1>4, <2>3 DEF Ended, ToEnd
  <2> QED BY <1>4, <2>5, <2>6 DEF Ended
<1> QED BY <1>2, <1>3, <1>4 DEF At

LEMMA WorkingNearer ==
  ASSUME IInv, RequestsInv, Working,
         NEW write, NEW ends, Clock(write, ends)
  PROVE  /\ ToAnswer' <= ToAnswer
         /\ OwnTurn => ToAnswer' < ToAnswer
         /\ \A c \in AllChannels : AtWork(c) /\ c \in ends => ToAnswer' < ToAnswer
<1>1. /\ TypeOK /\ TypeOK' /\ OneChannel /\ NUM_DMA_CHAN \in {1, 2}
      /\ 0 \in AllChannels /\ 1 \in AllChannels /\ AllChannels = {0, 1}
      /\ RunChannels(ends) /\ host = "waiting"
  BY ClockInv DEF IInv, TypeOK, AllChannels, Clock, Working
<1>2. /\ ~ctrl[0].new_cmd /\ ~ctrl[1].new_cmd /\ ~new_cmd
      /\ ~xfer_done /\ ~answered /\ ~all_complete
      /\ At(0) /\ IF AsksSecond THEN At(1) ELSE Rest(1)
  BY DEF Working, OnWay
<1>a. Distances /\ Distances'
  BY <1>1, StageDistance, NextDistance
<1>3. ToAnswer = 5 + ToEnd(0) + ToEnd(1)
  BY <1>a DEF Distances
<1>4. /\ ToEnd(0) \in 0 .. 3 /\ ToEnd(0)' \in 0 .. 3
      /\ ToEnd(1) \in 0 .. 3 /\ ToEnd(1)' \in 0 .. 3
  BY ToEndType DEF ToEnd
<1>5. CASE Finishing'
  <2>1. ToAnswer' = 4
    BY <1>1, <1>5, <1>a DEF Distances
  <2> QED BY <1>3, <1>4, <2>1
<1>6. CASE ~Finishing'
  <2>1. Working' /\ ~xfer_done'
    BY <1>6, NextStage DEF Working
  <2>2. ToAnswer' = 5 + ToEnd(0)' + ToEnd(1)'
    BY <1>1, <2>1, <1>a DEF Distances
  <2>3. /\ ToEnd(0)' <= ToEnd(0)
        /\ ToEnd(0) # 0 /\ (AtWork(0) => 0 \in ends) => ToEnd(0)' < ToEnd(0)
        /\ AtWork(0) => ToEnd(0) # 0
        /\ ToEnd(0) = 0 => Ended(0) /\ rxd_irq[0]
    <3>1. Running(0) => ToEnd(0) # 0
      BY DEF Running, ToEnd
    <3> QED BY <1>1, <1>2, <3>1, ChannelNearer
  <2>4. /\ ToEnd(1)' <= ToEnd(1)
        /\ ToEnd(1) # 0 /\ (AtWork(1) => 1 \in ends) => ToEnd(1)' < ToEnd(1)
        /\ AtWork(1) => ToEnd(1) # 0
        /\ ToEnd(1) = 0 /\ AsksSecond => rxd_irq[1]
    <3>1. CASE AsksSecond
      <4>1. Running(1) => ToEnd(1) # 0
        BY DEF Running, ToEnd
      <4> QED BY <1>1, <1>2, <3>1, <4>1, ChannelNearer
    <3>2. CASE ~AsksSecond
      <4>1. Rest(1) /\ Rest(1)'
        BY <1>1, <1>2, <3>2, RestStays
      <4> QED BY <3>2, <4>1 DEF Rest, ToEnd, AtWork
    <3> QED BY <3>1, <3>2
  <2>5. ToEnd(0) # 0 \/ ToEnd(1) # 0
    <3> SUFFICES ASSUME ToEnd(0) = 0, ToEnd(1) = 0 PROVE FALSE
      OBVIOUS
    <3>1. rxd_irq[0] /\ Ended(0)
      BY <2>3
    <3>2. CASE NUM_DMA_CHAN = 1
      BY <1>1, <3>1, <3>2 DEF IInv, OneChannel
    <3>3. CASE NUM_DMA_CHAN = 2
      <4>1. wait_irq[0] /\ wait_irq[1] /\ rxd_irq[1]
        BY <2>4, <3>3 DEF RequestsInv
      <4>2. xfer_done'
        BY <1>2, <3>1, <3>3, <4>1, RequestsLatched
      <4> QED BY <2>1, <4>2
    <3> QED BY <1>1, <3>2, <3>3
  <2>6. ToAnswer' <= ToAnswer
    BY <1>3, <1>4, <2>2, <2>3, <2>4
  <2>7. ASSUME OwnTurn PROVE ToAnswer' < ToAnswer
    <3>1. ~AtWork(0) /\ ~AtWork(1)
      BY <1>1, <2>7 DEF OwnTurn
    <3>2. ToAnswer' < ToAnswer
      BY <1>3, <1>4, <2>2, <2>3, <2>4, <2>5, <3>1
    <3> QED BY <3>2
  <2>8. ASSUME NEW c \in AllChannels, AtWork(c), c \in ends
        PROVE  ToAnswer' < ToAnswer
    <3>1. CASE c = 0
      BY <1>3, <1>4, <2>2, <2>3, <2>4, <2>8, <3>1
    <3>2. CASE c = 1
      BY <1>3, <1>4, <2>2, <2>3, <2>4, <2>8, <3>2
    <3> QED BY <1>1, <3>1, <3>2
  <2> QED BY <2>6, <2>7, <2>8
<1> QED BY <1>5, <1>6

LEMMA ClockProgress ==
  ASSUME IInv, RequestsInv,
         NEW write \in {"none", "src", "dst", "len"},
         NEW ends \in SUBSET AllChannels, Clock(write, ends)
  PROVE  ClockNearer(write, ends)
<1>1. TypeOK /\ TypeOK' /\ Stage /\ AllChannels = {0, 1}
  BY ClockInv DEF IInv, AllChannels
<1>a. Distances /\ Distances'
  BY <1>1, StageDistance, NextDistance
<1>2. write \in {host, "none"} /\ (host = "waiting" => write = "none")
  BY DEF Clock
<1>3. CASE Preparing
  <2>1. ~OwnTurn /\ \A c \in ends : ~AtWork(c)
    BY <1>1, <1>3 DEF Preparing, Rest, OwnTurn, AtWork
  <2>2. ToAnswer = IF host = "idle" THEN 0 ELSE IF host = "src" THEN 20
                   ELSE IF host = "dst" THEN 19 ELSE 18
    BY <1>1, <1>3, <1>a DEF Distances
  <2>3. host' = IF write = "src" THEN "dst" ELSE IF write = "dst" THEN "len"
                ELSE IF write = "len" THEN "waiting" ELSE host
    BY DEF Clock
  <2>4. CASE Sent(1)'
    <3>1. ToAnswer' = 17 /\ host' = "waiting"
      BY <1>1, <2>4, <1>a DEF Distances, Sent
    <3>2. write = "len" /\ host = "len"
      BY <1>2, <1>3, <2>3, <3>1 DEF Preparing
    <3> QED BY <2>1, <2>2, <3>1, <3>2 DEF ClockNearer
  <2>5. CASE Preparing'
    <3>1. ToAnswer' = IF host' = "idle" THEN 0 ELSE IF host' = "src" THEN 20
                      ELSE IF host' = "dst" THEN 19 ELSE 18
      BY <1>1, <2>5, <1>a DEF Distances
    <3>2. write # "len"
      BY <2>3, <2>5 DEF Preparing
    <3>3. ToAnswer' <= ToAnswer /\ (write # "none" => ToAnswer' < ToAnswer)
      BY <1>2, <2>2, <2>3, <3>1, <3>2
    <3> QED BY <2>1, <3>3 DEF ClockNearer
  <2> QED BY <1>3, <2>4, <2>5, NextStage
<1>4. ASSUME NEW i \in 1 .. 5, Sent(i)
      PROVE  ClockNearer(write, ends)
  <2>1. ToAnswer = 18 - i
    BY <1>1, <1>4, <1>a DEF Distances
  <2>2. ToAnswer' < ToAnswer
    <3>1. CASE i = 5
      <4>1. Working'
        BY <1>4, <3>1, NextStage
      <4>2. ToAnswer' = 5 + ToEnd(0)' + ToEnd(1)'
        BY <1>1, <4>1, <1>a DEF Distances
      <4>3. ToEnd(0)' \in 0 .. 3 /\ ToEnd(1)' \in 0 .. 3
        BY DEF ToEnd
      <4> QED BY <2>1, <3>1, <4>2, <4>3
    <3>2. CASE i # 5
      <4>1. PICK k \in 1 .. 5 : k = IF NUM_DMA_CHAN = 1 THEN 5 ELSE i + 1
        BY <3>2
      <4>2. Sent(k)' /\ k > i
        <5>1. i \in 1 .. 4
          BY <3>2
        <5>2. k > i
          <6>1. NUM_DMA_CHAN = 1 => i < 5
            BY <5>1
          <6> QED BY <4>1, <5>1, <6>1
        <5> QED BY <1>4, <4>1, <5>1, <5>2, NextStage
      <4>3. ToAnswer' = 18 - k
        BY <1>1, <4>2, <1>a DEF Distances
      <4> QED BY <2>1, <4>2, <4>3
    <3> QED BY <3>1, <3>2
  <2>3. ToAnswer' <= ToAnswer
    <3>1. ToAnswer' \in Int
      BY DEF ToAnswer, ToEnd
    <3> QED BY <2>1, <2>2, <3>1
  <2> QED BY <2>2, <2>3 DEF ClockNearer
<1>5. CASE Working
  <2>1. write = "none"
    BY <1>2, <1>5 DEF Working
  <2> QED BY <1>5, <2>1, WorkingNearer DEF ClockNearer
<1>6. CASE Finishing
  <2>1. ToAnswer = 4 /\ xfer_done
    BY <1>1, <1>6, <1>a DEF Distances, Finishing
  <2>2. ToAnswer' < 4 /\ ToAnswer' <= 4
    BY <1>1, <1>6, NextStage, <1>a DEF Distances
  <2> QED BY <2>1, <2>2 DEF ClockNearer
<1>7. CASE Magic
  <2>1. /\ ToAnswer = IF chan[0].state = "magic" THEN 2 ELSE 3
        /\ all_complete /\ write = "none" /\ chan[0].state \in {"wait", "magic"}
        /\ ~AtWork(1) /\ (AtWork(0) <=> chan[0].state = "magic")
    BY <1>1, <1>2, <1>7, <1>a DEF Distances, Magic, AtWork, Rest
  <2>2. CASE Answered'
    <3>1. ToAnswer' = 1
      BY <1>1, <2>2, <1>a DEF Distances
    <3> QED BY <1>1, <2>1, <3>1 DEF ClockNearer, OwnTurn
  <2>3. CASE Magic'
    <3>1. ToAnswer' = IF chan'[0].state = "magic" THEN 2 ELSE 3
      BY <1>1, <2>3, <1>a DEF Distances
    <3>2. chan'[0].state = NextState(0, ends)
      BY <1>1 DEF Clock, RunChannels
    <3>3. /\ chan[0].state = "wait" => chan'[0].state = "magic"
          /\ chan[0].state = "magic" /\ 0 \notin ends => chan'[0].state = "magic"
          /\ chan[0].state = "magic" /\ 0 \in ends => chan'[0].state = "idle"
      BY <2>1, <3>2 DEF NextState
    <3>4. chan'[0].state \in {"wait", "magic"}
      BY <2>3 DEF Magic
    <3>5. chan[0].state = "magic" => 0 \notin ends
      BY <3>3, <3>4
    <3>6. chan'[0].state = "magic"
      BY <2>1, <3>3, <3>5
    <3>7. ToAnswer' = 2
      BY <3>1, <3>6
    <3>8. \A c \in ends : ~AtWork(c)
      BY <1>1, <2>1, <3>5
    <3>9. OwnTurn => chan[0].state = "wait"
      BY <1>1, <2>1 DEF OwnTurn
    <3> QED BY <2>1, <3>7, <3>8, <3>9 DEF ClockNearer
  <2> QED BY <1>7, <2>2, <2>3, NextStage
<1>8. CASE Answered
  <2>1. ToAnswer = 1 /\ ToAnswer' = 1
    BY <1>1, <1>8, NextStage, <1>a DEF Distances
  <2>2. write = "none" /\ ~OwnTurn /\ ~AtWork(0) /\ ~AtWork(1)
    BY <1>2, <1>8 DEF Answered, Rest, OwnTurn, AtWork
  <2> QED BY <1>1, <2>1, <2>2 DEF ClockNearer
<1> QED BY <1>1, <1>3, <1>4, <1>5, <1>6, <1>7, <1>8 DEF Stage

LEMMA DueInTurn ==
  ASSUME IInv, RequestsInv, OwnTurn
  PROVE  Due
<1>1. /\ Stage /\ OneChannel /\ NUM_DMA_CHAN \in {1, 2} /\ AllChannels = {0, 1}
      /\ host = "waiting" /\ ~answered /\ ~AtWork(0) /\ ~AtWork(1)
  BY DEF IInv, TypeOK, OwnTurn, AllChannels
<1>2. ASSUME NEW i \in 1 .. 5, Sent(i) PROVE Due
  BY <1>2 DEF Sent, OnWay, Due
<1>3. CASE Working
  <2> SUFFICES ASSUME \A c \in AllChannels : queue[c] = <<>> /\ ~pulse[c]
               PROVE  NUM_DMA_CHAN = 2 /\ \A c \in AllChannels : wait_irq[c] /\ rxd_irq[c]
    BY DEF Due
  <2>1. rxd_irq[0] /\ (AsksSecond => rxd_irq[1])
    BY <1>1, <1>3 DEF Working, At, Queued, Running, Ended, AtWork
  <2>2. NUM_DMA_CHAN = 2
    BY <1>1, <2>1 DEF OneChannel
  <2> QED BY <1>1, <1>3, <2>1, <2>2 DEF RequestsInv
<1>4. CASE Finishing
  BY <1>4 DEF Finishing, Due
<1>5. CASE Magic
  BY <1>1, <1>5 DEF Magic, AtWork, Due
<1> QED BY <1>1, <1>2, <1>3, <1>4, <1>5 DEF Stage, Preparing, Answered

\* dma_dispatcher.sv:223-365: until the host gives up a wait, a command that was
\* written is never left in the dispatcher.  When no channel is at work and the host has not been
\* answered, a register is due to change, and every clock brings the command
\* nearer to its answer; otherwise it comes nearer when the channel ends what
\* it does or the host does its next step, and never goes back.
THEOREM AnswersApproached ==
  Spec => /\ [](given_up = 0 /\ OwnTurn => Due)
          /\ [][given_up = 0 => AnswerProgress]_vars
<1> DEFINE R == given_up = 0 => RequestsInv
<1>1. Init => R
  BY DEF Init, RequestsInv, Working
<1>2. DInv /\ R /\ [Next]_vars => R'
  <2> SUFFICES ASSUME DInv, R, [Next]_vars, given_up' = 0 PROVE RequestsInv'
    OBVIOUS
  <2>0. IInv /\ RequestsInv /\ given_up = 0 /\ ~GiveUp
    <3>1. given_up \in Nat
      BY DEF DInv, TypeOK
    <3>2. given_up' \in {given_up, given_up + 1}
      BY DEF Next, Clocks, Clock, Accept, TakeAnswer, GiveUp, vars
    <3>3. given_up = 0
      BY <3>1, <3>2
    <3> QED BY <3>3 DEF DInv, GiveUp
  <2>1. CASE Clocks
    BY <2>0, <2>1, RequestsClock DEF Clocks
  <2>2. CASE (\E c \in Commands : Accept(c)) \/ TakeAnswer
    <3>1. host' # "waiting"
      BY <2>2 DEF Accept, TakeAnswer
    <3> QED BY <3>1 DEF RequestsInv, Working
  <2>3. CASE UNCHANGED vars
    <3>1. /\ UNCHANGED <<NUM_DMA_CHAN, dir, host, command, new_cmd, new_cmd_d, ctrl,
                         rxd_irq, wait_irq, xfer_done, queue, chan, pulse,
                         all_complete, moved, answered>>
      BY <2>3 DEF vars, splitVars, doneVars, chanVars
    <3>2. /\ Part(0)' = Part(0) /\ Part(1)' = Part(1)
          /\ AsksSecond' <=> AsksSecond
      BY <3>1, PartsStay
    <3>3. Working' <=> Working
      <4>1. /\ (At(0)' <=> At(0)) /\ (At(1)' <=> At(1))
            /\ (Ended(0)' <=> Ended(0)) /\ (Ended(1)' <=> Ended(1))
            /\ (OnWay(0)' <=> OnWay(0)) /\ (Rest(1)' <=> Rest(1))
        BY <3>1, <3>2 DEF At, Queued, Running, Ended, WritesMagic, OnWay, Rest
      <4> QED BY <3>1, <3>2, <4>1 DEF Working
    <3> QED BY <2>0, <3>1, <3>2, <3>3 DEF RequestsInv
  <2> QED BY <2>0, <2>1, <2>2, <2>3 DEF Next
<1>3. DInv /\ R => (given_up = 0 /\ OwnTurn => Due)
  BY DueInTurn DEF DInv
<1>4. DInv /\ R /\ [Next]_vars => [given_up = 0 => AnswerProgress]_vars
  <2> SUFFICES ASSUME IInv, RequestsInv PROVE AnswerProgress
    BY DEF DInv
  <2>1. TakeAnswer => ToAnswer' < ToAnswer
    <3> SUFFICES ASSUME TakeAnswer PROVE ToAnswer' < ToAnswer
      OBVIOUS
    <3>1. ToAnswer = 1
      BY DEF TakeAnswer, ToAnswer
    <3>2. ToAnswer' = 0
      BY DEF TakeAnswer, ToAnswer
    <3> QED BY <3>1, <3>2
  <2> QED BY <2>1, ClockProgress DEF AnswerProgress
<1> QED BY <1>1, <1>2, <1>3, <1>4, DispatchInvariance, PTL DEF Spec

=============================================================================
