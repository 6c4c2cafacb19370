# Verification of the oneAPI ASP

The oneAPI Accelerator Support Package (ASP) connects the OpenCL/oneAPI runtime
of a host to kernels on an OFS FPGA board. Half of it is a C++ driver library,
the MMD (`common/source/host`); the other half is RTL around the kernels, with
the DMA engine (`common/hardware/common/build/rtl`). This directory holds TLA+ models of the
parts of both where order matters: threads, callbacks, interrupts, state
machines that exchange bursts, and calls of the platform that fail half way.
The models are checked with TLC on small instances; what matters most is
proved with TLAPS for every value of the constants.

Paths below are relative to the repository.

## 1. Inventory

### Host driver

| Component | State it keeps | Operations | Hard behaviour | What makes it correct |
|---|---|---|---|---|
| DMA object, `mmd_dma.cpp` | work queue, worker thread, two mutexes, condition variable, eventfd or magic number, staging buffer | `enqueue_dma`, `do_dma`, `send_descriptors`, worker loop, destructor | blocking callers run on their own thread beside the worker; CSRs and completion event are shared; polls time out; pinning, MMIO and reads fail | a completion reaches the thread that waits for it; memory is pinned while it is used and unpinned after; status 0 means the data is there; every transfer ends; the destructor returns |
| Kernel interrupts, `kernel_interrupt.cpp` | work thread, event handle, handler and user data, mask | `enable_interrupts`, `disable_interrupts`, `set_kernel_interrupt`, `yield`, worker loop | edge-triggered shared line, handlers replaced while the thread runs, disabling at any moment, boards without the line | ended kernels are served; nothing runs after disabling; a replaced handler is not called |
| Device, `mmd_device.cpp` | OPAE handles, MPF connection, both DMA objects, interrupt object, `asp_initialized` | constructor, `initialize_asp`, `program_bitstream`, destructor, `read_block`/`write_block`/`copy_block`, MMIO, pinning | reprogramming replaces the connection, the DMA objects and the interrupt thread under an open device; every step may fail | an opened device works, whatever was programmed; closing leaves nothing behind |
| MMD API, `mmd.cpp` | `id_to_handle_map`, `handle_to_dev_map`, `mem_to_handles_map` | open, close, program, reprogram, read/write/copy, host and shared allocation, free, queries | three maps that must agree across failures; allocations must follow the device through programming | handles name live devices; no page is translated that is unmapped; success of programming means programmed |
| Data calls, `mmd.cpp`, `mmd_device.cpp` | status handlers of the device and of its DMA objects, copy buffer | `aocl_mmd_read`, `_write`, `_copy`, `_set_status_handler`, `read_mmio`, `write_mmio` | each call may go to a queue, a blocking transfer, registers or a loop of both; any part fails; programming replaces the objects that hold the handlers | a call moves its bytes and no other, is reported once if it has an op and never if not |
| IO pipes, `mmd_iopipes.cpp` | CSR offsets | one-time setup | none: sequential MMIO | - |
| Loader, inflate, `fpgaconf.c`, `zlib_inflate.c` | none | program a bitstream, unzip | may fail | - |

### FPGA side

| Component | State it keeps | Operations | Hard behaviour | What makes it correct |
|---|---|---|---|---|
| Write acknowledgement, `avmm_wr_ack_gen.sv`, `_tracker.sv`, `_burst_to_word.sv` | two burst state machines, three FIFOs across two clocks, word counter | one clock of either domain | memory answers bursts of the kernel and of the DMA on one port, matched by address | a word is acknowledged once, and not before it is in memory |
| Host memory write multiplexer, `asp_host_mem_if_mux.sv` | edge latches, burst counter | one clock | interrupts share the channel with DMA bursts | an interrupt goes between bursts, and goes |
| DMA dispatcher, `dma/dma_dispatcher.sv` | command registers, per-channel completion latches | CSR writes, split of a transfer, completion | the split takes several clocks, completion pulses of channels arrive in any order and meet the clearing of their latches | the parts are the command, a transfer completes once, when all its channels have |
| DMA data transfer, `dma/dma_data_transfer.sv` | command FIFO, read and write state machines, data FIFO, shifter | one clock | partial words at both ends, bursts, waitrequests, a buffer without overflow checking that reader and writer watch with late counters | every byte of the transfer is written to its place, and no other; the buffer neither overflows nor runs dry |
| Partial write splitter, `avmm_single_burst_partial_writes.v` | burst state | one clock | bursts with partial words | the same bytes reach memory |
| ASP top, kernel wrapper, `asp_logic.sv`, `kernel_wrapper.v` | pipelines, clock crossings | - | wiring | - |
| UDP offload engine, `udp_offload_engine/rtl` | framing and ARP state machines, CSRs | one clock | packets and gaps of any length | frames are complete |
| IRQ controller IP | mask register | CSR write | its output is left unconnected by `asp_logic.sv` | - |
| Address translation, `host_mem_if_vtp.sv` | in the Intel BBB, not in the repository | - | - | - |

Utilities (diagnose, reprogram), simulation environment, board files and build
scripts have no behaviour of their own that could be modelled.

### How they interact

* The runtime calls the MMD API. `aocl_mmd_read/write` end in
  `Device::read_block/write_block`, which call `mmd_dma::fpga_to_host/host_to_fpga`
  of the device; with an `op` the call is queued and the status handler is called
  later, on the worker thread, without one it blocks.
* A DMA object writes source, destination and length CSRs, and waits: an h2f
  transfer raises an interrupt that reaches an eventfd, an f2h transfer ends
  with a magic number that the controller writes to a page of the host.
* `program_bitstream()` disables interrupts, disconnects MPF, programs the
  board, connects MPF, enables interrupts and makes new DMA objects.
  `aocl_mmd_program()` unpins all allocations of the device before and pins
  them again after.
* On the board, kernels and DMA share the ports of the memory banks (write
  acknowledgement), and DMA and interrupts share the write channel to the host
  (multiplexer).

## 2. Modules

| Module | Models | State and actions |
|---|---|---|
| `TransferService` | what `aocl_mmd_read/write` promise (abstract) | accepted and running calls, data in place, outcome; accept, notify, enter, return, close |
| `MmdDma` | one `mmd_dma` object and the controller behind it | an action per step between two points where another thread can be seen: push and notify are apart, as are the writes of the addresses, the write of the length and the wait. `pc[i]` is the place of call `i` in `do_dma`, on the worker or on its own thread |
| `MCMmdDma` | instances for TLC | sizes: a remainder, exactly one chunk, less than one, none |
| `MmdDmaProofs` | proofs about `MmdDma` | |
| `KernelInterrupt` | the interrupt path from kernel to handler, and `KernelInterrupt` | clock steps of the latch, each step of the work thread, yield, each step of disabling, programming, enabling. `MCKernelInterrupt`, `KernelInterruptProofs` go with it |
| `MmdDevice` | life of devices and allocations in `mmd.cpp`, `mmd_device.cpp` | an action per API call, with each failing platform call as an alternative: the maps have no lock, so calls come one at a time. `MCMmdDevice`, `MmdDeviceProofs` go with it |
| `MmdApi` | reading, writing, copying and register calls, with their status handlers | a call is a thread of its own; one action per branch of its start and per chunk or register access; the DMA objects are queues that end a transfer in one step. `MCMmdApi`, `MmdApiProofs` go with it |
| `DmaDescriptor` | what the DMA controller promises for a descriptor (abstract) | the descriptor and the bytes moved; accept, move, complete |
| `DmaDispatcher` | `dma_dispatcher.sv` for one direction, with its channels from outside | one action, a clock, in which every register takes its next value; the host writes one of the three CSRs, or none, in a clock, waits for the answer, and may give up the wait (`GiveUp`). `MCDmaDispatcher`, `DmaDispatcherProofs` go with it |
| `DmaTransfer` | a channel, `dma_data_transfer.sv` | one action, a clock; the inputs are whether the source takes a request, whether it returns a word, whether the destination takes a beat, and the dispatcher's completion. `MCDmaTransfer`, `DmaTransferProofs` go with it |
| `WrAck` | the write acknowledgement of one bank | a clock of the kernel's domain, a beat or an answer of the memory's. `MCWrAck`, `WrAckProofs` go with it |
| `HostMemMux` | the write multiplexer | one action, a clock. `MCHostMemMux`, `HostMemMuxProofs` go with it |

`MmdDma` implements `TransferService`: `ImplementsService` in `MmdDma` instantiates
it with a refinement mapping. `DmaDispatcher` and `DmaTransfer` each implement
`DmaDescriptor`, the dispatcher for the whole command and the channel for its part:
the dispatcher's channels run a part in one step at a moment of their own, which is
what a channel promises. What `DmaTransfer` assumes of the commands it is given is a
theorem of `DmaDispatcherProofs` (`ChannelsGetDescriptors`), for as long as the host gives
no wait up, and `HwComplete` of `MmdDma` is `DmaDescriptor` seen from the
driver. `MmdApi` uses a DMA object as `TransferService` describes it. `MmdDevice` sees a DMA object as a pair of a device and a
connection, and `KernelInterrupt` sees a device as the order of disabling,
programming and enabling.

Choices worth knowing:

* In `MmdDma` a transfer is a set of words, and `HwComplete` moves all words of a
  descriptor at once. `MmdApi`, `DmaDispatcher` and `DmaTransfer` represent the data:
  `moved` is a set of pairs of a source and a destination byte, so that a byte in
  the wrong place, missing or doubled shows.
* In `DmaTransfer` a byte is represented by the address it was read from. Registers
  that only repeat the command (lengths in words, byte enables, shifts) settle in the
  four clocks between the pop of a command and `latch_this_cmd`, and are expressions of the
  command. The scfifos are exact. Both directions and channel 0 with its
  magic number are values of `build`.
* In `DmaDispatcher` the length registers, which have no reset, hold anything at the
  start. The host writes no length 0, as `do_dma()` does not. Like the driver
  (`mmd_dma.cpp:316-358`) it may end a wait for an interrupt without an answer, and writes the
  next command while the board still works on the last; `given_up` counts these waits. From the first on
  the descriptors of `DmaDescriptor` are not kept apart (`Abandoned`), and what is claimed is `FifoBacklog`.
  The command FIFOs hold 16 commands (`CMDQ_DEPTH`, `dma_pkg.sv:138`) and are built
  without overflow checking; the model loses a command that does not fit. Failed register
  writes are in `MmdDma` only.
* `TransferService` promises of a status that it says something of the data only while
  `trusted`, which `MmdDma` maps to `~stale`; that calls are reported once and in order it
  promises after any fault. Its `Close` lets go of the calls still queued, which is
  what `~mmd_dma()` does with them: the refinement permits it, it does not show that it is right.
* `WrAck` has three guards that are not in the RTL, because the RTL relies on them without
  a check: `Room` (the bursts outstanding fit a FIFO; `notFull` is not used,
  `avmm_wr_ack_tracker.sv:146`; real depth 512, `:65`), `WordsFit` (the words outstanding
  fit the counter) and that kernel and DMA engine do not write the same start address at
  one time. They bound what is outstanding, not the traffic: any number of bursts passes,
  and both use the same addresses, one after the other. Nothing in the repository
  states these duties of the kernel, the platform and the host program; what happens when they are
  broken is not claimed. `MaxKernelBursts` is a bound for TLC; the theorems hold for every value.
* In `HostMemMux` the host stalls any beat, the first of a burst included. `stalled` is a
  history variable: whether the first beat of the burst under way was stalled.
* `MmdApi`: the host registers a status handler after opening and after programming,
  before it makes a call with an op, has no call in progress while it programs, and
  makes one copy at a time; `mmd_copy_buffer` has no lock. The model takes these from
  how the runtime uses the API; without the first the code calls a null pointer.
* `stale` in `MmdDma` is raised by a failure after which the driver does not know
  what the controller does (a time-out, an address write, poll, read). Safety is
  stated for states that are not stale, and separately, as a violated property,
  without the proviso.
* `spoiled` in `MmdDevice` plays the same part: an exception that leaves
  `program_bitstream()` half way, memory that could not be pinned again, memory
  freed behind a closed device. `undefined` marks a call that followed a dead
  pointer; nothing is said after it. `ProgramDelivers` does not use `spoiled`: `returned`
  holds the result of a program call and the way it took (`path`).
* `mmd_dma`'s constructor always sets `m_initialized`, so the branches of
  `Device` for a DMA object that is not initialised are dead and left out. What can fail in
  it (the event handle, the page of the magic number, the driver buffer;
  `mmd_dma.cpp:103-133`) is printed and dropped: `MmdDma` and `MmdDevice` start after a
  constructor in which nothing failed.
* In `MmdDma` the writes of the two addresses are one step with one failure that leaves
  both; after a wake-up the test of the flag and the next test of the queue are one step
  (`WorkerScan`), so that the destructor has one window to be missed in, not two.
* `check_result()` of `kernel_interrupt.cpp` prints a failure and goes on. `KernelInterrupt` has
  that of `fpgaRegisterEvent()`; writes of the mask (`:185`), the event
  handle and its descriptor (`:160-168`) and unregistering (`:101-111`) succeed. So `QuietWhenDisabled` says
  that the mask is off if it could be written. The exception after which
  programming leaves interrupts off is in `MmdDevice`, not in `Program` of `KernelInterrupt`.
* A host allocates memory only with handles that `aocl_mmd_open()` has returned, which the code
  does not check; and it sets the status handlers, three pairs written one after the other without
  a lock (`mmd_device.cpp:1004-1007`), when no call is in progress.
* The boards leave `USE_KERNEL_IRQ`, `USE_F2H_IRQ` and `USE_WR_FENCE_FLAG`
  undefined and the default `MMD_YIELD_DELAY` selects yield mode. `KernelInterrupt`
  covers the thread and the line being there or not; the write fence never fires and is
  left out of `HostMemMux`.
* `mpfConnect()` and `find_dma_dfh_offsets()`, whose results the code ignores, `munmap()`
  and the release of a pin are taken to succeed in `MmdDevice`; `mpfConnect()` also on a board
  that a failed programming has left without an image. `std::thread` is taken to start.

## 3. Runs

### Runs that pass

| Run | Question | Instance, and why it is enough |
|---|---|---|
| `dma_service` | Do queue, CSRs, event and pins stay consistent, does the object keep the promise of the API, and does every transfer end, under every failure? | Two queued and one blocking transfer, in both directions, all six kinds of failure. Two queued transfers make the worker reuse CSRs and event, the blocking one contends with it. The SIM build with its staging buffer: a transfer that fits it exactly and is one chunk, an empty one, one that is pinned and sent as a full chunk and a remainder; in the other direction the buffer is not used. Invariants, refinement and liveness. |
| `kernel_interrupt` | Are ended kernels served, is disabling clean, are handlers current? | Two kernels, so that one ends while the other holds the line high; two handlers, so that one replaces the other; all four combinations of thread and line, across reprogramming. |
| `wr_ack` | Is every word acknowledged once and not early? | Three bursts of a kernel, of 1 or 3 beats at either of two addresses, and any number of the DMA engine, two outstanding at one time: an answer for the DMA comes before, between or after those for the kernel, the kernel writes where the DMA wrote before, and a burst is acknowledged while another is counted down. FIFOs of 2 and a counter of 5 values, so that both are full; up to 9 words are sent, more than the counter can hold. |
| `host_mem_mux` | When do interrupts go, and do they? | Two lines, so that one has priority; bursts of 1, 2 and 4 beats; a host that stalls any beat. `IrqAtMostOneBeatEarly` is what the counter guarantees: an interrupt goes between bursts, or before the last beat of a burst whose first was stalled, and the next burst is counted right again. |
| `mmd_api` | Does every data call move its bytes and report once? | Two calls, so that one runs in the middle of the other and two queue in one object; copies of two whole chunks, one and a remainder, and nothing; registers of 8 + 4 + 3 bytes, 8, 5 and 0; both interfaces, with and without op; an unknown handle; two handlers, registered and lost by programming at any quiet moment; every failure. |
| `dma_dispatcher` | Is a command that is split moved as one and answered once, and what can pile up when the driver gives up a wait? | Lengths 1 (channel 0 alone), 2 and 7, both builds, both directions; commands follow each other without end, so that what a command leaves in the latches meets the next; one wait is given up (`MaxGiveUps`), at any time, and FIFOs of 3, so that the backlog of 2 does not meet their end. |
| `dma_transfer` | Does a channel move every byte, in proper bursts, without losing a word of its buffer? | Words of 2 bytes, bursts of 2 and 3 words, each combination of offsets, first and last words whole, partial and the same; two commands longer than the buffer; memories that hold back requests, words and beats at any clock. |
| `mmd_device` | Do opening, programming, allocating and closing in any order, with any failure, leave a working device? | Two boards, so that an allocation is shared and one of its devices closes; three handles, so that a board is opened again; three connections, so that a device is programmed twice; one allocation; two images. Boards, images and addresses are symmetric: nothing orders them. The run stops where handles and connections are used up, hence no deadlock check. |

Handles and connections are counters without reuse. The bound `MaxHandle` hides
that `next_mmd_handle` wraps at `INT_MAX`, after two thousand million opens.

### Runs that show a disagreement

| Run | Property | What happens |
|---|---|---|
| `dma_timeout` | `StatusZeroMeansComplete` | A poll times out, its transfer returns -1 and its descriptor runs on. Its interrupt completes the next transfer, with status 0, before that one's data is in place (`mmd_dma.cpp:347`). |
| `dma_shutdown` | `DestructorReturns` | The destructor clears the flag and notifies without the mutex of the condition variable. A worker between its test and its wait misses both; `join()` never returns (`mmd_dma.cpp:154`). |
| `mux_stall` | `IrqBetweenBursts` | The burst counter is loaded whether or not the first beat of a burst is taken (`asp_host_mem_if_mux.sv:141`). If the host stalls that beat it is counted twice, and an interrupt goes before the last beat, in the middle of the burst. |
| `mmd_program` | `SuccessIsProgrammed` | An exception of `program_bitstream()` is caught with `res` still 0 (`mmd.cpp:790`), and a failure to pin again is only logged (`mmd.cpp:846`): `aocl_mmd_program()` returns the handle of a device without a connection, or whose allocations it cannot reach. |

`ProgramDelivers`, which passes, is the other side of `mmd_program`: these two ways are the only ones, and
without the exception, in this very call, success does mean the new image and a
working device, whatever earlier calls have spoiled.

More facts are not kept as runs; each is found by TLC at once with the property
named in the cfg named:

* `copy_block()` leaves its loop when a chunk fails, then sets the status to 0, which
  it reports and returns (`mmd_device.cpp:1122`); a copy on an unsupported interface returns
  -1 and reports 0. The comment at `mmd.cpp:1160-1161` says "status 0 when the operation has
  completed successfully": `StatusTellsTruth` in `mmd_api.cfg`. This is why
  `CallsDeliver` asks of a copy only a prefix of its bytes.
* A chunk that fails inside the loop of `do_dma()` returns without
  `mpfVtpReleaseBuffer()` (`mmd_dma.cpp:470`): `UnpinnedWhenDone` in `dma_service.cfg`.
  `PinsReleased` shows that this is the only path.
* Programming, or a second initialisation after a failed one, overwrites the DMA
  objects, whose threads survive `aocl_mmd_close()` (`mmd_device.cpp:832`):
  `ClosedReleasesAll` in `mmd_device.cfg`.
* The comment at `dma_data_transfer.sv:181-184` says of the command FIFOs that "the host has
  access to all of the FIFO status signals so should never overflow". The driver only prints them
  (`mmd_dma.cpp:233`), and the dispatcher's reads of them are commented out
  (`dma_dispatcher.sv:143`, `160`). That the FIFO of channel 0 stays short is due to the driver's
  waiting: `FifoBacklog`. Channel 1 is not so lucky. After one wait that was
  given up, an answer can be for the command before, and a command for channel 0 alone counts channel 1
  as ended, so that long and one-byte commands in turn fill the FIFO of channel 1:
  `Len(queue[1]) < CMDQ_DEPTH` in `dma_dispatcher.cfg`.

Not caught by any property, although the model contains it: an allocation that stays
unpinned because the program call failed (`mmd.cpp:856-861`), queued calls that the destructor drops.

### Bounds of the DMA channel

`DATA_BUFFER_SKID_SPACE` is 16 bursts of up to 16 words or 4 of more, and the
buffer has 1024 words. The run takes the smallest values that
`TransferAssumption` admits, 14 and 17 for bursts of 2 and 3, so that the flow
control is at its limit; the theorem `BuffersInBounds` covers every value above.
The lower bound on the depth is not needed for overflow but for progress: with less,
the reader may wait for room while the writer waits for a whole burst.

### Fairness

* Threads are scheduled: weak fairness of the worker, of the caller inside
  `do_dma` and of each step of enabling and disabling.
* The controller executes a descriptor it has. No fairness is assumed of
  calls, failures, spurious wake-ups, registrations or of programming.
* A handler that was called returns, and an idle runtime keeps calling `yield()`,
  as `aocl_mmd.h` asks of it.
* In `MmdApi` a thread inside a call goes on and the worker of a DMA object ends its
  transfers, which is `EveryTransferEnds` of `MmdDma`.
* A memory does not hold back a request, a word it owes or a beat for ever; in
  `DmaDispatcher` a channel ends what it does, which is `EveryCommandAnswered` of
  `DmaTransfer`, and a host that has begun to write a command goes on; giving up a wait is never
  forced, and `EveryCommandAnswered` claims nothing after it.
* Clocks run. The host does not stall the write channel for ever, and the DMA
  begins a burst only when all its data is in its FIFO, so it does not pause for
  ever. A kernel finishes a burst it has begun; a memory controller answers.

Weak fairness is enough for the mutexes: a call takes `m_dma_op_mutex` once per
chunk and there are finitely many calls, so that a contender is in the end the only one.

## 4. Proofs

| Module | Theorems | Argument |
|---|---|---|
| `MmdDmaProofs` | `Invariance`; `TypeCorrect`, `CompletionsCorrect`, `PinningCorrect`, `PinsCorrect`; `DeliveryCorrect`, `HardwareDeliveryCorrect`; `ServiceImplemented`; `DriverNeverStuck` | see below |
| `KernelInterruptProofs` | `InterruptInvariance`; `InterruptTypes`, `DisabledIsQuiet`, `HandlersCurrent`; `KernelsApproached`, `DisableApproached` | `IInv` says for each place of enabling and disabling whether thread, event, mask and handler exist; the join is what lets the controller conclude that the thread has left. |
| `HostMemMuxProofs` | `MuxInvariance`, `IrqsBetweenBursts`, `MuxTypes`; `IrqsApproached` | The counter is 0 between bursts, and within one the number of beats to come, or one less if the first was stalled. No assumption on the host. |
| `MmdDeviceProofs` | `DeviceInvariance`; `TypeCorrect`, `MapsAlwaysAgree`, `PinnedAlwaysMapped`, `OpenedAlwaysWorks`, `NeverUndefined`, `ProgramAlwaysDelivers` | see below |
| `MmdApiProofs` | `ApiInvariance`; `ApiTypes`, `CallsAlwaysDeliver`, `RegistersExact`, `ReportedOnce`; `CallsApproached` | see below |
| `DmaDispatcherProofs` | `DispatchInvariance`; `DispatcherTypes`, `DoneMeansAllMoved`, `FifoStaysBounded`; `DispatcherImplements`; `ChannelsGetDescriptors`; `AnswersApproached` | see below |
| `DmaTransferProofs` | `TransferInvariance`; `BuffersInBounds`; `BurstsAlwaysWellFormed`; `DataInvariance`, `TransferImplements`; `ChannelNeverStuck` | see below |
| `WrAckProofs` | `AckInvariance`; `AckTypes`, `EventsAlwaysInStep`, `NeverAcksEarly`, `AcksExactly` | see below |

**The DMA object.** The stated properties are not inductive: that at most
one descriptor is outstanding holds because `m_dma_op_mutex` is held from the first CSR
write to the completion. `IInv` therefore has a part for the queue (what is queued
is waiting for the worker, once), the worker (whom it executes), the calls (offset,
result and pin at each program counter), the mutex (its owner is inside
`send_descriptors`) and the controller (its descriptor is the owner's, while not
stale). With it, delivery is proved in a second induction over what each program
counter implies of the words delivered, under `BufferPrivate`: no two calls use the
staging buffer at once. The hardware build has threshold 0, where that is a theorem
(`HardwareDeliveryCorrect`); in a SIM build it is an assumption, because the code
takes no lock there. `ServiceImplemented` is the refinement: under the same
condition each step, also one that fails, is a step of `TransferService` or is not seen
by it; a fault after which the driver has lost track of the controller is `Distrust`. The calls accepted are the worker's followed by the queue, so that
taking an item is not seen; the report is what removes it. It needs two more facts:
the worker's item is inside `do_dma` (`ItemInv`), and what is read into the staging
buffer reaches the caller in one go (`StagedInv`), so that a transfer once in place
stays so.

**The devices.** That a freed page is not translated any more depends on
who holds its pins. `IInv` adds to the properties: handles are given out in order,
the entry of an allocation names devices that were opened (`EntriesNameOpened`), a
pin of it is in the connection of a device of its entry (`PinsHaveOwners`), no two
devices share a connection (`ConnectionsApart`), and, while not spoiled, nothing
dead is left behind (`NothingDead`). Freeing then finds every pin; closing takes
its own pins and nobody else's; and programming, which replaces the connection,
replaces the owner's as well.

**The data calls.** What a call has done is determined by where it is: `CallInv`
says for each place what has been moved (the prefix of the bytes that `left` has not
to come), what is padded, what the copy buffer holds and that nothing is
reported yet. Calls meet in three places, which are the rest of `IInv`: the queues
hold each waiting call once and in its direction, one copy is in progress at a time, and
while a call with an op is in progress the handlers it will be reported to are registered.
The last two are what the runtime grants (section 2); with them a step of one
call is shown to leave the others alone (`StepFrame`).

**The dispatcher.** A command is a pulse that travels through registers, while what it
needs is computed beside it. The stated properties hold because the pulse is in one place
at a time and the parts are ready when it arrives there. `IInv` names the places
(`Preparing`, `Sent(i)` for the five clocks of the split, `Working`, `Finishing`, `Magic`,
`Answered`); in `Working` each channel is queued, running or ended, and a channel that
has ended has its completion either as a pulse or in its latch, never both and never
neither. That is what makes `DoneMeansMoved` independent of the order in which the
channels end, also when both end in one clock, or one ends in the clock after
which the latches are cleared. All this is for a host that has given no wait up. `Backlog` is
the part that also holds after it: every command of the host is once on its way to channel 0,
in its FIFO, in the channel, or on the way back as a completion; the host has taken an answer or
given up for each but the last; and completions may merge, so that the
sum is at most `given_up` and the one it waits for (`FifoStaysBounded`).
`DispatcherImplements` reads the abstract descriptor off the
same places: the move is the end of the last part, the completion the answer.
`ChannelsGetDescriptors` closes the circle with `DmaTransfer`: seen from its command FIFO
and its pulse, each channel is used as `DmaDescriptor` says, which is what `DmaTransfer`
assumes and then implements.

**The DMA channel.** `BufferInBounds` is about one register and one FIFO, but what
keeps it true is spread over the pipeline. The reader decides from
`there_is_space_in_databuf`, which is a clock late, computed from
`free_space_in_databuf`, which is another clock late. `IInv` therefore counts
words: those requested, on their way, in the pipeline and in the buffer
(`Load`) never exceed what was free when the flag was computed plus the bursts that
can be requested before it falls, three, plus the words the flush can add.
The second half is the writer's: `local_databuf_usedw` counts a word four
clocks after it was pushed, so that it is at most the words that are there, and a burst
begins only when as many are counted as it has beats. Both need that the counters of
reader, pipeline and writer agree on how many words of the command are left,
state by state, which is the rest of the invariant.
`BurstsAlwaysWellFormed` rests on what is fixed when a burst begins: the beats still to
come are what `dst_avmm_burstcount` was set to, the first word's byte enables are
needed only where the first word is a burst of its own, and the last word, if it is partial,
is never announced together with another. `TransferImplements` is about the data. A
word on its way is the word at its position in the command, a position each stage
carries implicitly: the answer, the shifter, the four registers behind it, the buffer
and the output (`Carries`). `DataInvariance` states, stage by stage, that the bytes at a
position are those of the command, and that what the shifter adds from elsewhere, or the flush
pushes past the end, lies outside it. Since the byte enables are the bytes of the command
in the word, what has been written is always a prefix, and all of it when the channel
ends. `ChannelNeverStuck` is under "Progress".

**The write acknowledgement.** The registers do not say which word is where: a tracker
that has matched a burst forgets it, and the same burst may be sent twice. The
invariant speaks of the bursts of the kernel by number. It says that there are
a list `B` of the bursts begun and their words `C`, of which the first `p` have been
matched, and for every event of the memory's port a number `r` of the kernel's last burst up
to it. Each place is then described by these numbers: the kernel's port is inside
burst `n`, the path holds the words between those taken and those sent, the kernel's event
FIFO the bursts `p + 1` to `n`, and the multiplier, its pipeline and what has been
acknowledged make `C[p]` words. Since `p <= r[write_ack]`, no word is acknowledged
early; since the first kernel event of the memory's FIFO is burst `p + 1`, the address
comparison succeeds for the kernel's answers, and for no other since no burst of the DMA
engine in the FIFO has the address of one the kernel waits for (`Apart`, kept by the guards on
addresses whichever of the two begins a burst). The path needs the words one by one (`Carries`): the beats on it say only to which
burst they belong. That the FIFOs drop no event and the counter does not wrap, which the
design does not check, follows from what is outstanding at one time (`Outstanding`,
`UnackedFit`), over any number of bursts.

**Progress.** Liveness is out of the prover's reach, but what it rests on is not: that no
state is a dead end, and that the steps which fairness grants lead towards the end. That
part is proved, and TLC is left with the argument from fairness.

* `DriverNeverStuck`, for `EveryTransferEnds`: a state in which the threads in the
  driver are all blocked and the controller has nothing to do is a state without an
  unfinished call. It needs that no notification is lost (`WakeInv`: while the worker waits and
  the queue is not empty, a notification is owed), that a queued call is in the queue
  (`QueuedInv`), and that who waits for a completion has it or has a descriptor in the
  controller (`WaitInv`). It holds after any fault.
* `ChannelNeverStuck`, for `EveryCommandAnswered` of `DmaTransfer`: if a clock in which
  no memory does anything changes nothing, then a memory or the dispatcher has something to do.
  Reader and writer wait for each other through the buffer: a paused reader means
  that the buffer holds a burst, which the writer can send, and when the reader has ended all
  words have been pushed (`DrainInv`), since the destination takes at most one word more than the
  source and the flush supplies it. `HeldInv` says that a command is always in some register
  until its end.
* `AnswersApproached`, for `EveryCommandAnswered` of `DmaDispatcher`: a distance of a
  command to its answer, which every clock makes shorter unless the host has not written
  on, or a channel is at work, and then their step does. The delicate place is the end
  of the work: both latches of the request are set whenever all channels have
  ended, also when the command was for one channel only (`RequestsInv`).
* `KernelsApproached` and `DisableApproached`, for `KernelsServed` and `DisableReturns`:
  distances of the same kind, with a step of the threads whose guard holds. They
  assume finitely many kernels, which the distance counts.
* `IrqsApproached`, for `IrqsNotStuck`: what keeps an interrupt waiting is the beats to come of
  one burst, a stall or a pause of the DMA within the burst.
* `CallsApproached`, for `OpsAnswered`: the bytes a call has left, or its place in the queue.

In these theorems the guards are written out (`CanServe`, `CanDisable`, `Due`), because
`ENABLED` is out of reach, too. There is no such theorem for `EveryWordAcked`.

Assumptions on constants: `TransferAssumption` of `DmaTransfer` (types, and the two
bounds on the buffer), `CommandsAssumption` of `DmaDispatcher`, `ApiAssumption` of
`MmdApi`, `CallsAssumption` and the parameters of `MmdDma`,
`HandlersAssumption` of `KernelInterrupt`, `SizesAssumption` of `WrAck`,
`LinesAssumption` and `BurstsAssumption` of `HostMemMux`,
`BoundsAssumption` and `NullAssumption` of `MmdDevice`. They give the constants
their types and keep `NULL` apart from values. TLC evaluates them on every run. What the theorems
of `WrAck` owe to the kernel and the host program is in guards of its actions (section 2),
not in assumptions. Those of `DmaDispatcher` but `DispatchInvariance`, `DispatcherTypes` and
`FifoStaysBounded` end where the host gives a wait up.

Only model-checked: every liveness property (`EveryTransferEnds`,
`KernelsServed`, `DisableReturns`, `EveryWordAcked`, `IrqsNotStuck`, `OpsAnswered`,
`EveryCommandAnswered` of `DmaDispatcher` and of `DmaTransfer`), since liveness under
fairness is out of the prover's reach. Every invariant, refinement and action property of
the passing runs is a theorem.

## 5. Not modelled

* `avmm_single_burst_partial_writes.v`, which splits bursts of kernels with partial
  words: like the writer of `DmaTransfer`, for another source.
* The UDP offload engine: framing and ARP, which share nothing with the rest but
  CSRs.
* IO pipes: CSRs are written once from environment variables and read back to print
  them. Information queries and sysfs sensors: sequential code that reads.
* The threads of the runtime calling the MMD API at once, beyond data calls:
  `mmd.cpp` says its map is not thread-safe, so `MmdDevice` takes calls one at a
  time. A handler that registers a handler would deadlock on the mutex it runs
  under (`kernel_interrupt.cpp:252`); `KernelInterrupt` registers from other threads.
* Reset in the RTL, clock-crossing synchronisers, pipelines: an edge of a clock is
  atomic and FIFOs are exact.
* Failures of `mpfConnect`, `munmap`, thread creation and the constructor of `mmd_dma`; failures that
  `kernel_interrupt.cpp` drops, but that of registering the event (section 2).
* VTP, the platform interface manager, OPAE, the memory controllers: outside the
  repository, modelled from how the code uses them.

## 6. Plan

What is left, in order of use:

1. The writer of `DmaTransfer` composed with `HostMemMux`: the multiplexer takes from
   it that a burst is not interrupted by the writer itself, which `DmaTransfer` shows.
2. `avmm_single_burst_partial_writes.v` as a module of its own, implementing the same
   bytes in other bursts.
3. `Udp`: transmit and receive framing of `simple_tx.sv`, `simple_rx.sv`.
4. Proofs: progress of `WrAck`, as for the other modules.

## 7. Running

    tlc -config dma_service.cfg MCMmdDma     # a run: module and cfg as in PROJECT.json
    tlapm MmdDmaProofs.tla                   # the proofs of a module
