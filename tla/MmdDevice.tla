------------------------------- MODULE MmdDevice -------------------------------
(***************************************************************************)
(* The life of the devices behind the MMD API (common/source/host/mmd.cpp, *)
(* mmd_device.cpp): opening and closing, initialising the ASP, programming *)
(* a new image, and the host allocations that programming must carry from  *)
(* one MPF connection to the next.                                         *)
(*                                                                         *)
(* The API is called from one thread at a time (the maps of mmd.cpp have   *)
(* no lock, and say so), so an action is a whole call, with every point    *)
(* at which a call to the platform can fail as an alternative.  What the   *)
(* threads inside a device do meanwhile is MmdDma and KernelInterrupt.     *)
(* Taken to succeed are mpfConnect() and find_dma_dfh_offsets(), whose     *)
(* results are not looked at, what the constructor of mmd_dma only prints  *)
(* when it fails, munmap() and the release of a pin.                       *)
(***************************************************************************)
EXTENDS Naturals

CONSTANTS
  Boards,      \* the boards of the host, by object id
  Images,      \* bitstreams with an ASP and kernels
  Mems,        \* addresses mmap() may return
  MaxHandle,   \* bound: handles given out; INT_MAX in the code, where they wrap
  MaxMpf,      \* bound: MPF connections made
  NULL

ASSUME BoundsAssumption == MaxHandle \in Nat /\ MaxMpf \in Nat

Handles == 1 .. MaxHandle
\* MPF connections are numbered in the order they are made; 0 is nullptr.
Mpfs    == 1 .. MaxMpf

(***************************************************************************)
(* A Device: mpf is the connection mpf_handle points to, which may have    *)
(* been closed; h2f and f2h are the connections that the mmd_dma objects   *)
(* dma_host_to_fpga and dma_fpga_to_host were made for.                    *)
(***************************************************************************)
Device == [board           : Boards,
           mmio_is_mapped  : BOOLEAN,
           mpf             : 0 .. MaxMpf,
           h2f             : 0 .. MaxMpf,
           f2h             : 0 .. MaxMpf,
           interrupts      : {"none", "off", "on"},
           asp_initialized : BOOLEAN]

ASSUME NullAssumption ==
  NULL \notin Handles /\ NULL \notin Device /\ \A hs \in SUBSET Handles : NULL # hs

VARIABLES
  image,               \* image[b]: what board b is programmed with, or NULL
  id_to_handle_map,
  handle_to_dev_map,   \* NULL where there is no device
  next_mmd_handle,
  mem_to_handles_map,  \* NULL where there is no entry
  mapped,              \* addresses mmap() has returned and munmap() not taken
  connected,           \* MPF connections that are open
  next_mpf,
  pinned,              \* pairs of a connection and an address
  dma_threads,         \* mmd_dma objects, each with its thread
  returned,            \* the last aocl_mmd_program() and its result
  spoiled,             \* see Spoils
  undefined            \* undefined behaviour: nothing more can be said

maps  == <<id_to_handle_map, handle_to_dev_map, next_mmd_handle>>
mpf   == <<connected, next_mpf>>
host  == <<mem_to_handles_map, mapped>>
marks == <<spoiled, undefined>>
vars  == <<image, maps, host, mpf, pinned, dma_threads, returned, marks>>

(***************************************************************************)
(* Raised by what the API does not recover from: an exception that leaves  *)
(* program_bitstream() half way, memory that cannot be pinned again after  *)
(* programming (logged and dropped), memory freed after its device was     *)
(* closed.                                                                 *)
(***************************************************************************)
Spoils == spoiled' = TRUE

dev == handle_to_dev_map
Open(h) == dev[h] # NULL
\* Handles that a successful aocl_mmd_open() has returned.
Opened  == {h \in Handles : Open(h) /\ dev[h].asp_initialized}

Threads(h, c) == {[dev |-> h, mode |-> mode, mpf |-> c] : mode \in {"h2f", "f2h"}}

Init ==
  /\ image \in [Boards -> Images \cup {NULL}]
  /\ id_to_handle_map = [b \in Boards |-> NULL]
  /\ handle_to_dev_map = [h \in Handles |-> NULL]
  /\ next_mmd_handle = 1
  /\ mem_to_handles_map = [m \in Mems |-> NULL]
  /\ mapped = {}
  /\ connected = {}
  /\ next_mpf = 1
  /\ pinned = {}
  /\ dma_threads = {}
  /\ returned = NULL
  /\ spoiled = FALSE
  /\ undefined = FALSE

Crash == undefined' = TRUE /\ UNCHANGED <<image, maps, host, mpf, pinned, dma_threads, spoiled>>

-----------------------------------------------------------------------------
(***************************************************************************)
(* The device map.  The constructor takes its handle first, so that one    *)
(* that throws has used it up.                                             *)
(***************************************************************************)
NewDevice(b) ==
  [board |-> b, mmio_is_mapped |-> FALSE, mpf |-> 0, h2f |-> 0, f2h |-> 0,
   interrupts |-> "none", asp_initialized |-> FALSE]

ConstructorThrows(b) ==
  /\ ~undefined
  /\ id_to_handle_map[b] = NULL
  /\ next_mmd_handle \in Handles
  /\ next_mmd_handle' = next_mmd_handle + 1
  /\ returned' = NULL
  /\ UNCHANGED <<image, id_to_handle_map, handle_to_dev_map, host, mpf, pinned, dma_threads, marks>>

\* mmd_get_handle() and the first half of aocl_mmd_open().
get_or_create_device(b) ==
  /\ ~undefined
  /\ id_to_handle_map[b] = NULL
  /\ next_mmd_handle \in Handles
  /\ LET h == next_mmd_handle
     IN  /\ next_mmd_handle' = h + 1
         /\ id_to_handle_map' = [id_to_handle_map EXCEPT ![b] = h]
         /\ handle_to_dev_map' = [dev EXCEPT ![h] = NewDevice(b)]
  /\ returned' = NULL
  /\ UNCHANGED <<image, host, mpf, pinned, dma_threads, marks>>

-----------------------------------------------------------------------------
(***************************************************************************)
(* The second half of aocl_mmd_open(): asp_loaded() and initialize_asp().  *)
(* A failure leaves what was made so far in the device, and a second call  *)
(* makes it again.                                                         *)
(***************************************************************************)
MayInitialize(h) ==
  /\ Open(h)
  /\ image[dev[h].board] # NULL
  /\ ~dev[h].asp_initialized

\* fpgaMapMMIO() or, once it has succeeded, fpgaReset() fails.
InitializeFailsEarly(h) ==
  /\ ~undefined
  /\ MayInitialize(h)
  /\ handle_to_dev_map' \in {dev, [dev EXCEPT ![h].mmio_is_mapped = TRUE]}
  /\ returned' = NULL
  /\ UNCHANGED <<image, id_to_handle_map, next_mmd_handle, host, mpf, pinned, dma_threads, marks>>

\* With everything made, the IO pipes or the interrupt thread may still fail.
initialize_asp(h) ==
  /\ ~undefined
  /\ MayInitialize(h)
  /\ next_mpf \in Mpfs
  /\ next_mpf' = next_mpf + 1
  /\ connected' = connected \cup {next_mpf}
  /\ dma_threads' = dma_threads \cup Threads(h, next_mpf)
  /\ LET made == [dev[h] EXCEPT !.mmio_is_mapped = TRUE, !.mpf = next_mpf,
                                !.h2f = next_mpf, !.f2h = next_mpf]
     IN  handle_to_dev_map' \in {[dev EXCEPT ![h] = made],
                                 [dev EXCEPT ![h] = [made EXCEPT !.interrupts = "on",
                                                                 !.asp_initialized = TRUE]]}
  /\ returned' = NULL
  /\ UNCHANGED <<image, id_to_handle_map, next_mmd_handle, host, pinned, marks>>

-----------------------------------------------------------------------------
(***************************************************************************)
(* aocl_mmd_close(): the destructor of Device joins the threads it still   *)
(* points to, then closes the connection it still points to.               *)
(***************************************************************************)
\* Mutant: the device map forgets the device, the id map does not.
ForgetsDevice(h) == id_to_handle_map

ForgetsBoard(h) == [id_to_handle_map EXCEPT ![dev[h].board] = NULL]

aocl_mmd_close(h) ==
  /\ ~undefined
  /\ Open(h)
  /\ returned' = NULL
  /\ LET d == dev[h]
     IN  IF d.mpf # 0 /\ d.mpf \notin connected THEN Crash
         ELSE /\ handle_to_dev_map' = [dev EXCEPT ![h] = NULL]
              /\ id_to_handle_map' = ForgetsBoard(h)
              /\ dma_threads' = dma_threads \ {[dev |-> h, mode |-> "h2f", mpf |-> d.h2f],
                                               [dev |-> h, mode |-> "f2h", mpf |-> d.f2h]}
              /\ connected' = connected \ {d.mpf}
              /\ pinned' = {p \in pinned : p[1] # d.mpf}
              /\ UNCHANGED <<image, next_mmd_handle, host, next_mpf, marks>>

-----------------------------------------------------------------------------
(***************************************************************************)
(* Host allocations, aocl_mmd_host_alloc() and, for one device,            *)
(* aocl_mmd_shared_alloc().  When a device cannot pin the memory, those    *)
(* before it keep their pins and nobody unmaps the memory.  The code takes *)
(* any device of the map; a host has handles of opened ones.               *)
(***************************************************************************)
Pins(hs, m) == {<<dev[h].mpf, m>> : h \in hs}

Reachable(hs) == \A h \in hs : dev[h].mpf \in connected

Allocate(hs, m) ==
  /\ hs # {}
  /\ m \notin mapped
  /\ returned' = NULL
  /\ IF ~Reachable(hs) THEN Crash
     ELSE /\ mapped' = mapped \cup {m}
          /\ \/ /\ mem_to_handles_map' = [mem_to_handles_map EXCEPT ![m] = hs]
                /\ pinned' = pinned \cup Pins(hs, m)
             \/ \E some \in (SUBSET hs) \ {hs} :
                  /\ pinned' = pinned \cup Pins(some, m)
                  /\ UNCHANGED mem_to_handles_map
          /\ UNCHANGED <<image, maps, mpf, dma_threads, marks>>

aocl_mmd_host_alloc(m) ==
  /\ ~undefined
  /\ \E hs \in SUBSET Opened : Allocate(hs, m)

\* An entry whose vector of handles aocl_mmd_free() has moved away.
Moved == {}

\* Mutant: the pages are unmapped without asking the devices.
KeepsPins(hs, m) == pinned

Unpin(hs, m) == pinned \ Pins(hs, m)

\* Mutant: the memory is unmapped and its entry stays.
EntryStays(m) == mem_to_handles_map

Erased(m) == [mem_to_handles_map EXCEPT ![m] = NULL]

(***************************************************************************)
(* aocl_mmd_free().  The vector of handles is moved out of the entry       *)
(* first: when a device is gone the call returns -1 and leaves the entry   *)
(* without its vector, for the next walk over the map to follow.           *)
(***************************************************************************)
aocl_mmd_free(m) ==
  /\ ~undefined
  /\ mem_to_handles_map[m] # NULL
  /\ returned' = NULL
  /\ LET hs   == mem_to_handles_map[m]
         open == {h \in hs : Open(h)}
     IN  IF hs = Moved \/ ~Reachable(open) THEN Crash
         ELSE \/ /\ open = hs
                 /\ pinned' = Unpin(hs, m)
                 /\ mapped' = mapped \ {m}
                 /\ mem_to_handles_map' = Erased(m)
                 /\ UNCHANGED <<image, maps, mpf, dma_threads, marks>>
              \/ /\ open # hs
                 /\ \E some \in SUBSET open : pinned' = Unpin(some, m)
                 /\ mem_to_handles_map' = [mem_to_handles_map EXCEPT ![m] = Moved]
                 /\ Spoils
                 /\ UNCHANGED <<image, maps, mapped, mpf, dma_threads, undefined>>

-----------------------------------------------------------------------------
(***************************************************************************)
(* aocl_mmd_program() unpins the memory of the device, programs, and pins  *)
(* it again; mmd_device_reprogram() (keep = FALSE) only programs.          *)
(***************************************************************************)
Memory(h) == {m \in Mems : mem_to_handles_map[m] # NULL /\ h \in mem_to_handles_map[m]}

Dead(h) == dev[h].mpf # 0 /\ dev[h].mpf \notin connected

\* The walk over the map follows a moved vector, or hands MPF a dead connection.
WalkIsUndefined(h) ==
  \/ \E m \in Mems : mem_to_handles_map[m] = Moved
  \/ Memory(h) # {} /\ Dead(h)

unpin_all_mem_for_handle(h) == pinned \ ({dev[h].mpf} \X Memory(h))

\* What the call returns; path, a history, is the way it took: "refused",
\* "failed", "thrown", "pinned" or "unpinned".
Returns(h, img, keep, ok, path) ==
  returned' = [handle |-> h, board |-> dev[h].board, image |-> img, keep |-> keep,
               ok |-> ok, path |-> path]

\* The package cannot be opened, has no image in it, or does not inflate.
BadPackage(h, img, keep) ==
  /\ pinned' = IF keep THEN unpin_all_mem_for_handle(h) ELSE pinned
  /\ Returns(h, img, keep, FALSE, "refused")
  /\ UNCHANGED <<image, maps, host, mpf, dma_threads, marks>>

\* program_gbs_bitstream() may fail, leaving the old image or none.
Programmed(b, img) == image' = [image EXCEPT ![b] = img]
NotProgrammed(b)   == image' \in {image, [image EXCEPT ![b] = NULL]}

\* disable_interrupts() and mpfDisconnect().
Quiet(d) == [d EXCEPT !.interrupts = IF @ = "none" THEN "none" ELSE "off"]
Disconnected(h, pins) == {p \in pins : p[1] # dev[h].mpf}

(***************************************************************************)
(* Reading the properties of the new image fails: the exception leaves     *)
(* mpf_handle as it was, and program_aocx() catches it with res = 0.       *)
(***************************************************************************)
ProgramThrows(h, img, keep) ==
  /\ Programmed(dev[h].board, img) \/ NotProgrammed(dev[h].board)
  /\ handle_to_dev_map' = [dev EXCEPT ![h] = Quiet(@)]
  /\ connected' = connected \ {dev[h].mpf}
  /\ pinned' = Disconnected(h, pinned)
  /\ Returns(h, img, keep, TRUE, "thrown")
  /\ Spoils
  /\ undefined' = (keep /\ Memory(h) # {})
  /\ UNCHANGED <<id_to_handle_map, next_mmd_handle, host, next_mpf, dma_threads>>

\* Mutant: the mmd_dma objects keep the closed connection.
KeepsObjects(d) ==
  [d EXCEPT !.mpf = next_mpf, !.interrupts = IF @ = "none" THEN "none" ELSE "on"]

\* Mutant: the new connection is given to the mmd_dma objects only.
KeepsConnection(d) ==
  [d EXCEPT !.h2f = next_mpf, !.f2h = next_mpf, !.interrupts = IF @ = "none" THEN "none" ELSE "on"]

\* The device after the rest of program_bitstream(), which connects MPF whether
\* or not the board has an image.
Reconnected(d) ==
  [d EXCEPT !.mpf = next_mpf,
            !.h2f = IF @ = 0 THEN 0 ELSE next_mpf,
            !.f2h = IF @ = 0 THEN 0 ELSE next_mpf,
            !.interrupts = IF @ = "none" THEN "none" ELSE "on"]

\* Mutant: the memory is not pinned for the new connection.
NothingRepinned(h) == {}

repin_all_mem_for_handle(h) == {next_mpf} \X Memory(h)

(***************************************************************************)
(* program_bitstream() runs to its end.  The old mmd_dma objects are       *)
(* overwritten, not deleted.  Failing to pin again is logged only.         *)
(***************************************************************************)
ProgramEnds(h, img, keep) ==
  /\ next_mpf \in Mpfs
  /\ next_mpf' = next_mpf + 1
  /\ connected' = (connected \ {dev[h].mpf}) \cup {next_mpf}
  /\ handle_to_dev_map' = [dev EXCEPT ![h] = Reconnected(@)]
  /\ dma_threads' = dma_threads \cup (IF dev[h].h2f = 0 THEN {} ELSE Threads(h, next_mpf))
  /\ LET left == Disconnected(h, pinned)
         all  == IF keep THEN repin_all_mem_for_handle(h) ELSE {}
     IN  \/ /\ Programmed(dev[h].board, img)
            /\ \/ /\ pinned' = left \cup all
                  /\ Returns(h, img, keep, TRUE, "pinned")
                  /\ UNCHANGED spoiled
               \/ /\ \E some \in (SUBSET all) \ {all} : pinned' = left \cup some
                  /\ Returns(h, img, keep, TRUE, "unpinned")
                  /\ Spoils
         \/ /\ NotProgrammed(dev[h].board)
            /\ Returns(h, img, keep, FALSE, "failed")
            /\ pinned' = left
            /\ UNCHANGED spoiled
  /\ UNCHANGED <<id_to_handle_map, next_mmd_handle, host, undefined>>

program_aocx(h, img, keep) ==
  \/ BadPackage(h, img, keep)
  \/ ~Dead(h) /\ (ProgramThrows(h, img, keep) \/ ProgramEnds(h, img, keep))
  \/ Dead(h) /\ Crash /\ returned' = NULL

aocl_mmd_program(h, img) ==
  /\ ~undefined
  /\ h \in Opened
  /\ IF WalkIsUndefined(h) THEN Crash /\ returned' = NULL
     ELSE program_aocx(h, img, TRUE)

mmd_device_reprogram(h, img) ==
  /\ ~undefined
  /\ Open(h)
  /\ program_aocx(h, img, FALSE)

-----------------------------------------------------------------------------
Next ==
  \/ \E b \in Boards : ConstructorThrows(b)
  \/ \E b \in Boards : get_or_create_device(b)
  \/ \E h \in Handles : InitializeFailsEarly(h)
  \/ \E h \in Handles : initialize_asp(h)
  \/ \E h \in Handles : aocl_mmd_close(h)
  \/ \E m \in Mems : aocl_mmd_host_alloc(m)
  \/ \E m \in Mems : aocl_mmd_free(m)
  \/ \E h \in Handles, img \in Images : aocl_mmd_program(h, img)
  \/ \E h \in Handles, img \in Images : mmd_device_reprogram(h, img)

Spec == Init /\ [][Next]_vars
-----------------------------------------------------------------------------
(***************************************************************************)
(* Types; an entry names memory that is mapped, and connections are given  *)
(* out in order.                                                           *)
(***************************************************************************)
TypeOK ==
  /\ image \in [Boards -> Images \cup {NULL}]
  /\ id_to_handle_map \in [Boards -> Handles \cup {NULL}]
  /\ handle_to_dev_map \in [Handles -> Device \cup {NULL}]
  /\ next_mmd_handle \in Nat
  /\ mem_to_handles_map \in [Mems -> {NULL} \cup SUBSET Handles]
  /\ mapped \in SUBSET Mems
  /\ \A m \in Mems : mem_to_handles_map[m] # NULL => m \in mapped
  /\ connected \in SUBSET Mpfs
  /\ next_mpf \in 1 .. MaxMpf + 1
  /\ \A c \in connected : c < next_mpf
  /\ pinned \in SUBSET (Mpfs \X Mems)
  /\ dma_threads \in SUBSET [dev : Handles, mode : {"h2f", "f2h"}, mpf : Mpfs]
  /\ spoiled \in BOOLEAN
  /\ undefined \in BOOLEAN

(***************************************************************************)
(* The two maps of DeviceMapManager are inverses: a board is found under   *)
(* its own handle or not at all, whatever opens fail and devices close.    *)
(***************************************************************************)
MapsAgree ==
  \A b \in Boards, h \in Handles :
    id_to_handle_map[b] = h <=> Open(h) /\ dev[h].board = b

(***************************************************************************)
(* What a device may reach by DMA is memory that is still allocated: no    *)
(* order of allocating, freeing, programming and closing, with any of them *)
(* failing half way, unmaps a page that a connection still translates.     *)
(***************************************************************************)
PinnedIsMapped == \A p \in pinned : p[1] \in connected /\ p[2] \in mapped

(***************************************************************************)
(* An opened device works: MPF is connected, both mmd_dma objects exist    *)
(* and use this connection, interrupts are on.  Programming replaces all   *)
(* three under an open device, whether or not it succeeds.                 *)
(***************************************************************************)
Works(h) ==
  /\ dev[h].mpf \in connected
  /\ dev[h].h2f = dev[h].mpf
  /\ dev[h].f2h = dev[h].mpf
  /\ Threads(h, dev[h].mpf) \subseteq dma_threads
  /\ dev[h].interrupts = "on"

OpenedWorks == ~spoiled => \A h \in Opened : Works(h)

(***************************************************************************)
(* The driver follows a closed connection, or a vector that was moved      *)
(* away, only after one of the events of Spoils: in calls that succeed or  *)
(* fail cleanly it never makes such a pointer.                             *)
(***************************************************************************)
NothingUndefined == undefined => spoiled

(***************************************************************************)
(* aocl_mmd_program() tells the truth: when it returns the handle, the     *)
(* board has the new image, an opened device works, and every allocation   *)
(* of the device is pinned again.  It does not hold: program_aocx()        *)
(* catches an exception of program_bitstream() with the result still 0,    *)
(* and a failure to pin again is only logged, where the comment on the     *)
(* function says that it must fail.                                        *)
(***************************************************************************)
NewImage(r) ==
  /\ image[r.board] = r.image
  /\ r.handle \in Opened => Works(r.handle)

PinnedAgain(r) == \A m \in Memory(r.handle) : <<dev[r.handle].mpf, m>> \in pinned

SuccessIsProgrammed ==
  returned # NULL =>
    (returned.keep /\ returned.ok => NewImage(returned) /\ PinnedAgain(returned))

(***************************************************************************)
(* These two ways are the only ones, and what each of them loses is no     *)
(* more than it must: without an exception in this very call a success     *)
(* means the new image and a working device, also when earlier calls went  *)
(* wrong, and memory that is not pinned again is that of a re-pinning that *)
(* failed.                                                                 *)
(***************************************************************************)
ProgramDelivers ==
  returned # NULL =>
    (returned.ok /\ returned.path # "thrown" =>
       /\ NewImage(returned)
       /\ returned.path = "pinned" /\ returned.keep => PinnedAgain(returned))

(***************************************************************************)
(* A closed device leaves no thread behind, which is what the comment on   *)
(* the destructor of Device says of its resources.                         *)
(***************************************************************************)
ClosedReleasesAll == \A t \in dma_threads : Open(t.dev)
=============================================================================
