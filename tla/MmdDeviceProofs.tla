---------------------------- MODULE MmdDeviceProofs ----------------------------
(***************************************************************************)
(* The invariants of MmdDevice, for any boards, images, addresses and      *)
(* bounds.  The parts below say whose connection is whose and which        *)
(* handles an entry may name; with them every invariant is preserved.      *)
(***************************************************************************)
EXTENDS MmdDevice, TLAPS

\* Handles are given out once.
HandlesInOrder == \A h \in Handles : Open(h) => h < next_mmd_handle

\* An entry names devices that were opened, and never one that comes later.
EntriesNameOpened ==
  \A m \in Mems : mem_to_handles_map[m] # NULL =>
    \A h \in mem_to_handles_map[m] :
      h < next_mmd_handle /\ (Open(h) => dev[h].asp_initialized)

\* A pin of memory in the map is in the connection of a device of its entry.
PinsHaveOwners ==
  \A p \in pinned : mem_to_handles_map[p[2]] \notin {NULL, Moved} =>
    \E h \in mem_to_handles_map[p[2]] : Open(h) /\ dev[h].mpf = p[1]

\* No two devices share a connection, and none has one that comes later.
ConnectionsApart ==
  /\ \A h \in Handles : Open(h) => dev[h].mpf < next_mpf
  /\ \A h, g \in Handles : Open(h) /\ Open(g) /\ dev[h].mpf # 0 /\ dev[h].mpf = dev[g].mpf => h = g

\* Nothing dead is left behind by what the driver itself does.
NothingDead ==
  ~spoiled =>
    /\ \A h \in Handles : Open(h) => ~Dead(h)
    /\ \A m \in Mems : mem_to_handles_map[m] # Moved

IInv ==
  /\ TypeOK
  /\ MapsAgree
  /\ HandlesInOrder
  /\ EntriesNameOpened
  /\ PinnedIsMapped
  /\ PinsHaveOwners
  /\ ConnectionsApart
  /\ OpenedWorks
  /\ NothingDead
  /\ NothingUndefined

USE DEF dev, Open

-----------------------------------------------------------------------------
LEMMA InitInv ==
  ASSUME Init
  PROVE  IInv
<1> USE BoundsAssumption, NullAssumption DEF Init
<1>1. TypeOK
  <2>1. next_mpf \in 1 .. MaxMpf + 1 /\ next_mmd_handle \in Nat
    OBVIOUS
  <2>2. /\ connected \in SUBSET Mpfs /\ \A c \in connected : c < next_mpf
        /\ pinned \in SUBSET (Mpfs \X Mems)
        /\ dma_threads \in SUBSET [dev : Handles, mode : {"h2f", "f2h"}, mpf : Mpfs]
        /\ mapped \in SUBSET Mems
    OBVIOUS
  <2>3. /\ id_to_handle_map \in [Boards -> Handles \cup {NULL}]
        /\ handle_to_dev_map \in [Handles -> Device \cup {NULL}]
        /\ mem_to_handles_map \in [Mems -> {NULL} \cup SUBSET Handles]
        /\ \A m \in Mems : mem_to_handles_map[m] = NULL
    OBVIOUS
  <2> QED
    BY <2>1, <2>2, <2>3 DEF TypeOK
<1>2. MapsAgree
  BY DEF MapsAgree
<1> QED
  BY <1>1, <1>2 DEF IInv, HandlesInOrder, EntriesNameOpened, PinnedIsMapped, PinsHaveOwners,
     ConnectionsApart, OpenedWorks, Opened, NothingDead, NothingUndefined, Moved

\* The invariant says nothing of returned, and a crash changes nothing else.
LEMMA CrashStep ==
  ASSUME IInv, Crash, spoiled
  PROVE  IInv'
<1> USE DEF Crash, maps, host, mpf
<1>1. TypeOK'
  BY DEF IInv, TypeOK
<1>2. MapsAgree' /\ HandlesInOrder' /\ EntriesNameOpened'
  BY DEF IInv, MapsAgree, HandlesInOrder, EntriesNameOpened
<1>3. PinnedIsMapped' /\ PinsHaveOwners' /\ ConnectionsApart'
  BY DEF IInv, PinnedIsMapped, PinsHaveOwners, ConnectionsApart, Moved
<1> QED
  BY <1>1, <1>2, <1>3 DEF IInv, OpenedWorks, NothingDead, NothingUndefined

\* Nothing of the invariant is about the calls to come.
LEMMA StutterStep ==
  ASSUME IInv, UNCHANGED vars
  PROVE  IInv'
<1> USE DEF vars, maps, host, mpf, marks
<1>1. TypeOK'
  BY DEF IInv, TypeOK
<1>2. MapsAgree' /\ HandlesInOrder' /\ EntriesNameOpened'
  BY DEF IInv, MapsAgree, HandlesInOrder, EntriesNameOpened
<1>3. PinnedIsMapped' /\ PinsHaveOwners' /\ ConnectionsApart'
  BY DEF IInv, PinnedIsMapped, PinsHaveOwners, ConnectionsApart, Moved
<1>4. OpenedWorks' /\ NothingDead' /\ NothingUndefined'
  BY DEF IInv, OpenedWorks, Opened, Works, Threads, NothingDead, Dead, Moved, NothingUndefined
<1> QED
  BY <1>1, <1>2, <1>3, <1>4 DEF IInv

LEMMA ConstructorThrowsStep ==
  ASSUME IInv, NEW b \in Boards, ConstructorThrows(b)
  PROVE  IInv'
<1> USE BoundsAssumption DEF ConstructorThrows, host, mpf, marks, Handles
<1>1. TypeOK'
  BY DEF IInv, TypeOK
<1>2. MapsAgree' /\ HandlesInOrder' /\ EntriesNameOpened'
  BY DEF IInv, TypeOK, MapsAgree, HandlesInOrder, EntriesNameOpened
<1>3. PinnedIsMapped' /\ PinsHaveOwners' /\ ConnectionsApart'
  BY DEF IInv, PinnedIsMapped, PinsHaveOwners, ConnectionsApart, Moved
<1>4. OpenedWorks' /\ NothingDead' /\ NothingUndefined'
  BY DEF IInv, OpenedWorks, Opened, Works, Threads, NothingDead, Dead, Moved, NothingUndefined
<1> QED
  BY <1>1, <1>2, <1>3, <1>4 DEF IInv

LEMMA CreateStep ==
  ASSUME IInv, NEW b \in Boards, get_or_create_device(b)
  PROVE  IInv'
<1> DEFINE h == next_mmd_handle
<1> USE BoundsAssumption, NullAssumption DEF host, mpf, marks
<1>1. h \in Handles /\ handle_to_dev_map[h] = NULL
  BY DEF get_or_create_device, IInv, TypeOK, HandlesInOrder, Handles
<1>2. NewDevice(b) \in Device
  BY DEF NewDevice, Device
<1>3. /\ handle_to_dev_map' = [handle_to_dev_map EXCEPT ![h] = NewDevice(b)]
      /\ id_to_handle_map' = [id_to_handle_map EXCEPT ![b] = h]
      /\ next_mmd_handle' = h + 1
      /\ UNCHANGED <<host, mpf, pinned, dma_threads, marks>>
      /\ image' = image
      /\ id_to_handle_map[b] = NULL
  BY DEF get_or_create_device
<1>4. TypeOK'
  BY <1>1, <1>2, <1>3 DEF IInv, TypeOK, Handles
<1>5. /\ NewDevice(b).board = b /\ NewDevice(b).mpf = 0
      /\ ~NewDevice(b).asp_initialized /\ NewDevice(b) # NULL
  BY <1>2 DEF NewDevice
<1>6. MapsAgree'
  BY <1>1, <1>3, <1>5 DEF IInv, TypeOK, MapsAgree
<1>7. HandlesInOrder' /\ EntriesNameOpened'
  BY <1>1, <1>3, <1>5 DEF IInv, TypeOK, HandlesInOrder, EntriesNameOpened, Handles
<1>8. PinnedIsMapped' /\ PinsHaveOwners'
  <2>1. \A m \in Mems : mem_to_handles_map[m] # NULL => h \notin mem_to_handles_map[m]
    BY <1>1 DEF IInv, TypeOK, EntriesNameOpened, Handles
  <2> QED
    BY <1>1, <1>3, <2>1 DEF IInv, TypeOK, PinnedIsMapped, PinsHaveOwners, Moved
<1>9. ConnectionsApart'
  BY <1>1, <1>3, <1>5 DEF IInv, TypeOK, ConnectionsApart
<1>10. OpenedWorks' /\ NothingDead' /\ NothingUndefined'
  BY <1>1, <1>3, <1>5 DEF IInv, TypeOK, OpenedWorks, Opened, Works, Threads, NothingDead, Dead,
     Moved, NothingUndefined
<1> QED
  BY <1>4, <1>6, <1>7, <1>8, <1>9, <1>10 DEF IInv

\* Mapping the registers again changes nothing that the invariant is about.
LEMMA InitializeFailsStep ==
  ASSUME IInv, NEW h \in Handles, InitializeFailsEarly(h)
  PROVE  IInv'
<1> USE BoundsAssumption, NullAssumption DEF host, mpf, marks
<1>1. /\ handle_to_dev_map' \in {handle_to_dev_map, [handle_to_dev_map EXCEPT ![h].mmio_is_mapped = TRUE]}
      /\ handle_to_dev_map[h] # NULL
      /\ UNCHANGED <<image, id_to_handle_map, next_mmd_handle, host, mpf, pinned, dma_threads, marks>>
  BY DEF InitializeFailsEarly, MayInitialize
<1>2. /\ handle_to_dev_map \in [Handles -> Device \cup {NULL}]
      /\ handle_to_dev_map[h] \in Device
  BY <1>1 DEF IInv, TypeOK
<1>3. [handle_to_dev_map[h] EXCEPT !.mmio_is_mapped = TRUE] \in Device
  BY <1>2 DEF Device
<1>4. handle_to_dev_map' \in [Handles -> Device \cup {NULL}]
  BY <1>1, <1>2, <1>3
<1>5. \A g \in Handles :
        /\ handle_to_dev_map'[g] # NULL <=> handle_to_dev_map[g] # NULL
        /\ handle_to_dev_map'[g].board = handle_to_dev_map[g].board
        /\ handle_to_dev_map'[g].mpf = handle_to_dev_map[g].mpf
        /\ handle_to_dev_map'[g].h2f = handle_to_dev_map[g].h2f
        /\ handle_to_dev_map'[g].f2h = handle_to_dev_map[g].f2h
        /\ handle_to_dev_map'[g].interrupts = handle_to_dev_map[g].interrupts
        /\ handle_to_dev_map'[g].asp_initialized = handle_to_dev_map[g].asp_initialized
  <2> TAKE g \in Handles
  <2>1. CASE g # h
    BY <1>1, <1>2, <2>1
  <2>2. CASE g = h
    <3> DEFINE d == handle_to_dev_map[h]
               e == [d EXCEPT !.mmio_is_mapped = TRUE]
    <3>1. /\ e.board = d.board /\ e.mpf = d.mpf /\ e.h2f = d.h2f /\ e.f2h = d.f2h
          /\ e.interrupts = d.interrupts /\ e.asp_initialized = d.asp_initialized
      BY <1>2 DEF Device
    <3>2. handle_to_dev_map'[h] \in {d, e}
      BY <1>1, <1>2
    <3>3. handle_to_dev_map'[h] # NULL
      BY <1>2, <1>3, <3>2
    <3> QED
      BY <1>1, <2>2, <3>1, <3>2, <3>3
  <2> QED
    BY <2>1, <2>2
<1>6. TypeOK'
  BY <1>1, <1>4 DEF IInv, TypeOK
<1>7. MapsAgree' /\ HandlesInOrder' /\ EntriesNameOpened'
  BY <1>1, <1>5 DEF IInv, TypeOK, MapsAgree, HandlesInOrder, EntriesNameOpened
<1>8. PinnedIsMapped' /\ PinsHaveOwners' /\ ConnectionsApart'
  <2>1. PinnedIsMapped' /\ ConnectionsApart'
    BY <1>1, <1>5 DEF IInv, PinnedIsMapped, ConnectionsApart
  <2>2. PinsHaveOwners'
    BY <1>1, <1>5 DEF IInv, TypeOK, PinsHaveOwners, Moved
  <2> QED
    BY <2>1, <2>2
<1>9. OpenedWorks' /\ NothingDead' /\ NothingUndefined'
  BY <1>1, <1>5 DEF IInv, OpenedWorks, Opened, Works, Threads, NothingDead, Dead, Moved, NothingUndefined
<1> QED
  BY <1>6, <1>7, <1>8, <1>9 DEF IInv

\* The new connection is nobody's yet, and the device owned no pin.
LEMMA InitializeStep ==
  ASSUME IInv, NEW h \in Handles, initialize_asp(h)
  PROVE  IInv'
<1> DEFINE made == [handle_to_dev_map[h] EXCEPT !.mmio_is_mapped = TRUE, !.mpf = next_mpf,
                                !.h2f = next_mpf, !.f2h = next_mpf]
           ends == [made EXCEPT !.interrupts = "on", !.asp_initialized = TRUE]
<1> USE BoundsAssumption, NullAssumption DEF host, marks
<1>1. /\ handle_to_dev_map' \in {[handle_to_dev_map EXCEPT ![h] = made],
                                 [handle_to_dev_map EXCEPT ![h] = ends]}
      /\ handle_to_dev_map[h] # NULL
      /\ ~handle_to_dev_map[h].asp_initialized
      /\ next_mpf \in Mpfs
      /\ next_mpf' = next_mpf + 1
      /\ connected' = connected \cup {next_mpf}
      /\ dma_threads' = dma_threads \cup Threads(h, next_mpf)
      /\ UNCHANGED <<image, id_to_handle_map, next_mmd_handle, host, pinned, marks>>
  BY DEF initialize_asp, MayInitialize
<1>2. /\ handle_to_dev_map \in [Handles -> Device \cup {NULL}]
      /\ handle_to_dev_map[h] \in Device
  BY <1>1 DEF IInv, TypeOK
<1>3. /\ made \in Device /\ ends \in Device
      /\ made.board = handle_to_dev_map[h].board /\ ends.board = handle_to_dev_map[h].board
      /\ made.mpf = next_mpf /\ ends.mpf = next_mpf
      /\ ends.h2f = next_mpf /\ ends.f2h = next_mpf
      /\ made.asp_initialized = FALSE
      /\ ends.interrupts = "on" /\ ends.asp_initialized = TRUE
  <2>1. next_mpf \in 0 .. MaxMpf
    BY <1>1 DEF Mpfs
  <2>2. made \in Device
    BY <1>2, <2>1 DEF Device
  <2>3. ends \in Device
    BY <2>2 DEF Device
  <2> QED
    BY <1>1, <1>2, <2>1, <2>2, <2>3 DEF Device
<1> HIDE DEF made, ends
<1>4. /\ handle_to_dev_map' \in [Handles -> Device \cup {NULL}]
      /\ handle_to_dev_map'[h] \in {made, ends}
      /\ handle_to_dev_map'[h] # NULL
      /\ \A g \in Handles \ {h} : handle_to_dev_map'[g] = handle_to_dev_map[g]
  BY <1>1, <1>2, <1>3
<1>5. TypeOK'
  <2>1. Threads(h, next_mpf) \subseteq [dev : Handles, mode : {"h2f", "f2h"}, mpf : Mpfs]
    BY <1>1 DEF Threads
  <2>2. next_mpf' \in 1 .. MaxMpf + 1 /\ connected' \in SUBSET Mpfs /\ \A c \in connected' : c < next_mpf'
    BY <1>1 DEF IInv, TypeOK, Mpfs
  <2> QED
    BY <1>1, <1>4, <2>1, <2>2 DEF IInv, TypeOK
<1>6. MapsAgree'
  BY <1>1, <1>3, <1>4 DEF IInv, TypeOK, MapsAgree
<1>7. HandlesInOrder'
  BY <1>1, <1>4 DEF IInv, HandlesInOrder
<1>8. \A m \in Mems : mem_to_handles_map[m] # NULL => h \notin mem_to_handles_map[m]
  BY <1>1 DEF IInv, TypeOK, EntriesNameOpened
<1>9. EntriesNameOpened'
  BY <1>1, <1>4, <1>8 DEF IInv, TypeOK, EntriesNameOpened
<1>10. PinnedIsMapped'
  BY <1>1 DEF IInv, PinnedIsMapped
<1>11. PinsHaveOwners'
  <2> SUFFICES ASSUME NEW p \in pinned, mem_to_handles_map[p[2]] \notin {NULL, Moved}
               PROVE  \E g \in mem_to_handles_map[p[2]] :
                        handle_to_dev_map'[g] # NULL /\ handle_to_dev_map'[g].mpf = p[1]
    BY <1>1 DEF PinsHaveOwners
  <2>1. p[2] \in Mems
    BY DEF IInv, TypeOK
  <2>2. PICK g \in mem_to_handles_map[p[2]] : handle_to_dev_map[g] # NULL /\ handle_to_dev_map[g].mpf = p[1]
    BY DEF IInv, PinsHaveOwners
  <2>3. g \in Handles \ {h}
    BY <1>8, <2>1, <2>2 DEF IInv, TypeOK
  <2> QED
    BY <1>4, <2>2, <2>3
<1>12. ConnectionsApart'
  <2>1. \A g \in Handles : handle_to_dev_map'[g] # NULL => handle_to_dev_map'[g].mpf < next_mpf'
    BY <1>1, <1>3, <1>4 DEF IInv, TypeOK, ConnectionsApart, Device
  <2>2. \A g \in Handles \ {h} : handle_to_dev_map[g] # NULL => handle_to_dev_map[g].mpf # next_mpf
    BY <1>1 DEF IInv, TypeOK, ConnectionsApart, Device
  <2>3. handle_to_dev_map'[h].mpf = next_mpf
    BY <1>3, <1>4
  <2>4. ASSUME NEW g \in Handles, NEW k \in Handles,
               handle_to_dev_map'[g] # NULL, handle_to_dev_map'[k] # NULL,
               handle_to_dev_map'[g].mpf # 0, handle_to_dev_map'[g].mpf = handle_to_dev_map'[k].mpf
        PROVE  g = k
    <3>1. CASE g = h \/ k = h
      BY <1>4, <2>2, <2>3, <2>4, <3>1
    <3>2. CASE g # h /\ k # h
      BY <1>4, <2>4, <3>2 DEF IInv, ConnectionsApart
    <3> QED
      BY <3>1, <3>2
  <2> QED
    BY <2>1, <2>4 DEF ConnectionsApart
<1>13. OpenedWorks'
  <2> SUFFICES ASSUME ~spoiled, NEW g \in Handles, g \in Opened'
               PROVE  Works(g)'
    BY <1>1 DEF OpenedWorks, Opened
  <2>1. CASE g = h
    BY <1>1, <1>3, <1>4, <2>1 DEF Opened, Works
  <2>2. CASE g # h
    BY <1>1, <1>4, <2>2 DEF IInv, OpenedWorks, Opened, Works, Threads
  <2> QED
    BY <2>1, <2>2
<1>14. NothingDead' /\ NothingUndefined'
  BY <1>1, <1>3, <1>4 DEF IInv, NothingDead, Dead, Moved, NothingUndefined
<1> QED
  BY <1>5, <1>6, <1>7, <1>9, <1>10, <1>11, <1>12, <1>13, <1>14 DEF IInv

\* Closing takes the device's own connection with it, and nobody else's.
LEMMA CloseStep ==
  ASSUME IInv, NEW h \in Handles, aocl_mmd_close(h)
  PROVE  IInv'
<1> DEFINE d == handle_to_dev_map[h]
<1> USE BoundsAssumption, NullAssumption DEF host, marks
<1>1. d # NULL /\ d \in Device
  BY DEF aocl_mmd_close, IInv, TypeOK
<1>2. CASE d.mpf # 0 /\ d.mpf \notin connected
  <2>1. Crash
    BY <1>2 DEF aocl_mmd_close
  <2>2. spoiled
    BY <1>1, <1>2 DEF IInv, NothingDead, Dead
  <2> QED
    BY <2>1, <2>2, CrashStep
<1>3. CASE ~(d.mpf # 0 /\ d.mpf \notin connected)
  <2> DEFINE own == {[dev |-> h, mode |-> "h2f", mpf |-> d.h2f],
                     [dev |-> h, mode |-> "f2h", mpf |-> d.f2h]}
  <2>1. /\ handle_to_dev_map' = [handle_to_dev_map EXCEPT ![h] = NULL]
        /\ id_to_handle_map' = [id_to_handle_map EXCEPT ![d.board] = NULL]
        /\ dma_threads' = dma_threads \ own
        /\ connected' = connected \ {d.mpf}
        /\ pinned' = {p \in pinned : p[1] # d.mpf}
        /\ UNCHANGED <<image, next_mmd_handle, host, next_mpf, marks>>
    BY <1>3 DEF aocl_mmd_close, ForgetsBoard
  <2>2. /\ \A t \in own : t.dev = h
        /\ handle_to_dev_map'[h] = NULL
        /\ \A g \in Handles \ {h} : handle_to_dev_map'[g] = handle_to_dev_map[g]
        /\ handle_to_dev_map' \in [Handles -> Device \cup {NULL}]
    BY <2>1 DEF IInv, TypeOK
  <2>3. TypeOK'
    BY <2>1, <2>2 DEF IInv, TypeOK
  <2>4. MapsAgree'
    BY <1>1, <2>1, <2>2 DEF IInv, TypeOK, MapsAgree, Device
  <2>5. HandlesInOrder' /\ EntriesNameOpened' /\ PinnedIsMapped'
    BY <2>1, <2>2 DEF IInv, TypeOK, HandlesInOrder, EntriesNameOpened, PinnedIsMapped
  <2>6. PinsHaveOwners'
    <3> SUFFICES ASSUME NEW p \in pinned, p[1] # d.mpf, mem_to_handles_map[p[2]] \notin {NULL, Moved}
                 PROVE  \E g \in mem_to_handles_map[p[2]] :
                          handle_to_dev_map'[g] # NULL /\ handle_to_dev_map'[g].mpf = p[1]
      BY <2>1 DEF PinsHaveOwners
    <3>1. p[2] \in Mems
      BY DEF IInv, TypeOK
    <3>2. PICK g \in mem_to_handles_map[p[2]] : handle_to_dev_map[g] # NULL /\ handle_to_dev_map[g].mpf = p[1]
      BY DEF IInv, PinsHaveOwners
    <3>3. g \in Handles \ {h}
      BY <3>1, <3>2 DEF IInv, TypeOK
    <3> QED
      BY <2>2, <3>2, <3>3
  <2>7. ConnectionsApart'
    BY <2>1, <2>2 DEF IInv, ConnectionsApart
  <2>8. \A g \in Handles \ {h} : handle_to_dev_map[g] # NULL /\ handle_to_dev_map[g].mpf # 0
                                   => handle_to_dev_map[g].mpf # d.mpf
    BY <1>1 DEF IInv, ConnectionsApart
  <2>9. OpenedWorks'
    <3> SUFFICES ASSUME ~spoiled, NEW g \in Handles, g \in Opened'
                 PROVE  Works(g)'
      BY <2>1 DEF OpenedWorks, Opened
    <3>1. g # h /\ g \in Opened /\ handle_to_dev_map'[g] = handle_to_dev_map[g]
      BY <2>2 DEF Opened
    <3>2. Works(g)
      BY <3>1 DEF IInv, OpenedWorks
    <3>3. handle_to_dev_map[g].mpf # 0
      BY <3>2 DEF Works, IInv, TypeOK, Mpfs
    <3>4. handle_to_dev_map[g].mpf \in connected'
      BY <2>1, <2>8, <3>1, <3>2, <3>3 DEF Works, Opened
    <3>5. \A c : Threads(g, c) \cap own = {}
      BY <2>2, <3>1 DEF Threads
    <3>6. Threads(g, handle_to_dev_map[g].mpf) \subseteq dma_threads'
      BY <2>1, <3>2, <3>5 DEF Works
    <3>7. Threads(g, handle_to_dev_map[g].mpf)' = Threads(g, handle_to_dev_map[g].mpf)
      BY <3>1 DEF Threads
    <3> QED
      BY <3>1, <3>2, <3>4, <3>6, <3>7 DEF Works
  <2>10. NothingDead' /\ NothingUndefined'
    BY <2>1, <2>2, <2>8 DEF IInv, NothingDead, Dead, Moved, NothingUndefined
  <2> QED
    BY <2>3, <2>4, <2>5, <2>6, <2>7, <2>9, <2>10 DEF IInv
<1> QED
  BY <1>2, <1>3

\* The devices that an allocation is pinned for are opened.
LEMMA AllocateStep ==
  ASSUME IInv, NEW m \in Mems, aocl_mmd_host_alloc(m)
  PROVE  IInv'
<1> USE BoundsAssumption, NullAssumption DEF maps, mpf, marks
<1>1. PICK hs \in SUBSET Opened : Allocate(hs, m)
  BY DEF aocl_mmd_host_alloc
<1>2. \A g \in hs : g \in Handles /\ handle_to_dev_map[g] # NULL /\ handle_to_dev_map[g].asp_initialized
  BY DEF Opened
<1>3. CASE ~Reachable(hs)
  <2>1. Crash
    BY <1>1, <1>3 DEF Allocate
  <2>2. spoiled
    BY <1>3 DEF Reachable, IInv, OpenedWorks, Works
  <2> QED
    BY <2>1, <2>2, CrashStep
<1>4. CASE Reachable(hs)
  <2>1. PICK some \in SUBSET hs :
          /\ m \notin mapped /\ hs # {}
          /\ mapped' = mapped \cup {m}
          /\ pinned' = pinned \cup Pins(some, m)
          /\ \/ some = hs /\ mem_to_handles_map' = [mem_to_handles_map EXCEPT ![m] = hs]
             \/ UNCHANGED mem_to_handles_map
          /\ UNCHANGED <<image, maps, mpf, dma_threads, marks>>
    BY <1>1, <1>4 DEF Allocate
  <2>2. mem_to_handles_map[m] = NULL
    BY <2>1 DEF IInv, TypeOK
  <2>3. /\ mem_to_handles_map' \in [Mems -> {NULL} \cup SUBSET Handles]
        /\ mem_to_handles_map'[m] \in {NULL, hs}
        /\ mem_to_handles_map'[m] = hs => some = hs
        /\ \A n \in Mems \ {m} : mem_to_handles_map'[n] = mem_to_handles_map[n]
        /\ hs \in SUBSET Handles
    BY <1>2, <2>1, <2>2 DEF IInv, TypeOK
  <2>4. \A p \in Pins(some, m) :
          /\ p[2] = m
          /\ p[1] \in connected
          /\ p \in Mpfs \X Mems
          /\ \E g \in some : handle_to_dev_map[g].mpf = p[1]
    BY <1>4 DEF Pins, Reachable, IInv, TypeOK
  <2>5. TypeOK'
    BY <2>1, <2>3, <2>4 DEF IInv, TypeOK
  <2>6. MapsAgree' /\ HandlesInOrder' /\ ConnectionsApart'
    BY <2>1 DEF IInv, MapsAgree, HandlesInOrder, ConnectionsApart
  <2>7. EntriesNameOpened'
    BY <1>2, <2>1, <2>2, <2>3 DEF IInv, EntriesNameOpened, HandlesInOrder
  <2>8. PinnedIsMapped'
    BY <2>1, <2>4 DEF IInv, PinnedIsMapped
  <2>9. PinsHaveOwners'
    <3> SUFFICES ASSUME NEW p \in pinned', mem_to_handles_map'[p[2]] \notin {NULL, Moved}
                 PROVE  \E g \in mem_to_handles_map'[p[2]] :
                          handle_to_dev_map[g] # NULL /\ handle_to_dev_map[g].mpf = p[1]
      BY <2>1 DEF PinsHaveOwners
    <3>1. CASE p \in Pins(some, m)
      BY <1>2, <2>3, <2>4, <3>1
    <3>2. CASE p \in pinned
      <4>1. p[2] \in Mems \ {m}
        BY <2>1, <3>2 DEF IInv, TypeOK, PinnedIsMapped
      <4> QED
        BY <2>3, <3>2, <4>1 DEF IInv, PinsHaveOwners
    <3> QED
      BY <2>1, <3>1, <3>2
  <2>10. OpenedWorks' /\ NothingUndefined'
    BY <2>1 DEF IInv, OpenedWorks, Opened, Works, Threads, NothingUndefined
  <2>11. NothingDead'
    BY <2>1, <2>3, <2>2 DEF IInv, NothingDead, Dead, Moved
  <2> QED
    BY <2>5, <2>6, <2>7, <2>8, <2>9, <2>10, <2>11 DEF IInv
<1> QED
  BY <1>3, <1>4

\* Every pin of the memory belongs to a device of its entry, so none is left.
LEMMA FreeStep ==
  ASSUME IInv, NEW m \in Mems, aocl_mmd_free(m)
  PROVE  IInv'
<1> DEFINE hs   == mem_to_handles_map[m]
           open == {h \in hs : handle_to_dev_map[h] # NULL}
<1> USE BoundsAssumption, NullAssumption DEF maps, mpf, marks
<1>1. hs # NULL /\ hs \in SUBSET Handles
  BY DEF aocl_mmd_free, IInv, TypeOK
<1>2. CASE hs = Moved \/ ~Reachable(open)
  <2>1. Crash
    BY <1>2 DEF aocl_mmd_free
  <2>2. CASE hs = Moved
    BY <2>1, <2>2, CrashStep DEF IInv, NothingDead
  <2>3. CASE ~Reachable(open)
    <3>1. PICK g \in open : handle_to_dev_map[g].mpf \notin connected
      BY <2>3 DEF Reachable
    <3>2. g \in Handles /\ handle_to_dev_map[g] # NULL /\ handle_to_dev_map[g].asp_initialized
      BY <1>1, <3>1 DEF IInv, EntriesNameOpened
    <3>3. spoiled
      BY <3>1, <3>2 DEF IInv, OpenedWorks, Opened, Works
    <3> QED
      BY <2>1, <3>3, CrashStep
  <2> QED
    BY <1>2, <2>2, <2>3
<1>3. CASE /\ open = hs
           /\ pinned' = Unpin(hs, m)
           /\ mapped' = mapped \ {m}
           /\ mem_to_handles_map' = Erased(m)
           /\ hs # Moved
           /\ UNCHANGED <<image, maps, mpf, dma_threads, marks>>
  <2>1. /\ mem_to_handles_map'[m] = NULL
        /\ \A n \in Mems \ {m} : mem_to_handles_map'[n] = mem_to_handles_map[n]
        /\ mem_to_handles_map' \in [Mems -> {NULL} \cup SUBSET Handles]
    BY <1>3 DEF Erased, IInv, TypeOK
  <2>2. pinned' \subseteq pinned
    BY <1>3 DEF Unpin
  <2>3. \A p \in pinned' : p[2] \in Mems \ {m}
    <3> SUFFICES ASSUME NEW p \in pinned, p[2] = m
                 PROVE  p \in Pins(hs, m)
      BY <1>3, <2>2 DEF Unpin, IInv, TypeOK
    <3>1. PICK g \in hs : handle_to_dev_map[g].mpf = p[1]
      BY <1>1, <1>3 DEF IInv, PinsHaveOwners
    <3>2. p = <<p[1], p[2]>>
      BY DEF IInv, TypeOK
    <3> QED
      BY <3>1, <3>2 DEF Pins
  <2>4. TypeOK'
    BY <1>3, <2>1, <2>2 DEF IInv, TypeOK
  <2>5. MapsAgree' /\ HandlesInOrder' /\ ConnectionsApart'
    BY <1>3 DEF IInv, MapsAgree, HandlesInOrder, ConnectionsApart
  <2>6. EntriesNameOpened'
    BY <1>3, <2>1 DEF IInv, EntriesNameOpened
  <2>7. PinnedIsMapped' /\ PinsHaveOwners'
    BY <1>3, <2>1, <2>2, <2>3 DEF IInv, PinnedIsMapped, PinsHaveOwners
  <2>8. OpenedWorks' /\ NothingUndefined'
    BY <1>3 DEF IInv, OpenedWorks, Opened, Works, Threads, NothingUndefined
  <2>9. NothingDead'
    BY <1>3, <2>1 DEF IInv, NothingDead, Dead, Moved
  <2> QED
    BY <2>4, <2>5, <2>6, <2>7, <2>8, <2>9 DEF IInv
<1>4. CASE /\ \E some \in SUBSET open : pinned' = Unpin(some, m)
           /\ mem_to_handles_map' = [mem_to_handles_map EXCEPT ![m] = Moved]
           /\ Spoils
           /\ UNCHANGED <<image, maps, mapped, mpf, dma_threads, undefined>>
  <2>1. /\ mem_to_handles_map'[m] = Moved
        /\ \A n \in Mems \ {m} : mem_to_handles_map'[n] = mem_to_handles_map[n]
        /\ mem_to_handles_map' \in [Mems -> {NULL} \cup SUBSET Handles]
    BY <1>4 DEF Moved, IInv, TypeOK
  <2>2. pinned' \subseteq pinned /\ spoiled'
    BY <1>4 DEF Unpin, Spoils
  <2>3. TypeOK'
    BY <1>1, <1>4, <2>1, <2>2 DEF IInv, TypeOK, Spoils
  <2>4. MapsAgree' /\ HandlesInOrder' /\ ConnectionsApart' /\ PinnedIsMapped'
    BY <1>4, <2>2 DEF IInv, MapsAgree, HandlesInOrder, ConnectionsApart, PinnedIsMapped
  <2>5. EntriesNameOpened'
    BY <1>4, <2>1 DEF IInv, EntriesNameOpened, Moved
  <2>6. PinsHaveOwners'
    <3>1. \A p \in pinned' : p[2] \in Mems
      BY <2>2 DEF IInv, TypeOK
    <3> QED
      BY <1>4, <2>1, <2>2, <3>1 DEF IInv, PinsHaveOwners
  <2> QED
    BY <2>2, <2>3, <2>4, <2>5, <2>6 DEF IInv, OpenedWorks, NothingDead, NothingUndefined
<1> QED
  BY <1>2, <1>3, <1>4 DEF aocl_mmd_free

-----------------------------------------------------------------------------
\* A package that cannot be used costs at most the pins of the memory.
LEMMA BadPackageStep ==
  ASSUME IInv, NEW h \in Handles, NEW img \in Images, NEW keep \in BOOLEAN,
         BadPackage(h, img, keep)
  PROVE  IInv'
<1> USE DEF BadPackage, maps, host, mpf, marks
<1>1. pinned' \subseteq pinned
  BY DEF unpin_all_mem_for_handle
<1>2. TypeOK'
  BY <1>1 DEF IInv, TypeOK
<1>3. MapsAgree' /\ HandlesInOrder' /\ EntriesNameOpened'
  BY DEF IInv, MapsAgree, HandlesInOrder, EntriesNameOpened
<1>4. PinnedIsMapped' /\ PinsHaveOwners' /\ ConnectionsApart'
  BY <1>1 DEF IInv, PinnedIsMapped, PinsHaveOwners, ConnectionsApart, Moved
<1>5. OpenedWorks' /\ NothingDead' /\ NothingUndefined'
  BY DEF IInv, OpenedWorks, Opened, Works, Threads, NothingDead, Dead, Moved, NothingUndefined
<1> QED
  BY <1>2, <1>3, <1>4, <1>5 DEF IInv

\* An exception half way leaves the connection of no other device touched.
LEMMA ProgramThrowsStep ==
  ASSUME IInv, NEW h \in Handles, NEW img \in Images, NEW keep \in BOOLEAN,
         handle_to_dev_map[h] # NULL, ProgramThrows(h, img, keep)
  PROVE  IInv'
<1> DEFINE d == handle_to_dev_map[h]
<1> USE BoundsAssumption, NullAssumption DEF host
<1>1. d \in Device
  BY DEF IInv, TypeOK
<1>2. /\ Quiet(d) \in Device
      /\ Quiet(d).board = d.board /\ Quiet(d).mpf = d.mpf
      /\ Quiet(d).asp_initialized = d.asp_initialized
  BY <1>1 DEF Quiet, Device
<1>3. /\ handle_to_dev_map' = [handle_to_dev_map EXCEPT ![h] = Quiet(d)]
      /\ connected' = connected \ {d.mpf}
      /\ pinned' = {p \in pinned : p[1] # d.mpf}
      /\ spoiled' = TRUE
      /\ undefined' \in BOOLEAN
      /\ UNCHANGED <<id_to_handle_map, next_mmd_handle, host, next_mpf, dma_threads>>
  BY DEF ProgramThrows, Disconnected, Spoils
<1>4. image' \in [Boards -> Images \cup {NULL}]
  <2>1. image \in [Boards -> Images \cup {NULL}]
    BY DEF IInv, TypeOK
  <2>2. Programmed(d.board, img) \/ NotProgrammed(d.board)
    BY DEF ProgramThrows
  <2> QED
    BY <2>1, <2>2 DEF Programmed, NotProgrammed
<1>5. \A g \in Handles :
        /\ handle_to_dev_map'[g] # NULL <=> handle_to_dev_map[g] # NULL
        /\ handle_to_dev_map[g] # NULL =>
             /\ handle_to_dev_map'[g].board = handle_to_dev_map[g].board
             /\ handle_to_dev_map'[g].mpf = handle_to_dev_map[g].mpf
             /\ handle_to_dev_map'[g].asp_initialized = handle_to_dev_map[g].asp_initialized
  BY <1>2, <1>3 DEF IInv, TypeOK
<1>6. TypeOK'
  <2>1. handle_to_dev_map' \in [Handles -> Device \cup {NULL}]
    BY <1>2, <1>3 DEF IInv, TypeOK
  <2> QED
    BY <1>3, <1>4, <2>1 DEF IInv, TypeOK
<1>7. MapsAgree'
  BY <1>3, <1>5 DEF IInv, MapsAgree
<1>8. HandlesInOrder' /\ PinnedIsMapped' /\ ConnectionsApart'
  BY <1>3, <1>5 DEF IInv, HandlesInOrder, PinnedIsMapped, ConnectionsApart
<1>9. EntriesNameOpened'
  BY <1>3, <1>5 DEF IInv, TypeOK, EntriesNameOpened
<1>10. PinsHaveOwners'
  <2>1. \A p \in pinned' : p \in pinned /\ p[2] \in Mems
    BY <1>3 DEF IInv, TypeOK
  <2> QED
    BY <1>3, <1>5, <2>1 DEF IInv, TypeOK, PinsHaveOwners
<1> QED
  BY <1>3, <1>6, <1>7, <1>8, <1>9, <1>10 DEF IInv, OpenedWorks, NothingDead, NothingUndefined

\* The device after program_bitstream(): everything it has is of the new connection.
LEMMA ReconnectedDevice ==
  ASSUME NEW d \in Device, next_mpf \in Mpfs
  PROVE  /\ Reconnected(d) \in Device
         /\ Reconnected(d).board = d.board
         /\ Reconnected(d).mpf = next_mpf
         /\ d.h2f # 0 => Reconnected(d).h2f = next_mpf
         /\ d.f2h # 0 => Reconnected(d).f2h = next_mpf
         /\ d.interrupts # "none" => Reconnected(d).interrupts = "on"
         /\ Reconnected(d).asp_initialized = d.asp_initialized
<1>1. next_mpf \in 0 .. MaxMpf
  BY BoundsAssumption DEF Mpfs
<1> QED
  BY <1>1 DEF Reconnected, Device

\* The pins that are left are of other devices, those made are of the entries.
LEMMA ProgramEndsStep ==
  ASSUME IInv, NEW h \in Handles, NEW img \in Images, NEW keep \in BOOLEAN,
         handle_to_dev_map[h] # NULL, ~undefined, ~Dead(h), ProgramEnds(h, img, keep)
  PROVE  IInv'
<1> DEFINE d == handle_to_dev_map[h]
           left == Disconnected(h, pinned)
           made == repin_all_mem_for_handle(h)
<1> USE BoundsAssumption, NullAssumption DEF host
<1>1. d \in Device /\ next_mpf \in Mpfs
  BY DEF ProgramEnds, IInv, TypeOK
<1>2. /\ Reconnected(d) \in Device
      /\ Reconnected(d).board = d.board
      /\ Reconnected(d).mpf = next_mpf
      /\ d.h2f # 0 => Reconnected(d).h2f = next_mpf
      /\ d.f2h # 0 => Reconnected(d).f2h = next_mpf
      /\ d.interrupts # "none" => Reconnected(d).interrupts = "on"
      /\ Reconnected(d).asp_initialized = d.asp_initialized
  BY <1>1, ReconnectedDevice
<1>3. /\ handle_to_dev_map' = [handle_to_dev_map EXCEPT ![h] = Reconnected(d)]
      /\ connected' = (connected \ {d.mpf}) \cup {next_mpf}
      /\ dma_threads' = dma_threads \cup (IF d.h2f = 0 THEN {} ELSE Threads(h, next_mpf))
      /\ next_mpf' = next_mpf + 1
      /\ UNCHANGED <<id_to_handle_map, next_mmd_handle, host, undefined>>
  BY DEF ProgramEnds
<1>4. \E some \in SUBSET made : pinned' = left \cup some
  <2> DEFINE all == IF keep THEN made ELSE {}
  <2>1. \/ pinned' = left \cup all
        \/ \E some \in (SUBSET all) \ {all} : pinned' = left \cup some
        \/ pinned' = left
    BY DEF ProgramEnds
  <2> HIDE DEF made, left
  <2>2. all \in SUBSET made /\ {} \in SUBSET made /\ left = left \cup {}
    OBVIOUS
  <2> QED
    BY <2>1, <2>2
<1>5. spoiled' \in {spoiled, TRUE}
  BY DEF ProgramEnds, Spoils
<1>6. image' \in [Boards -> Images \cup {NULL}]
  <2>1. image \in [Boards -> Images \cup {NULL}]
    BY DEF IInv, TypeOK
  <2>2. Programmed(d.board, img) \/ NotProgrammed(d.board)
    BY DEF ProgramEnds
  <2> QED
    BY <2>1, <2>2 DEF Programmed, NotProgrammed
<1>7. /\ handle_to_dev_map' \in [Handles -> Device \cup {NULL}]
      /\ handle_to_dev_map'[h] = Reconnected(d)
      /\ handle_to_dev_map'[h] # NULL
      /\ \A g \in Handles \ {h} : handle_to_dev_map'[g] = handle_to_dev_map[g]
  BY <1>2, <1>3 DEF IInv, TypeOK
<1>8. /\ \A p \in left : p \in pinned /\ p[1] # d.mpf
      /\ \A p \in made : /\ p \in Mpfs \X Mems
                         /\ p[1] = next_mpf
                         /\ mem_to_handles_map[p[2]] # NULL
                         /\ h \in mem_to_handles_map[p[2]]
  BY <1>1 DEF Disconnected, repin_all_mem_for_handle, Memory
<1>9. \A p \in pinned' : p \in left \/ p \in made
  BY <1>4
<1> HIDE DEF left, made
<1>10. TypeOK'
  <2>1. pinned' \in SUBSET (Mpfs \X Mems)
    BY <1>8, <1>9 DEF IInv, TypeOK
  <2>2. Threads(h, next_mpf) \subseteq [dev : Handles, mode : {"h2f", "f2h"}, mpf : Mpfs]
    BY <1>1 DEF Threads
  <2>3. dma_threads' \in SUBSET [dev : Handles, mode : {"h2f", "f2h"}, mpf : Mpfs]
    BY <1>3, <2>2 DEF IInv, TypeOK
  <2>4. next_mpf' \in 1 .. MaxMpf + 1 /\ connected' \in SUBSET Mpfs /\ \A c \in connected' : c < next_mpf'
    BY <1>1, <1>3 DEF IInv, TypeOK, Mpfs
  <2> QED
    BY <1>3, <1>5, <1>6, <1>7, <2>1, <2>3, <2>4 DEF IInv, TypeOK
<1>11. MapsAgree'
  BY <1>2, <1>3, <1>7 DEF IInv, MapsAgree
<1>12. HandlesInOrder'
  BY <1>3, <1>7 DEF IInv, HandlesInOrder
<1>13. EntriesNameOpened'
  BY <1>2, <1>3, <1>7 DEF IInv, TypeOK, EntriesNameOpened
<1>14. PinnedIsMapped'
  BY <1>3, <1>8, <1>9 DEF IInv, TypeOK, PinnedIsMapped
<1>15. PinsHaveOwners'
  <2> SUFFICES ASSUME NEW p \in pinned', mem_to_handles_map[p[2]] \notin {NULL, Moved}
               PROVE  \E g \in mem_to_handles_map[p[2]] :
                        handle_to_dev_map'[g] # NULL /\ handle_to_dev_map'[g].mpf = p[1]
    BY <1>3 DEF PinsHaveOwners
  <2>1. CASE p \in made
    BY <1>2, <1>7, <1>8, <2>1
  <2>2. CASE p \in left
    <3>1. p \in pinned /\ p[1] # d.mpf /\ p[2] \in Mems
      BY <1>8, <2>2 DEF IInv, TypeOK
    <3>2. PICK g \in mem_to_handles_map[p[2]] : handle_to_dev_map[g] # NULL /\ handle_to_dev_map[g].mpf = p[1]
      BY <3>1 DEF IInv, PinsHaveOwners
    <3>3. g \in Handles \ {h}
      BY <3>1, <3>2 DEF IInv, TypeOK
    <3> QED
      BY <1>7, <3>2, <3>3
  <2> QED
    BY <1>9, <2>1, <2>2
<1>16. ConnectionsApart'
  <2>1. \A g \in Handles \ {h} : handle_to_dev_map[g] # NULL => handle_to_dev_map[g].mpf < next_mpf
    BY DEF IInv, ConnectionsApart
  <2>2. \A g \in Handles : handle_to_dev_map'[g] # NULL => handle_to_dev_map'[g].mpf < next_mpf'
    BY <1>1, <1>2, <1>3, <1>7, <2>1 DEF IInv, TypeOK, Device, Mpfs
  <2>3. \A g \in Handles \ {h} : handle_to_dev_map[g] # NULL => handle_to_dev_map[g].mpf # next_mpf
    BY <1>1, <2>1 DEF Mpfs
  <2>4. ASSUME NEW g \in Handles, NEW k \in Handles,
               handle_to_dev_map'[g] # NULL, handle_to_dev_map'[k] # NULL,
               handle_to_dev_map'[g].mpf # 0, handle_to_dev_map'[g].mpf = handle_to_dev_map'[k].mpf
        PROVE  g = k
    <3>1. CASE g = h \/ k = h
      BY <1>2, <1>7, <2>3, <2>4, <3>1
    <3>2. CASE g # h /\ k # h
      BY <1>7, <2>4, <3>2 DEF IInv, ConnectionsApart
    <3> QED
      BY <3>1, <3>2
  <2> QED
    BY <2>2, <2>4 DEF ConnectionsApart
<1>17. \A g \in Handles \ {h} :
         /\ handle_to_dev_map[g] # NULL
         /\ handle_to_dev_map[g].mpf # 0
         /\ handle_to_dev_map[g].mpf \in connected
         => handle_to_dev_map[g].mpf \in connected'
  BY <1>3 DEF IInv, ConnectionsApart
<1>18. OpenedWorks'
  <2> SUFFICES ASSUME ~spoiled, NEW g \in Handles, g \in Opened'
               PROVE  Works(g)'
    BY <1>5 DEF OpenedWorks, Opened
  <2>1. CASE g = h
    <3>1. Works(h)
      BY <1>2, <1>7, <2>1 DEF IInv, OpenedWorks, Opened
    <3>2. d.h2f # 0 /\ d.f2h # 0 /\ d.interrupts # "none"
      BY <3>1 DEF Works, IInv, TypeOK, Mpfs
    <3>3. Threads(h, next_mpf) \subseteq dma_threads'
      BY <1>3, <3>2
    <3> QED
      BY <1>2, <1>3, <1>7, <2>1, <3>2, <3>3 DEF Works, Threads
  <2>2. CASE g # h
    <3>1. Works(g)
      BY <1>7, <2>2 DEF IInv, OpenedWorks, Opened
    <3>2. handle_to_dev_map[g].mpf # 0 /\ handle_to_dev_map[g].mpf \in connected'
      BY <1>7, <1>17, <2>2, <3>1 DEF Works, Opened, IInv, TypeOK, Mpfs
    <3>3. Threads(g, handle_to_dev_map[g].mpf) \subseteq dma_threads'
      BY <1>3, <3>1 DEF Works
    <3> QED
      BY <1>7, <2>2, <3>1, <3>2, <3>3 DEF Works, Threads
  <2> QED
    BY <2>1, <2>2
<1>19. NothingDead' /\ NothingUndefined'
  <2>1. ~spoiled' => ~spoiled
    BY <1>5 DEF IInv, TypeOK
  <2>2. \A g \in Handles : ~spoiled /\ handle_to_dev_map'[g] # NULL => ~Dead(g)'
    BY <1>2, <1>3, <1>7, <1>17 DEF IInv, NothingDead, Dead
  <2> QED
    BY <1>3, <2>1, <2>2 DEF IInv, NothingDead, Moved, NothingUndefined
<1> QED
  BY <1>10, <1>11, <1>12, <1>13, <1>14, <1>15, <1>16, <1>18, <1>19 DEF IInv

\* program_aocx() on an open device whose memory may have been unpinned.
LEMMA ProgramStep ==
  ASSUME IInv, NEW h \in Handles, NEW img \in Images, NEW keep \in BOOLEAN,
         handle_to_dev_map[h] # NULL, ~undefined, program_aocx(h, img, keep)
  PROVE  IInv'
<1>1. CASE BadPackage(h, img, keep)
  BY <1>1, BadPackageStep
<1>2. CASE ProgramThrows(h, img, keep)
  BY <1>2, ProgramThrowsStep
<1>3. CASE ~Dead(h) /\ ProgramEnds(h, img, keep)
  BY <1>3, ProgramEndsStep
<1>4. CASE Dead(h) /\ Crash
  <2>1. spoiled
    BY <1>4 DEF IInv, NothingDead
  <2> QED
    BY <1>4, <2>1, CrashStep
<1> QED
  BY <1>1, <1>2, <1>3, <1>4 DEF program_aocx

LEMMA ApiProgramStep ==
  ASSUME IInv, NEW h \in Handles, NEW img \in Images, aocl_mmd_program(h, img)
  PROVE  IInv'
<1>1. CASE WalkIsUndefined(h)
  <2>1. Crash
    BY <1>1 DEF aocl_mmd_program
  <2>2. spoiled
    BY <1>1 DEF aocl_mmd_program, WalkIsUndefined, Opened, IInv, NothingDead
  <2> QED
    BY <2>1, <2>2, CrashStep
<1>2. CASE ~WalkIsUndefined(h)
  BY <1>2, ProgramStep DEF aocl_mmd_program, Opened
<1> QED
  BY <1>1, <1>2

LEMMA ReprogramStep ==
  ASSUME IInv, NEW h \in Handles, NEW img \in Images, mmd_device_reprogram(h, img)
  PROVE  IInv'
BY ProgramStep DEF mmd_device_reprogram

-----------------------------------------------------------------------------
(***************************************************************************)
(* The strengthened invariant holds in every reachable state, for any      *)
(* boards, images, addresses and bounds.                                   *)
(***************************************************************************)
THEOREM DeviceInvariance == Spec => []IInv
<1>1. ASSUME IInv, [Next]_vars
      PROVE  IInv'
  <2>1. CASE Next
    BY <1>1, <2>1, ConstructorThrowsStep, CreateStep, InitializeFailsStep, InitializeStep, CloseStep,
       AllocateStep, FreeStep, ApiProgramStep, ReprogramStep DEF Next
  <2>2. CASE UNCHANGED vars
    BY <1>1, <2>2, StutterStep
  <2> QED
    BY <1>1, <2>1, <2>2
<1> QED
  BY InitInv, <1>1, PTL DEF Spec

(***************************************************************************)
(* The variables of mmd.cpp and of its devices keep their types.           *)
(***************************************************************************)
THEOREM TypeCorrect == Spec => []TypeOK
<1>1. IInv => TypeOK
  BY DEF IInv
<1> QED
  BY DeviceInvariance, <1>1, PTL

(***************************************************************************)
(* DeviceMapManager finds a board under its own handle or not at all.      *)
(***************************************************************************)
THEOREM MapsAlwaysAgree == Spec => []MapsAgree
<1>1. IInv => MapsAgree
  BY DEF IInv
<1> QED
  BY DeviceInvariance, <1>1, PTL

(***************************************************************************)
(* No page that MPF translates for an open connection has been unmapped by *)
(* aocl_mmd_free(), whatever was programmed, closed or failed before it.   *)
(***************************************************************************)
THEOREM PinnedAlwaysMapped == Spec => []PinnedIsMapped
<1>1. IInv => PinnedIsMapped
  BY DEF IInv
<1> QED
  BY DeviceInvariance, <1>1, PTL

(***************************************************************************)
(* Programming leaves an opened device with a live connection and mmd_dma  *)
(* objects of this connection, unless an exception cut it short.           *)
(***************************************************************************)
THEOREM OpenedAlwaysWorks == Spec => []OpenedWorks
<1>1. IInv => OpenedWorks
  BY DEF IInv
<1> QED
  BY DeviceInvariance, <1>1, PTL

(***************************************************************************)
(* Without such an exception and without a free after a close, the driver  *)
(* follows no dead connection and no moved vector.                         *)
(***************************************************************************)
THEOREM NeverUndefined == Spec => []NothingUndefined
<1>1. IInv => NothingUndefined
  BY DEF IInv
<1> QED
  BY DeviceInvariance, <1>1, PTL

-----------------------------------------------------------------------------
\* An opened device has all its objects, whatever else has gone wrong.
Made(d) == d.asp_initialized => d.h2f # 0 /\ d.f2h # 0 /\ d.interrupts # "none"

OpenedIsMade == \A h \in Handles : Open(h) => Made(dev[h])

\* A call changes the device of one handle, and leaves what it has made.
LEMMA OneDevice ==
  ASSUME TypeOK, OpenedIsMade, NEW h \in Handles, NEW d \in Device,
         handle_to_dev_map' = [handle_to_dev_map EXCEPT ![h] = d], Made(d)
  PROVE  OpenedIsMade'
  BY NullAssumption DEF TypeOK, OpenedIsMade, Open, dev

LEMMA ProgramMade ==
  ASSUME TypeOK, OpenedIsMade, NEW h \in Handles, NEW img \in Images, NEW keep \in BOOLEAN,
         handle_to_dev_map[h] # NULL, program_aocx(h, img, keep)
  PROVE  OpenedIsMade'
<1> DEFINE d == handle_to_dev_map[h]
<1>1. d \in Device /\ Made(d)
  BY DEF TypeOK, OpenedIsMade, Open, dev
<1>2. CASE handle_to_dev_map' = handle_to_dev_map
  BY <1>2 DEF OpenedIsMade, Open, dev
<1>3. CASE ProgramThrows(h, img, keep)
  <2>1. Quiet(d) \in Device /\ Made(Quiet(d))
    BY <1>1 DEF Quiet, Device, Made
  <2> QED
    BY <1>3, <2>1, OneDevice DEF ProgramThrows, dev
<1>4. CASE ProgramEnds(h, img, keep)
  <2>1. next_mpf \in Mpfs /\ next_mpf # 0
    BY <1>4, BoundsAssumption DEF ProgramEnds, Mpfs
  <2>2. Reconnected(d) \in Device
    BY <1>1, <2>1, ReconnectedDevice
  <2>3. Made(Reconnected(d))
    BY <1>1, <2>1, ReconnectedDevice DEF Made
  <2> QED
    BY <1>4, <2>2, <2>3, OneDevice DEF ProgramEnds, dev
<1> QED
  BY <1>2, <1>3, <1>4 DEF program_aocx, BadPackage, Crash, maps

LEMMA OpenedStep ==
  ASSUME TypeOK, OpenedIsMade, [Next]_vars
  PROVE  OpenedIsMade'
<1>1. CASE handle_to_dev_map' = handle_to_dev_map
  BY <1>1 DEF OpenedIsMade, Open, dev
<1>2. ASSUME NEW b \in Boards, get_or_create_device(b) PROVE OpenedIsMade'
  <2>1. NewDevice(b) \in Device /\ Made(NewDevice(b))
    BY BoundsAssumption DEF NewDevice, Device, Made
  <2> QED
    BY <1>2, <2>1, OneDevice DEF get_or_create_device, dev
<1>3. ASSUME NEW h \in Handles, InitializeFailsEarly(h) PROVE OpenedIsMade'
  <2> DEFINE d == [handle_to_dev_map[h] EXCEPT !.mmio_is_mapped = TRUE]
  <2>1. handle_to_dev_map[h] \in Device /\ ~handle_to_dev_map[h].asp_initialized
    BY <1>3 DEF InitializeFailsEarly, MayInitialize, Open, dev, TypeOK
  <2>2. d \in Device /\ Made(d)
    BY <2>1 DEF Device, Made
  <2>3. \/ handle_to_dev_map' = handle_to_dev_map
        \/ handle_to_dev_map' = [handle_to_dev_map EXCEPT ![h] = d]
    BY <1>3 DEF InitializeFailsEarly, dev
  <2> QED
    BY <1>1, <2>2, <2>3, OneDevice
<1>4. ASSUME NEW h \in Handles, initialize_asp(h) PROVE OpenedIsMade'
  <2> DEFINE made == [handle_to_dev_map[h] EXCEPT !.mmio_is_mapped = TRUE, !.mpf = next_mpf,
                                                 !.h2f = next_mpf, !.f2h = next_mpf]
             whole == [made EXCEPT !.interrupts = "on", !.asp_initialized = TRUE]
  <2>1. handle_to_dev_map[h] \in Device /\ ~handle_to_dev_map[h].asp_initialized
    BY <1>4 DEF initialize_asp, MayInitialize, Open, dev, TypeOK
  <2>2. next_mpf \in 0 .. MaxMpf /\ next_mpf # 0
    BY <1>4, BoundsAssumption DEF initialize_asp, Mpfs
  <2>3. made \in Device /\ whole \in Device /\ Made(made) /\ Made(whole)
    BY <2>1, <2>2 DEF Device, Made
  <2>4. \/ handle_to_dev_map' = [handle_to_dev_map EXCEPT ![h] = made]
        \/ handle_to_dev_map' = [handle_to_dev_map EXCEPT ![h] = whole]
    BY <1>4 DEF initialize_asp, dev
  <2> QED
    BY <2>3, <2>4, OneDevice
<1>5. ASSUME NEW h \in Handles, aocl_mmd_close(h) PROVE OpenedIsMade'
  <2>1. \/ handle_to_dev_map' = handle_to_dev_map
        \/ handle_to_dev_map' = [handle_to_dev_map EXCEPT ![h] = NULL]
    BY <1>5 DEF aocl_mmd_close, Crash, maps, dev
  <2> QED
    BY <1>1, <2>1 DEF OpenedIsMade, Open, dev, TypeOK
<1>6. ASSUME NEW h \in Handles, NEW img \in Images, aocl_mmd_program(h, img) PROVE OpenedIsMade'
  <2>1. CASE program_aocx(h, img, TRUE)
    BY <1>6, <2>1, ProgramMade DEF aocl_mmd_program, Opened, Open, dev
  <2>2. CASE Crash
    BY <1>1, <2>2 DEF Crash, maps
  <2> QED
    BY <1>6, <2>1, <2>2 DEF aocl_mmd_program
<1>7. ASSUME NEW h \in Handles, NEW img \in Images, mmd_device_reprogram(h, img)
      PROVE  OpenedIsMade'
  BY <1>7, ProgramMade DEF mmd_device_reprogram, Open, dev
<1>8. ASSUME NEW m \in Mems, aocl_mmd_host_alloc(m) \/ aocl_mmd_free(m) PROVE OpenedIsMade'
  <2>1. handle_to_dev_map' = handle_to_dev_map
    BY <1>8 DEF aocl_mmd_host_alloc, Allocate, aocl_mmd_free, Crash, maps
  <2> QED
    BY <1>1, <2>1
<1>9. ASSUME NEW b \in Boards, ConstructorThrows(b) PROVE OpenedIsMade'
  BY <1>1, <1>9 DEF ConstructorThrows
<1>10. CASE UNCHANGED vars
  BY <1>1, <1>10 DEF vars, maps
<1> QED
  BY <1>2, <1>3, <1>4, <1>5, <1>6, <1>7, <1>8, <1>9, <1>10 DEF Next

(***************************************************************************)
(* A program_bitstream() that ran to its end leaves a working device, even *)
(* after calls that spoiled something, and pins what a re-pinning that did *)
(* not fail has to pin.                                                    *)
(***************************************************************************)
LEMMA EndsWorking ==
  ASSUME IInv, OpenedIsMade, NEW h \in Handles, NEW img \in Images, NEW keep \in BOOLEAN,
         handle_to_dev_map[h] # NULL, ProgramEnds(h, img, keep)
  PROVE  h \in Opened' => Works(h)'
<1> DEFINE d == handle_to_dev_map[h]
           d2 == Reconnected(d)
<1>1. d \in Device /\ Made(d) /\ next_mpf \in Mpfs
  BY DEF IInv, TypeOK, OpenedIsMade, Open, dev, ProgramEnds
<1>2. /\ d2.mpf = next_mpf
      /\ d.h2f # 0 => d2.h2f = next_mpf
      /\ d.f2h # 0 => d2.f2h = next_mpf
      /\ d.interrupts # "none" => d2.interrupts = "on"
      /\ d2.asp_initialized = d.asp_initialized
  BY <1>1, ReconnectedDevice
<1>3. handle_to_dev_map'[h] = d2
  BY DEF ProgramEnds, IInv, TypeOK, dev
<1>4. /\ next_mpf \in connected'
      /\ d.h2f # 0 => Threads(h, next_mpf) \subseteq dma_threads'
  BY DEF ProgramEnds, dev
<1> HIDE DEF d2
<1>5. ASSUME d.asp_initialized
      PROVE  Works(h)'
  <2>1. d.h2f # 0 /\ d.f2h # 0 /\ d.interrupts # "none"
    BY <1>1, <1>5 DEF Made
  <2> QED
    BY <1>2, <1>3, <1>4, <2>1 DEF Works, Threads, dev
<1> QED
  BY <1>2, <1>3, <1>5 DEF Opened, Open, dev

LEMMA ProgramReturn ==
  ASSUME IInv, OpenedIsMade, NEW h \in Handles, NEW img \in Images, NEW keep \in BOOLEAN,
         handle_to_dev_map[h] # NULL, program_aocx(h, img, keep)
  PROVE  ProgramDelivers'
<1> DEFINE d == handle_to_dev_map[h]
           r(ok, path) == [handle |-> h, board |-> d.board, image |-> img, keep |-> keep,
                           ok |-> ok, path |-> path]
           all == IF keep THEN repin_all_mem_for_handle(h) ELSE {}
<1>1. d \in Device
  BY DEF IInv, TypeOK
<1>2. ASSUME ProgramEnds(h, img, keep), Programmed(d.board, img),
             NEW path \in {"pinned", "unpinned"}, returned' = r(TRUE, path),
             path = "pinned" => pinned' = Disconnected(h, pinned) \cup all
      PROVE  ProgramDelivers'
  <2>1. /\ returned'.handle = h /\ returned'.board = d.board /\ returned'.image = img
        /\ returned'.keep = keep /\ returned'.path = path
    BY <1>2
  <2>2. image'[d.board] = img
    BY <1>1, <1>2 DEF Programmed, IInv, TypeOK, Device
  <2>3. h \in Opened' => Works(h)'
    BY <1>2, EndsWorking
  <2>4. (returned.handle \in Opened => Works(returned.handle))'
    <3>1. Works(returned.handle)' <=> Works(h)'
      BY <2>1 DEF Works, Threads
    <3> QED
      BY <2>1, <2>3, <3>1
  <2>5. handle_to_dev_map'[h].mpf = next_mpf /\ Memory(h)' = Memory(h)
    BY <1>1, <1>2, ReconnectedDevice DEF ProgramEnds, Memory, host, IInv, TypeOK
  <2>6. path = "pinned" /\ keep => PinnedAgain(returned)'
    <3>1. Memory(returned.handle)' = Memory(h)'
      BY <2>1 DEF Memory
    <3>2. path = "pinned" /\ keep => \A m \in Memory(h) : <<next_mpf, m>> \in pinned'
      BY <1>2 DEF repin_all_mem_for_handle
    <3> QED
      BY <2>1, <2>5, <3>1, <3>2 DEF PinnedAgain
  <2> QED
    BY <2>1, <2>2, <2>4, <2>6 DEF ProgramDelivers, NewImage
<1>3. CASE returned' = NULL
  BY <1>3 DEF ProgramDelivers
<1>4. CASE returned'.ok = FALSE
  BY <1>4 DEF ProgramDelivers
<1>5. CASE BadPackage(h, img, keep)
  BY <1>4, <1>5 DEF BadPackage, Returns
<1>6. CASE ProgramThrows(h, img, keep)
  <2>1. returned'.path = "thrown"
    BY <1>6 DEF ProgramThrows, Returns
  <2> QED
    BY <2>1 DEF ProgramDelivers
<1>7. CASE ProgramEnds(h, img, keep)
  <2>1. \/ /\ Programmed(d.board, img)
           /\ \/ /\ returned' = r(TRUE, "pinned")
                 /\ pinned' = Disconnected(h, pinned) \cup all
              \/ returned' = r(TRUE, "unpinned")
        \/ Returns(h, img, keep, FALSE, "failed")
    BY <1>7 DEF ProgramEnds, Returns
  <2>2. Returns(h, img, keep, FALSE, "failed") => returned'.ok = FALSE
    BY DEF Returns
  <2>3. "pinned" # "unpinned"
    OBVIOUS
  <2> QED
    BY <1>2, <1>4, <1>7, <2>1, <2>2, <2>3
<1> QED
  BY <1>3, <1>5, <1>6, <1>7 DEF program_aocx

(***************************************************************************)
(* What the result of a program call is worth, with any failure on the way *)
(* and whatever earlier calls have spoiled: unless an exception ended this *)
(* very call, success means the new image and a working device, and memory *)
(* that is left unpinned is that of a re-pinning that failed.              *)
(***************************************************************************)
THEOREM ProgramAlwaysDelivers == Spec => []ProgramDelivers
<1>1. Init => ProgramDelivers /\ OpenedIsMade
  BY DEF Init, ProgramDelivers, OpenedIsMade, Open, dev
<1>2. ASSUME IInv, OpenedIsMade, ProgramDelivers, [Next]_vars
      PROVE  ProgramDelivers'
  <2>1. CASE UNCHANGED vars
    BY <1>2, <2>1 DEF vars, maps, host, mpf, marks, ProgramDelivers, NewImage, PinnedAgain, Opened, Works,
                      Threads, Memory
  <2>2. ASSUME NEW h \in Handles, NEW img \in Images, aocl_mmd_program(h, img)
        PROVE  ProgramDelivers'
    <3>1. CASE returned' = NULL
      BY <3>1 DEF ProgramDelivers
    <3>2. CASE program_aocx(h, img, TRUE)
      BY <1>2, <2>2, <3>2, ProgramReturn DEF aocl_mmd_program, Opened
    <3> QED
      BY <2>2, <3>1, <3>2 DEF aocl_mmd_program
  <2>3. ASSUME NEW h \in Handles, NEW img \in Images, mmd_device_reprogram(h, img)
        PROVE  ProgramDelivers'
    BY <1>2, <2>3, ProgramReturn DEF mmd_device_reprogram
  <2>4. CASE returned' = NULL
    BY <2>4 DEF ProgramDelivers
  <2> QED
    BY <1>2, <2>1, <2>2, <2>3, <2>4 DEF Next, ConstructorThrows, get_or_create_device, InitializeFailsEarly,
       initialize_asp, aocl_mmd_close, aocl_mmd_host_alloc, Allocate, aocl_mmd_free
<1>3. IInv /\ OpenedIsMade /\ [Next]_vars => OpenedIsMade'
  BY OpenedStep DEF IInv
<1> QED
  BY DeviceInvariance, <1>1, <1>2, <1>3, PTL DEF Spec
=============================================================================
