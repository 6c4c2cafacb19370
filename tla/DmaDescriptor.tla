---------------------------- MODULE DmaDescriptor ----------------------------
(***************************************************************************)
(* What the DMA controller promises the driver, and what MmdDma assumes of *)
(* it: it takes a descriptor at a time, moves each of its bytes to its     *)
(* place and no other byte, and then says that it is done.  In which order *)
(* the bytes move is not promised.  Nothing is promised from the moment on *)
(* at which the host gives up waiting and hands over another descriptor    *)
(* while the controller may still work on the first.                       *)
(***************************************************************************)
EXTENDS Naturals

CONSTANTS
  Commands,   \* the descriptors, records of src, dst and len
  NULL

VARIABLES
  descriptor, \* the one that is executed, or NULL
  moved,      \* pairs <<s, d>>: the byte at s has been written at d
  given_up    \* whether the host has given up a wait

vars == <<descriptor, moved, given_up>>

Bytes(c) == {<<c.src + k, c.dst + k>> : k \in 0 .. c.len - 1}

Init ==
  /\ descriptor = NULL
  /\ moved = {}
  /\ ~given_up

Accept(c) ==
  /\ descriptor = NULL
  /\ descriptor' = c
  /\ moved' = {}

Move ==
  /\ descriptor # NULL
  /\ moved \subseteq moved'
  /\ moved' \subseteq Bytes(descriptor)
  /\ UNCHANGED descriptor

Complete ==
  /\ descriptor # NULL
  /\ moved = Bytes(descriptor)
  /\ descriptor' = NULL
  /\ UNCHANGED moved

Execute ==
  /\ ~given_up /\ ~given_up'
  /\ \/ \E c \in Commands : Accept(c)
     \/ Move
     \/ Complete

\* The step that gives up, and every one after it.
Abandoned == given_up'

Next == Execute \/ Abandoned

Spec == Init /\ [][Next]_vars

=============================================================================
