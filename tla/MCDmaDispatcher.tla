--------------------------- MODULE MCDmaDispatcher ---------------------------
(***************************************************************************)
(* An instance of DmaDispatcher for TLC: a command for channel 0 alone, an *)
(* even one and an odd one.  They share their addresses, which differ from *)
(* what the registers are reset to: the parts of a split, and what is left *)
(* of the command before, still start at different places.                 *)
(***************************************************************************)
EXTENDS DmaDispatcher

SomeCommands == {[src |-> 2, dst |-> 5, len |-> n] : n \in {1, 2, 7}}

=============================================================================
