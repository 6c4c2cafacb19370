---------------------------- MODULE MCDmaTransfer ----------------------------
(***************************************************************************)
(* Instances of DmaTransfer for TLC, with words of two bytes.              *)
(***************************************************************************)
EXTENDS DmaTransfer

C(s, d, n) == [src |-> s, dst |-> d, len |-> n]

\* A byte inside a word, a word across two, and transfers of several words
\* with each combination of offsets, of which the first and the last word of
\* either side are whole or partial; and two that are longer than the buffer.
SomeCommands ==
  {C(1, 4, 1), C(0, 5, 2), C(1, 5, 4), C(0, 4, 5), C(1, 4, 6), C(0, 9, 9),
   C(1, 48, 40), C(0, 49, 39)}

=============================================================================
