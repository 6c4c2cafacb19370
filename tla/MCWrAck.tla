------------------------------- MODULE MCWrAck -------------------------------
(***************************************************************************)
(* Instance of WrAck for TLC.                                              *)
(***************************************************************************)
EXTENDS WrAck

\* Three bursts of the kernel, of at most three words.
Words == 1 .. 9

(***************************************************************************)
(* A kernel that waits for the acknowledgement of what it has written gets *)
(* it: no event, answer or word is lost between the FIFOs, the address     *)
(* match and the counter.                                                  *)
(***************************************************************************)
EveryWordAcked == \A n \in Words : sent = n ~> acked >= n
=============================================================================
