---------------------------- MODULE MCHostMemMux ----------------------------
(***************************************************************************)
(* Instances of HostMemMux for TLC: two interrupt lines, single beats      *)
(* (the magic number) and bursts up to HOST_MEM_WR_BURSTCOUNT_MAX.         *)
(***************************************************************************)
EXTENDS HostMemMux
=============================================================================
