------------------------------ MODULE MCMmdDma ------------------------------
(***************************************************************************)
(* Instances of MmdDma for TLC.                                            *)
(***************************************************************************)
EXTENDS MmdDma, TLC

CONSTANTS a1, a2, b1

\* Hardware build, for the call that times out.  a1 needs a full chunk and a
\* remainder, a2 is exactly one chunk, b1 is less than one.
HardwareSize == (a1 :> 3) @@ (a2 :> 2) @@ (b1 :> 1)

\* One call, for the destructor.
OneSize == a1 :> 1

\* SIM build with Threshold = 2.  a1 fits the buffer exactly where the buffer is
\* used, and is exactly one chunk; a2 has nothing to move; b1 is pinned and sent
\* as a full chunk and a remainder.
SimSize == (a1 :> 2) @@ (a2 :> 0) @@ (b1 :> 3)
=============================================================================
