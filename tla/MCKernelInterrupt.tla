--------------------------- MODULE MCKernelInterrupt ---------------------------
(***************************************************************************)
(* Two kernels, so that one can end while the other keeps the line high,   *)
(* and two handlers, so that one can replace the other.                    *)
(***************************************************************************)
EXTENDS KernelInterrupt

CONSTANTS k1, k2, h1, h2
=============================================================================
