------------------------------- MODULE MCMmdApi -------------------------------
(***************************************************************************)
(* Instances of MmdApi for TLC.                                            *)
(***************************************************************************)
EXTENDS MmdApi, TLC

CONSTANTS c1, c2, h1, h2

R(fn, op, iface, src, dst, len) ==
  [fn |-> fn, op |-> op, iface |-> iface, src |-> src, dst |-> dst,
   len |-> len, open |-> TRUE]

\* With a buffer of 2: copies of two whole chunks, of one and a remainder, and
\* of nothing.  Register calls of 8 + 4 + 3, 8, 5 and 0 bytes.
SomeRequests ==
  {R("write", op, "memory", 0, 4, 3) : op \in BOOLEAN}
  \cup {R("read", op, "memory", 4, 0, 3) : op \in BOOLEAN}
  \cup {R("copy", op, "memory", 1, 8, n) : op \in BOOLEAN, n \in {0, 3, 4}}
  \cup {R("write", op, "mmio", 0, 8, n) : op \in BOOLEAN, n \in {5, 15}}
  \cup {R("read", op, "mmio", 8, 0, n) : op \in BOOLEAN, n \in {0, 8, 15}}
  \cup {R("copy", op, "mmio", 0, 8, 2) : op \in BOOLEAN}
  \cup {[R("read", TRUE, "memory", 0, 0, 1) EXCEPT !.open = FALSE]}

=============================================================================
