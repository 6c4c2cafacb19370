------------------------------ MODULE MCMmdDevice ------------------------------
EXTENDS MmdDevice, TLC

\* Boards, images and addresses are interchangeable.
Symmetry == Permutations(Boards) \cup Permutations(Images) \cup Permutations(Mems)
=============================================================================
