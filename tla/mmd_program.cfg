SPECIFICATION Spec
CONSTANTS
  Boards = {b1, b2}
  Images = {i1, i2}
  Mems = {m1}
  MaxHandle = 3
  MaxMpf = 3
  NULL = NULL
SYMMETRY Symmetry
INVARIANTS
  SuccessIsProgrammed
CHECK_DEADLOCK FALSE
