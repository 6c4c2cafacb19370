SPECIFICATION Spec
CONSTANTS
  a1 = a1
  a2 = a2
  b1 = b1
  NULL = NULL
  Async = {a1, a2}
  Blocking = {b1}
  Size <- HardwareSize
  Threshold = 0
  DmaMaxLen = 2
  Align = 2
  Faults = {"timeout"}
INVARIANT StatusZeroMeansComplete
