\* SIM build, every fault.
SPECIFICATION FairSpec
CONSTANTS
  a1 = a1
  a2 = a2
  b1 = b1
  NULL = NULL
  Async = {a1, a2}
  Blocking = {b1}
  Size <- SimSize
  Threshold = 2
  DmaMaxLen = 2
  Align = 2
  Faults = {"prepare", "addr", "len", "timeout", "poll", "read"}
INVARIANTS
  TypeOK
  CompletionBelongsToWaiter
  PinnedWhileInFlight
  SuccessMeansDelivered
  PinsReleased
PROPERTIES
  EveryTransferEnds
  ImplementsService
