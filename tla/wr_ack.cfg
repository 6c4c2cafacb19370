SPECIFICATION FairSpec
CONSTANTS
  Addresses = {1, 2}
  BurstCounts = {1, 3}
  MaxKernelBursts = 3
  FifoDepth = 2
  CounterRange = 5
INVARIANTS
  TypeOK
  NeverEarly
  AckedExactly
  EventsInStep
PROPERTIES
  EveryWordAcked
