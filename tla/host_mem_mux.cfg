SPECIFICATION FairSpec
CONSTANTS
  Lines = {0, 1}
  BurstCounts = {1, 2, 4}
INVARIANTS
  TypeOK
  IrqAtMostOneBeatEarly
PROPERTIES
  IrqsNotStuck
