SPECIFICATION Spec
CONSTANTS
  Lines = {0, 1}
  BurstCounts = {1, 2, 4}
INVARIANTS
  IrqBetweenBursts
