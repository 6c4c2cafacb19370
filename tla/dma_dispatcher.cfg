SPECIFICATION FairSpec
CONSTANTS
  NULL = NULL
  CMDQ_DEPTH = 3
  MaxGiveUps = 1
  Commands <- SomeCommands
INVARIANTS
  TypeOK
  DoneMeansMoved
  FifoBacklog
PROPERTIES
  ImplementsDescriptor
  EveryCommandAnswered
