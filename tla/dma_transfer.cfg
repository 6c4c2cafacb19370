SPECIFICATION FairSpec
CONSTANTS
  NULL = NULL
  Commands <- SomeCommands
  BytesPerWord = 2
  SRC_RD_BURSTCOUNT_MAX = 2
  DST_WR_BURSTCOUNT_MAX = 3
  RDDATA_BUFFER_DEPTH = 17
  DATA_BUFFER_SKID_SPACE = 14
INVARIANTS
  BufferInBounds
PROPERTIES
  BurstsWellFormed
  ImplementsDescriptor
  EveryCommandAnswered
