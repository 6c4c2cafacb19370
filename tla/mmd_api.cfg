SPECIFICATION FairSpec
CONSTANTS
  c1 = c1
  c2 = c2
  NULL = NULL
  h1 = h1
  h2 = h2
  Calls = {c1, c2}
  Requests <- SomeRequests
  Handlers = {h1, h2}
  MMD_COPY_BUFFER_SIZE = 2
INVARIANTS
  TypeOK
  CallsDeliver
  MmioExact
  OneReport
PROPERTIES
  OpsAnswered
