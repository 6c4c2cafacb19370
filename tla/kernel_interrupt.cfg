SPECIFICATION FairSpec
CONSTANTS
  k1 = k1
  k2 = k2
  h1 = h1
  h2 = h2
  NULL = NULL
  Kernels = {k1, k2}
  Handlers = {h1, h2}
INVARIANTS
  TypeOK
  QuietWhenDisabled
  HandlerIsCurrent
PROPERTIES
  KernelsServed
  DisableReturns
