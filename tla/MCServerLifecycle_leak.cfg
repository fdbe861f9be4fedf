\* One connection is enough for a request that outlives Serve.
CONSTANTS
  Conns = {c1}
  LookupTimeout = 5
  Window = 2
SPECIFICATION Spec
INVARIANTS
  NeverLeaksHandlers
CHECK_DEADLOCK FALSE
