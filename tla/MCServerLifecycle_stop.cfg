\* Nothing happens any more once Serve has returned and all requests ended.
CONSTANTS
  Conns = {c1, c2}
  LookupTimeout = 5
  Window = 2
SPECIFICATION FairSpec
INVARIANTS
  ResultHonest
  ShutdownLeavesNothing
  CutOnlyIfLonger
PROPERTIES
  StopsCompletely
CHECK_DEADLOCK FALSE
