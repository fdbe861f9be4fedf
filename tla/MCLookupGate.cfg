\* One call at a time, so that clock readings reach the mutex in order; three
\* sources compete for two entries, directly or through a trusted proxy.
\* interval = 3 \div 2 = 1 (truncated), burstTolerance = 1.
CONSTANTS
  a = a
  b = b
  c = c
  Sources = {a, b, c}
  TrustedProxies = {p}
  Supplied <- ShortHeaders
  Workers = {w1}
  Second = 3
  Rate = 2
  MaxEntries = 2
  MaxTime = 3
SYMMETRY Interchangeable
SPECIFICATION GateSpec
INVARIANTS
  ConformingAlways
  SourceIsSender
PROPERTIES
  ImplementsBuckets
  BurstAfterWait
