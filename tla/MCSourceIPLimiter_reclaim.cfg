\* One call at a time; three sources compete for two entries.
\* interval = 5 \div 2 = 2 (truncated), burstTolerance = 2.
CONSTANTS
  Sources = {a, b, c}
  Workers = {w1}
  Second = 5
  Rate = 2
  MaxEntries = 2
  MaxTime = 3
SYMMETRY Interchangeable
SPECIFICATION Spec
PROPERTIES
  ReplenishedReclaimable
