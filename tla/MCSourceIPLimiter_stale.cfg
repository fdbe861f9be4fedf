\* Two calls race through the mutex; the burst is one admission, so that the
\* shortest trace shows it exceeded.
CONSTANTS
  Sources = {a, b, c}
  Workers = {w1, w2}
  Second = 2
  Rate = 1
  MaxEntries = 2
  MaxTime = 3
SYMMETRY Interchangeable
SPECIFICATION Spec
INVARIANTS
  ConformingAlways
