\* Two lookups of one key race with each other, with upstream changes and with
\* the expiry of errors and accounts.
CONSTANTS
  c1 = c1
  c2 = c2
  all = all
  other = other
  Requests = {all}
  Supported = {all}
  Selection <- MCSelection
  Collections = {c1, c2}
  Workers = {w1, w2}
  TTL = 2
  ErrorTTL = 1
  MaxEntries = 1
  MaxTime = 2
  MaxVersion = 2
SYMMETRY Interchangeable
SPECIFICATION Spec
INVARIANTS
  AnswersAreComplete
  InterruptionsStayPrivate
PROPERTIES
  ReplacedOnlyByCrossingLookup
  CachedAnswersFresh
