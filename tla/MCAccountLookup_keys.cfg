\* Two keys of one account compete for a single cache entry; the collection of
\* one of them is not allowlisted.
CONSTANTS
  c1 = c1
  c2 = c2
  all = all
  other = other
  Requests = {all, other}
  Supported = {all}
  Selection <- MCSelection
  Collections = {c1, c2}
  Workers = {w1, w2}
  TTL = 2
  ErrorTTL = 1
  MaxEntries = 1
  MaxTime = 0
  MaxVersion = 1
SPECIFICATION FairSpec
INVARIANTS
  AnswersAreComplete
PROPERTIES
  EveryLookupReturns
