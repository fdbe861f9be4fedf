\* Three requests compete for two entries; two puts overlap.
CONSTANTS
  Requests <- ThreeRequests
  Spelled <- MCSpelled
  Characters <- MCCharacters
  Digit <- MCDigit
  Keys <- TheirKeys
  Accounts = {acc}
  Errors = {err}
  Workers = {w1, w2}
  TTL = 2
  ErrorTTL = 1
  MaxEntries = 2
  MaxTime = 3
SYMMETRY Interchangeable
SPECIFICATION KeyedSpec
INVARIANTS
  CacheCoherent
  RecencyIsOrderOfUse
  KeysDistinguish
PROPERTIES
  ServedWithinLifetime
  EvictsLeastRecentlyUsed
  ImplementsStore
