\* The run stops at MaxClock.
CONSTANTS
  a1 = a1
  a2 = a2
  Avatars = {a1, a2}
  Misdeclared = {a2}
  r1 = r1
  r2 = r2
  Requests = {r1, r2}
  Ttl = 2
  ErrorTtl = 1
  LookupTimeout = 1
  MaxAge = 2
  MaxClock = 8
  NoAvatar = NoAvatar
  Failed = Failed
  Garbage = Garbage
SPECIFICATION Spec
SYMMETRY Symmetry
INVARIANTS
  OnlyOwnersAvatars
  RefsAreRecent
  AvatarFresh
CHECK_DEADLOCK FALSE
