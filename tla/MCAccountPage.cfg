\* A request may stop for good once it has been answered or refused.
CONSTANTS
  Order <- MCOrder
  Unlisted = {0, 4}
  Times = {1, 2}
  MaxRequested = 3
  Blobs = {"none", "image/png", "image/gif"}
SPECIFICATION PageSpec
INVARIANTS
  SelectionExact
  DefaultIsOldest
  ResponseNeverRefused
  EveryRecordAnswered
  PreviewMatchesAvatar
CHECK_DEADLOCK FALSE
