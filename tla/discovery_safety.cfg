SPECIFICATION FairSpec
CONSTANTS
  Snaps = {s1, s2, s3}
  Schemas = {x, y}
  None = None
  MaxSeq = 3
INVARIANTS DriftOfOlder
PROPERTIES JobsEnd
CHECK_DEADLOCK FALSE
