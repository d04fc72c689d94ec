SPECIFICATION LoaderFairSpec
CONSTANTS
  LoadCalls = {c1, c2, c3}
  Versions = {m1, m2, m3}
  None = None
  Threshold = 3
  MaxAttempts = 3
  MaxFailures = 9
INVARIANTS NoHammering
PROPERTIES EveryLoadEnds
