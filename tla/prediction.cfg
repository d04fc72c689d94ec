SPECIFICATION FairSpec
CONSTANTS
  t1 = t1
  mShared = mShared
  mPrivate = mPrivate
  Models = {mShared, mPrivate}
  Owner <- MCOwner
  Shared = Shared
  None = None
  EmptyKey = empty
  Calls = {c1, c2}
  Tenants = {t1, t2}
  Keys = {k1, empty}
  Trips = {trip1, trip2}
INVARIANTS
  SameKeySamePrediction
  RetryPossible
PROPERTIES
  PredictionsAtomic
  EveryCallEnds
CHECK_DEADLOCK FALSE
