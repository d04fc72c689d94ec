SPECIFICATION DatasetSpec
CONSTANTS
  None = None
  t1 = t1
  t2 = t2
  v1 = v1
  m1 = m1
  m2 = m2
  TripIds = {t1, t2}
  Keys = {v1}
  Mappings = {m1, m2}
  Versions <- MCVersions
  Doc <- MCDoc
  Fixed <- MCFixed
  Initial <- MCInitial
  Tick <- MCTick
  Starts <- MCStarts
  EventKinds = {"unscheduled"}
  Ticks = 2
  Activatable <- MCActivatable
  MaxChanges = 2
  MaxRows = 1
  DelayThreshold = 30
  TrainPercent = 70
  ValidationPercent = 15
  BuildRowLimit = 2
INVARIANTS
  DatasetTypeOK
  TargetPinned
  PointInTime
  RowsKept
  PlanHonest
CHECK_DEADLOCK FALSE
