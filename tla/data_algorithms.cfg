SPECIFICATION RulesSpec
CONSTANTS
  None = None
  Fails = Fails
  RenamePercent = 50
  DelayThreshold = 30
  TrainPercent = 70
  ValidationPercent = 15
  BuildRowLimit = 4
  FixedThreshold = 50
  MaxExplanations = 3
  MaxRecords = 2
  Horizon = 3650
  RecentWindow = 2
  MaxDepth = 2
  StackLimit = 2
  MinConfidence = 35
  MaxTrips = 5
  Draws <- MCDraws
  Inputs <- MCInputs
INVARIANTS
  DriftReported
  ChoicesOptimal
  HistoryEncoded
  PretrainingSound
  FleetConsistent
  DocumentsSound
CHECK_DEADLOCK FALSE
