SPECIFICATION CheckpointsFairSpec
CONSTANTS
  UiNames = {a, backup}
  Backup = backup
  Timer = timer
  Trainer = trainer
  Saver = saver
  NoOne = none
  NoVersion = noVersion
  Requests = {"save", "load", "delete", "stop"}
  kTrainStepCheckpointInterval = 1
  MaxRequests = 2
  MaxSteps = 2
  MaxCrashes = 1
INVARIANTS
  CheckpointsConsistent
  CheckpointsAreWhole
  
PROPERTIES
  RequestsComplete
CHECK_DEADLOCK FALSE
