SPECIFICATION FairSpec
CONSTANTS
  Timer = timer
  Trainer = trainer
  Saver = saver
  Nobody = nobody
  Failing = {"train", "updateTargetModel", "selectAction"}
  Patient = TRUE
  kTargetNetworkPolyakUpdateInterval = 2
  kTrainStepCheckpointInterval = 2
  MaxSelections = 1
  MaxRequests = 3
  MaxSteps = 2
INVARIANTS
  Consistent
  SelectionOvertakenOnce
  ActsOnWhatIsTrained

  
CHECK_DEADLOCK FALSE
