SPECIFICATION Spec
CONSTANTS
  t1 = t1
  t2 = t2
  t3 = t3
  t4 = t4
  TransitionId = {t1, t2, t3, t4}
  LeftmostLeaf = t1
  StorageCapacity = 4
  kTdLookahead = 3
  kBatchSize = 2
  kReplayBufferMinimumBeforeTraining = 1
  kPvpCount = 2
  MaxPvps = 3
  MaxObservations = 7
SYMMETRY LeafSymmetry
CHECK_DEADLOCK FALSE
INVARIANTS
  Consistent
  PriorityIsItsOwn
  FinishedFightIsLearned
PROPERTY UsesPool
