SPECIFICATION PreparationFairSpec
CONSTANTS
  Requirements <- RequirementsValue
  Debuffs <- DebuffsValue
  Characters <- CharactersValue
  MaxAttempts = 2
  MaxTimeouts = 2
  MaxMishaps = 2
  MaxLate = 1
INVARIANTS PreparationConsistent ReadyToFight
PROPERTY PreparationEnds
