SPECIFICATION SaturationFairSpec
CONSTANTS
  Fleet <- MCFleet
  Bootstrap = 1
  Unowned = 0
  Step = 2
  Dwell = 2
  Reprobe = 2
  StaleAfter = 2
  Windows = {1}
  Deltas = {0, 1, 3}
  Rates = {0, 4, 6}
  Track = FALSE
  Plateau = 1
  Unit = 4
  Backlogs <- MCBacklogs
PROPERTIES GrowthNeedsEvidence RollbackFirst ProbesResolve NoDownwardLatch
