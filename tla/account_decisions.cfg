CONSTANTS
  Tolerance = 1
  Baseline = 3
  MinInterval = 1
  MaxSamples = 4
  MaxHistory = 2
  Full = 3
  Weekly <- MCWeekly
  Fleet <- MCFleet
  MinimumSample = 1
  RedeemAt = 2
  HoldAbove = 2
  StepDownAbove = 3
  RecoverBelow = 1
  QuietCycles = 2
  SignalLossRelease = 2
  Target <- BothTarget
  Strategy <- BothStrategy
  WindowSets <- AllWindows
  StaleBehavior = "min_workers"
  Bootstrap = 2
  BankedEnabled = TRUE
  FullSpeed = TRUE
  MinWorkers = 0
  MaxWorkers = 2
  MaxUp = 1
  MaxDown = 1
  UsedLevels = {0, 1, 2}
  Remainings = {0, 2}
  Elapsed = {1}
  Backlogs <- LittleWork
  CreditCounts = {0, 1}
  Burns <- NoBurn
  Fractions <- NoPressure
  BackpressureEnabled = FALSE
  Reconciliation = "clamp"
  MaxUnowned = 1
  MaxGen <- TwoWeeks
  Faults = {"crash", "observation", "actuation", "exit"}
SPECIFICATION Spec
INVARIANTS StaleNeverGrows ShrinkBounded NoGrowthBeyondWork RecordedRedemptionHolds
