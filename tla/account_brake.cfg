CONSTANTS
  Tolerance = 1
  Baseline = 3
  MinInterval = 1
  MaxSamples = 4
  MaxHistory = 2
  Full = 3
  Weekly <- MCWeekly
  Fleet <- MCFleet
  MinimumSample = 1
  RedeemAt = 3
  HoldAbove = 2
  StepDownAbove = 3
  RecoverBelow = 1
  QuietCycles = 2
  SignalLossRelease = 2
  Target <- WeeklyTarget
  Strategy <- WeeklyStrategy
  WindowSets <- WeeklyOnly
  StaleBehavior = "min_workers"
  Bootstrap = 2
  BankedEnabled = TRUE
  FullSpeed = FALSE
  MinWorkers = 1
  MaxWorkers = 3
  MaxUp = 2
  MaxDown = 1
  UsedLevels = {0, 1}
  Remainings = {2}
  Elapsed = {1}
  Backlogs <- SomeWork
  CreditCounts = {1}
  Burns <- AnyBurn
  Fractions <- SomePressure
  BackpressureEnabled = TRUE
  Reconciliation = "clamp"
  MaxUnowned = 0
  MaxGen <- FirstGeneration
  Faults = {"crash", "observation", "actuation", "exit"}
SPECIFICATION FairSpec
INVARIANT BrakeLimits
PROPERTY BrakeReleased
