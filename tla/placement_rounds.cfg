SPECIFICATION FairSpec
CONSTANTS
  HostConfigs <- MCHostConfigs
  Fleet <- MCFleet
  RawTargets = {1, 4}
  Unit = 2
  MaxWorkers = 3
  MaxShort = 1
INVARIANTS OvershootIsHeldWorkers UnknownHostsFrozen OnlyStepsHoldBack
PROPERTY Settles
