CONSTANTS
  h1 = h1
  h2 = h2
  Hosts = {h1, h2}
  MaxWorkers = 1
  MaxStepUp = 1
  Fleet <- MCFleet
  StepUp <- MCStepUp
  RawTargets <- MCRawTargets
  Faults = {"lag", "exit", "crash", "loss", "expiry", "observation", "actuation", "short", "statuswrite"}
SPECIFICATION Spec
INVARIANT PublishedCoversRunning
SYMMETRY HostSymmetry
