CONSTANTS
  h1 = h1
  h2 = h2
  Hosts = {h1, h2}
  MaxWorkers = 3
  MaxStepUp = 1
  Fleet <- MCFleet
  StepUp <- MCStepUp
  RawTargets <- MCRawTargets
  Faults = {"exit", "crash", "lag", "statuswrite"}
SYMMETRY HostSymmetry
SPECIFICATION Spec
INVARIANTS TypeOK PublishedCoversRunning OvershootByPeerSteps
