SPECIFICATION Spec
CONSTANTS
  g1 = g1
  g2 = g2
  Governors = {g1, g2}
  MaxToken = 3
  MaxCrashes = 1
  Faults = {"crash", "io", "lost", "refused", "login"}
  Runners = {"read", "capture", "wait"}
  ChildFaults = {}
  Payloads <- MCPayloads
  Percent = 2
  Reconcile = 3
  BackoffBase = 1
  BackoffMax = 4
  PollEvery = 1
INVARIANTS NotStranded SeenLoginIsKept CutOffLeavesNothing DriftBounded StampErrorBounded
PROPERTIES Recovers HealthyAnswers CommandEnds
