CONSTANTS
  p1 = p1
  p2 = p2
  p3 = p3
  Pids = {p1, p2, p3}
  Initial = {"absent", "torn", "old", "current"}
  Snapshots = {"absent", "torn", "current"}
  MaxData = 3
  MaxFaults = 2
  Faults = {"kill", "power", "io"}
SPECIFICATION FairSpec
INVARIANTS AcknowledgedSurvives RollbackIsExact
PROPERTY SaveCompletes
