CONSTANTS
  p1 = p1
  p2 = p2
  Pids = {p1, p2}
  Initial = {"absent", "torn", "old", "current"}
  Snapshots = {"absent", "torn", "current"}
  MaxData = 3
  MaxFaults = 2
  Faults = {"kill", "power", "io", "reader", "oldbinary"}
SYMMETRY PidSymmetry
SPECIFICATION Spec
INVARIANT RollbackAvailable
