CONSTANTS
  Tolerance = 1
  Baseline = 3
  MinInterval = 2
  MaxSamples = 3
  MaxHistory = 2
  Lookback = 3
  StaleAfter = 2
  MinimumSample = 1
  Quantum = 2
  Burns = {0, 3}
  Jitter = {0, 1}
  Period = 4
  MinReset = 4
  Workers = {1}
  Window = 2
  MaxTime = 6
SPECIFICATION HistorySpec
INVARIANTS EstimatesWithinTruth ShownRateIsTrue BaselineKept
