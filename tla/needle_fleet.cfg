CONSTANTS
  Local = 2
  Peers = {1, 3}
  Repos = {1, 2}
  RepoOwners <- MCRepoOwners
  Home = 1
  Base = 3
  Width = 2
  MaxId = 5
  MinWorkers = 0
  MaxWorkers = 3
  StepUp = 2
  MaxReady = 1
SPECIFICATION Spec
INVARIANT CeilingHolds
PROPERTIES StopsOnlyChosen KeepsOut
