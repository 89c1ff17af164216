CONSTANTS
  Hosts = {1, 2}
  Fleet <- MCFleet
  Ceiling <- MCCeiling
  StepUp <- MCStepUp
  Demands = {0, 1}
  Kinds = {"same", "other", "unmeasured"}
  Useds = {0, 3}
  Disagreement = 1
  RawTarget <- MCRawTarget
  StaleAfter = 1
  Expiry = 3
SPECIFICATION Spec
INVARIANT SharesAddUp
PROPERTIES ImplementsPolicy NoIdleGrowth Settles
