SPECIFICATION FairSpec
CONSTANTS
  MaxRung = 3
  CausalMaxRung = 2
  HoldFrames = 1
  MinSamples = 1
  MissWindow = 3
  Headroom = 1
  BaseBackoff = 2
  MaxBackoff = 3
  Probation = 1
  KnownPercent = 70
  ColdPercent = 50
  Budgets = {1, 6}
  SlotBudget = 6
  Costs = {2, 9}
  Causal = FALSE
  Native = FALSE
  Recover = TRUE
  VrrConfigured = TRUE
  MaxShifts = 1
  MaxMisses = 1
  MaxScenes = 0
PROPERTIES
  RungMonotoneInHold
  OverloadShed
