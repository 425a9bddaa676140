SPECIFICATION FairSpec
CONSTANTS
  MaxRung = 2
  CausalMaxRung = 2
  HoldFrames = 1
  MinSamples = 2
  MissWindow = 3
  Headroom = 2
  BaseBackoff = 2
  MaxBackoff = 7
  Probation = 3
  KnownPercent = 70
  ColdPercent = 50
  Budgets = {4, 6, 12}
  SlotBudget = 6
  Costs = {2, 5, 9}
  Causal = TRUE
  Native = TRUE
  Recover = TRUE
  VrrConfigured = FALSE
  MaxShifts = 0
  MaxMisses = 4
  MaxScenes = 1
INVARIANTS
  TypeOK
  MeasuredThisScene
PROPERTIES
  ClimbSeparated
  RecoveryNotJammed
