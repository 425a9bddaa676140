CONSTANTS
  Conns = {1, 2}
  Modes = {1, 2}
  Fbs = {f1, f2}
  MaxChanges = 4
  MaxAsleep = 2
SPECIFICATION FairSpec
INVARIANTS ScanoutHeld NothingInFlight PropsAreKernels
PROPERTIES ComesUp
CHECK_DEADLOCK FALSE
