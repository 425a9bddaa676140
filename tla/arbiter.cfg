CONSTANTS
  Refresh = 3
  Offset = 1
  Leads = {0, 1, 2}
  Budget = 2
  BaseModes = {TRUE, FALSE}
  MaxCadence = 2
  MaxLate = 3
SPECIFICATION FairSpec
INVARIANTS TypeOK TimerFollowsSlot
PROPERTIES RealNeverOvertaken OverlayNotEaten NeverBeforeDeadline WorkIsShown
CHECK_DEADLOCK TRUE
