CONSTANTS
  Interval = 4
  RedZone = 1
  Starting = 4
  MinCompositing = 4
  VRRFlushing = 1
  Alpha = 3
  Decay = 4
  StaleAge = 1
  Backends = {"drm", "wayland", "nudge"}
  MaxDraw = 5
  MaxLate = 2
  MaxInFlight = 2
  PipeSize = 2
SPECIFICATION TimerFairSpec
INVARIANTS TimerTypeOK NeverStalls OnLatestGrid KmsWakesOnTime
PROPERTIES VBlanksRecur
CHECK_DEADLOCK TRUE
