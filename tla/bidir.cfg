\* The ring of a multiplier of two, half of it with the backend; the model's
\* bounds end the behaviour, so it may stop.
CONSTANTS
  Ticks = 3
  Mult = 2
  Ring = 8
  Before = 4
  Lag = 2
  Last = 5
  Frames = 4
  Scenes = 1
  Slips = 1
SPECIFICATION Spec
INVARIANTS RealsArrive
PROPERTIES Forward
CHECK_DEADLOCK FALSE
