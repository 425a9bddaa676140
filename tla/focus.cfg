SPECIFICATION Spec
CONSTANTS
  a = a
  b = b
  d = d
  o = o
  None = None
  Windows <- MCWindows
  Overlay = o
  Redirect = {d}
  Dropdown = {}
  App <- MCApp
  Owner <- MCOwner
  Starts <- MCStarts
  Controls <- MCControls
  Events = 3
  Surfaces = 5
INVARIANTS
  FocusIsChosen
  PointerFollows
CHECK_DEADLOCK FALSE
