CONSTANTS
  Concurrent = {{"explicit"}}
  MaxCommits = 2
SPECIFICATION Spec
INVARIANT HeldUntilReleased
CHECK_DEADLOCK FALSE
