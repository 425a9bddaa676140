CONSTANTS
  Concurrent = {{"implicit"}, {"explicit"}}
  MaxCommits = 2
SPECIFICATION FairSpec
INVARIANTS HeldWhileUsed SignalledWhenIdle IdleWhenDestroyed
PROPERTIES BufferComesBack
CHECK_DEADLOCK FALSE
