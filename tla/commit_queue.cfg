CONSTANTS
  Wins = {w1, w2}
  NoWin = NoWin
  Xdg = FALSE
  Kinds = {"fifo", "mailbox", "again", "foreign", "broken"}
  Timed = {"mailbox"}
  Divisor = 2
  MaxCommits = 2
  MaxTime = 1
SPECIFICATION FairSpec
INVARIANTS TypeOK BufferHeldForFence HeldIsNewest
PROPERTIES FifoInOrder FifoPaced Delivers DeliversInTime
CHECK_DEADLOCK TRUE
