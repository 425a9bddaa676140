CONSTANTS
  Wins = {w1, w2}
  NoWin = NoWin
  Xdg = TRUE
  Kinds = {"fifo", "mailbox", "again", "foreign", "broken"}
  Timed = {"mailbox"}
  Divisor = 2
  MaxCommits = 2
  MaxTime = 1
SPECIFICATION Spec
INVARIANT NothingLost
CHECK_DEADLOCK TRUE
