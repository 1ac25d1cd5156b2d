SPECIFICATION LiveSpec
CONSTANTS
  w1 = w1
  w2 = w2
  Writers <- MCWriters
  Inodes = {1, 2}
  SlowWrites = FALSE
  MaxExits = 1
INVARIANTS LockIsExclusive NothingLeftBehind
PROPERTIES AbandonedIsReclaimed
CHECK_DEADLOCK FALSE
