SPECIFICATION LaunchSpec
CONSTANTS
  Fds = {0, 1, 2, 3, 4, 5, 6, 7, 8, 9}
  Tables <- MCTables
  Plans <- MCPlans
  MaxChildren = 3
INVARIANTS
  GetsWhatWasAsked
  NoneLeaks
PROPERTY
  WaitReturns
CHECK_DEADLOCK FALSE
