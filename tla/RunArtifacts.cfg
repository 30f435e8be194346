SPECIFICATION MCSpec
CONSTANTS
  first = first
  second = second
  Jobs = {first, second}
  Procs = {a, b}
  Orders <- Pairs
  DailyCap = 1
  Price = 2
  Funds = 3
  MaxDeaths = 1
  Overrun = FALSE
INVARIANT PurseHolds
PROPERTIES Settles RowCloses
CHECK_DEADLOCK FALSE
