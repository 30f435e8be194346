SPECIFICATION Spec
CONSTANTS
  Prepares = {p1, p2}
  Starts = {s1}
  Stops = {}
  Procs = {a, b}
  Batches = 1
  MaxRounds = 1
  MaxRestarts = 1
  Overrun = FALSE
PROPERTY ReaperClosesOnlyStale
CHECK_DEADLOCK FALSE
