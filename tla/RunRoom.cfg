SPECIFICATION FairSpec
CONSTANTS
  Prepares = {p1, p2}
  Starts = {s1}
  Stops = {x1}
  Procs = {a}
  Batches = 2
  MaxRounds = 1
  MaxRestarts = 1
  Overrun = TRUE
INVARIANT OneRoom
PROPERTY InFlightCloses
CHECK_DEADLOCK FALSE
